------------------------- MODULE BibliothequePreuves -------------------------
(***************************************************************************)
(* The C library, for every size of its arguments: each function in turn,  *)
(* then the whole library.                                                 *)
(***************************************************************************)
EXTENDS Bibliotheque, SequenceTheorems, WellFoundedInduction, TLAPS

-----------------------------------------------------------------------------
(* memmove.  CopieEnCours is the invariant of its two loops.               *)

\* A copy that is one byte longer at its end is one more store upwards.
LEMMA UnOctetApres ==
  ASSUME NEW z \in [Adresses -> Octets],
         NEW d \in Nat, NEW s \in Nat, NEW v \in Nat,
         d < s, s + v < Taille
  PROVE  [Copie(z, d, s, v) EXCEPT ![d + v] = Copie(z, d, s, v)[s + v]]
           = Copie(z, d, s, v + 1)
<1>1. d + v \in Adresses /\ s + v \in Adresses
  BY TailleMemoireOK DEF Adresses
<1>2. Copie(z, d, s, v)[s + v] = z[s + v]
  BY <1>1 DEF Copie
<1> DEFINE f == [Copie(z, d, s, v) EXCEPT
                   ![d + v] = Copie(z, d, s, v)[s + v]]
           g == Copie(z, d, s, v + 1)
<1>3. ASSUME NEW a \in Adresses
      PROVE  f[a] = g[a]
  <2>1. f[a] = IF a = d + v THEN z[s + v] ELSE Copie(z, d, s, v)[a]
    BY <1>1, <1>2 DEF Copie
  <2>2. QED
    BY <1>1, <2>1 DEF Copie, Adresses
<1>4. /\ DOMAIN f = Adresses /\ DOMAIN g = Adresses
      /\ f = [a \in DOMAIN f |-> f[a]] /\ g = [a \in DOMAIN g |-> g[a]]
  BY DEF Copie
<1> HIDE DEF f, g
<1>5. f = g
  BY <1>3, <1>4
<1> QED
  BY <1>5 DEF f, g

\* A copy that is one byte longer at its beginning is one more store
\* downwards.
LEMMA UnOctetAvant ==
  ASSUME NEW z \in [Adresses -> Octets],
         NEW d \in Nat, NEW s \in Nat, NEW v \in Nat,
         d >= s, s > 0, d + v <= Taille
  PROVE  [Copie(z, d, s, v) EXCEPT ![d - 1] = Copie(z, d, s, v)[s - 1]]
           = Copie(z, d - 1, s - 1, v + 1)
<1>1. d - 1 \in Adresses /\ s - 1 \in Adresses
  BY TailleMemoireOK DEF Adresses
<1>2. Copie(z, d, s, v)[s - 1] = z[s - 1]
  BY <1>1 DEF Copie
<1> DEFINE f == [Copie(z, d, s, v) EXCEPT
                   ![d - 1] = Copie(z, d, s, v)[s - 1]]
           g == Copie(z, d - 1, s - 1, v + 1)
<1>3. ASSUME NEW a \in Adresses
      PROVE  f[a] = g[a]
  <2>1. f[a] = IF a = d - 1 THEN z[s - 1] ELSE Copie(z, d, s, v)[a]
    BY <1>1, <1>2 DEF Copie
  <2>2. CASE a = d - 1
    BY <1>1, <2>1, <2>2 DEF Copie, Adresses
  <2>3. CASE a \in d .. d + v - 1
    <3>1. s + (a - d) = s - 1 + (a - (d - 1))
      BY <2>3
    <3>2. f[a] = z[s + (a - d)]
      BY <2>1, <2>3 DEF Copie
    <3>3. a \in d - 1 .. d - 1 + (v + 1) - 1
      BY <2>3
    <3>4. QED
      BY <3>1, <3>2, <3>3 DEF Copie
  <2>4. CASE a # d - 1 /\ a \notin d .. d + v - 1
    <3>1. a \notin d - 1 .. d - 1 + (v + 1) - 1
      BY <2>4 DEF Adresses
    <3>2. QED
      BY <2>1, <2>4, <3>1 DEF Copie
  <2>5. QED
    BY <2>2, <2>3, <2>4
<1>4. /\ DOMAIN f = Adresses /\ DOMAIN g = Adresses
      /\ f = [a \in DOMAIN f |-> f[a]] /\ g = [a \in DOMAIN g |-> g[a]]
  BY DEF Copie
<1> HIDE DEF f, g
<1>5. f = g
  BY <1>3, <1>4
<1> QED
  BY <1>5 DEF f, g

LEMMA CopieInitiale == InitM => CopieEnCours
BY TailleMemoireOK DEF InitM, CopieEnCours, Arguments

LEMMA CopieInductive == CopieEnCours /\ [NextM]_varsM => CopieEnCours'
<1> SUFFICES ASSUME CopieEnCours, [NextM]_varsM PROVE CopieEnCours'
  OBVIOUS
<1> USE TailleMemoireOK
<1>1. CASE Choisit
  <2>1. Copie(mem0, dst + n0, src + n0, 0) = mem0 /\ Copie(mem0, dst, src, 0) = mem0
    BY DEF CopieEnCours, Copie, Arguments
  <2> QED
    BY <1>1, <2>1 DEF Choisit, CopieEnCours, Arguments
<1>2. CASE Avant
  <2>1. mem' = Copie(mem0, dst, src, (n0 - n) + 1)
    <3>1. /\ n0 - n \in Nat /\ dst \in Nat /\ src \in Nat
          /\ dst < src /\ src + (n0 - n) < Taille
      BY <1>2 DEF Avant, CopieEnCours, Arguments
    <3> QED
      BY <1>2, <3>1, UnOctetApres DEF Avant, CopieEnCours
  <2> QED
    BY <1>2, <2>1 DEF Avant, CopieEnCours, Arguments
<1>3. CASE Arriere
  <2>1. mem' = Copie(mem0, (dst + n) - 1, (src + n) - 1, (n0 - n) + 1)
    <3>1. /\ n0 - n \in Nat /\ dst + n \in Nat /\ src + n \in Nat
          /\ dst + n >= src + n /\ src + n > 0
          /\ (dst + n) + (n0 - n) <= Taille
      BY <1>3 DEF Arriere, CopieEnCours, Arguments
    <3>2. /\ q = dst + n /\ p = src + n
          /\ mem = Copie(mem0, dst + n, src + n, n0 - n)
          /\ mem0 \in [Adresses -> Octets]
      BY <1>3 DEF Arriere, CopieEnCours
    <3>3. mem' = [mem EXCEPT ![q - 1] = mem[p - 1]]
      BY <1>3 DEF Arriere
    <3> QED
      BY <3>1, <3>2, <3>3, UnOctetAvant
  <2> QED
    BY <1>3, <2>1 DEF Arriere, CopieEnCours, Arguments
<1>4. CASE Fin
  BY <1>4 DEF Fin, CopieEnCours, Arguments
<1>5. CASE UNCHANGED varsM
  BY <1>5 DEF varsM, CopieEnCours, Arguments
<1> QED
  BY <1>1, <1>2, <1>3, <1>4, <1>5 DEF NextM

\* memmove, which scrolls the screen: when it returns, the destination holds
\* what the source held when it was called, and no other byte has changed.
THEOREM CopieExacteTheoreme == SpecM => []CopieExacte
<1>1. CopieEnCours => CopieExacte
  BY DEF CopieEnCours, CopieExacte
<1> QED
  BY <1>1, CopieInitiale, CopieInductive, PTL DEF SpecM

-----------------------------------------------------------------------------
(* printf and vsnprintf.  FluxEnCours is the invariant of _doprnt and of   *)
(* the two functions that it calls for a character.                        *)

\* A character of reste that is put behind tampon: the text is the same.
LEMMA CaractereSuivant ==
  ASSUME NEW a \in Seq(Signes), NEW b \in Seq(Signes), NEW r \in Seq(Signes),
         r # <<>>
  PROVE  /\ a \o (Append(b, Head(r)) \o Tail(r)) = a \o (b \o r)
         /\ (a \o Append(b, Head(r))) \o Tail(r) = a \o (b \o r)
<1>1. Head(r) \in Signes /\ Tail(r) \in Seq(Signes)
  BY HeadTailProperties
<1>2. Append(b, Head(r)) = b \o <<Head(r)>> /\ <<Head(r)>> \in Seq(Signes)
  BY <1>1, AppendIsConcat
<1>3. <<Head(r)>> \o Tail(r) = r
  BY <1>1
<1>4. Append(b, Head(r)) \o Tail(r) = b \o r
  BY <1>1, <1>2, <1>3, ConcatAssociative
<1>5. Append(b, Head(r)) \in Seq(Signes)
  BY <1>1, AppendProperties
<1>6. (a \o Append(b, Head(r))) \o Tail(r)
        = a \o (Append(b, Head(r)) \o Tail(r))
  <2> DEFINE B == Append(b, Head(r))
             R == Tail(r)
  <2>1. B \in Seq(Signes) /\ R \in Seq(Signes)
    BY <1>1, <1>5
  <2> HIDE DEF B, R
  <2>2. (a \o B) \o R = a \o (B \o R)
    BY <2>1, ConcatAssociative
  <2> QED
    BY <2>2 DEF B, R
<1> QED
  BY <1>4, <1>6

LEMMA FluxInitial == InitI => FluxEnCours
<1> SUFFICES ASSUME InitI PROVE FluxEnCours
  OBVIOUS
<1>1. texte \in Seq(Signes) /\ reste = texte
  BY DEF InitI
<1>2. tampon = <<>> /\ recu = <<>> /\ ecrit = <<>>
  BY DEF InitI
<1>3. recu \o (tampon \o reste) = texte
  BY <1>1, <1>2, ConcatEmptySeq, EmptySeq
<1>4. Len(tampon) = 0
  BY <1>2
<1> QED
  BY <1>1, <1>2, <1>3, <1>4, TamponOK, EmptySeq DEF InitI, FluxEnCours, FluxIntact

LEMMA FluxInductif == FluxEnCours /\ [NextI]_varsI => FluxEnCours'
<1> SUFFICES ASSUME FluxEnCours, [NextI]_varsI PROVE FluxEnCours'
  OBVIOUS
<1>t. tampon \in Seq(Signes)
  BY SeqMonotonic DEF FluxEnCours, Signes
<1>1. CASE PrintfChar
  <2>1. /\ Head(reste) \in Signes /\ Tail(reste) \in Seq(Signes)
        /\ reste \in Seq(Signes) /\ reste # <<>> /\ recu \in Seq(Signes)
        /\ recu \o (tampon \o reste) = texte
        /\ Len(tampon) <= PRINTF_BUFMAX
    BY <1>1, HeadTailProperties DEF PrintfChar, FluxEnCours, FluxIntact
  <2>2. CASE Head(reste) \in {"nul", "nl"} \/ Len(tampon) >= PRINTF_BUFMAX
    <3>1. /\ recu' = recu \o Append(tampon, Head(reste)) /\ tampon' = <<>>
          /\ reste' = Tail(reste)
      BY <1>1, <2>2 DEF PrintfChar
    <3>2. recu' \in Seq(Signes)
      BY <1>t, <2>1, <3>1, AppendProperties, ConcatProperties
    <3>3. recu' \o reste' = texte
      BY <1>t, <2>1, <3>1, CaractereSuivant
    <3>4. tampon' \o reste' = reste'
      BY <2>1, <3>1, ConcatEmptySeq
    <3>5. tampon' \in Seq(Ordinaires) /\ Len(tampon') = 0
      BY <3>1, EmptySeq
    <3>6. recu' \o (tampon' \o reste') = texte
      BY <3>3, <3>4
    <3>7. Len(tampon') <= PRINTF_BUFMAX
          /\ \A i \in 1 .. Len(tampon') : tampon'[i] \in Ordinaires
      BY <3>5, TamponOK
    <3> QED
      BY <1>1, <2>1, <3>1, <3>2, <3>5, <3>6, <3>7
      DEF PrintfChar, FluxEnCours, FluxIntact
  <2>3. CASE ~(Head(reste) \in {"nul", "nl"} \/ Len(tampon) >= PRINTF_BUFMAX)
    <3>1. /\ tampon' = Append(tampon, Head(reste)) /\ recu' = recu
          /\ reste' = Tail(reste)
      BY <1>1, <2>3 DEF PrintfChar
    <3>2. Head(reste) \in Ordinaires
      BY <2>1, <2>3 DEF Signes
    <3>3. tampon \in Seq(Ordinaires)
      BY DEF FluxEnCours
    <3>4. /\ tampon' \in Seq(Ordinaires)
          /\ Len(tampon') = Len(tampon) + 1
      BY <3>1, <3>2, <3>3, AppendProperties
    <3>5. \A i \in 1 .. Len(tampon') : tampon'[i] \in Ordinaires
      BY <3>4, ElementOfSeq
    <3>6. recu' \o (tampon' \o reste') = texte
      BY <1>t, <2>1, <3>1, CaractereSuivant
    <3>7. Len(tampon') <= PRINTF_BUFMAX
      BY <2>3, <3>3, <3>4, TamponOK, LenProperties
    <3> QED
      BY <1>1, <2>1, <3>1, <3>4, <3>5, <3>6, <3>7
      DEF PrintfChar, FluxEnCours, FluxIntact
  <2> QED
    BY <2>2, <2>3
<1>2. CASE FinPrintf
  <2>1. /\ recu' = recu \o tampon /\ tampon' = <<>> /\ reste = <<>>
        /\ recu \in Seq(Signes) /\ recu \o (tampon \o reste) = texte
    BY <1>2 DEF FinPrintf, FluxEnCours, FluxIntact
  <2>2. recu' \in Seq(Signes) /\ recu' = texte
    BY <1>t, <2>1, ConcatProperties, ConcatEmptySeq
  <2>3. tampon' \in Seq(Ordinaires) /\ Len(tampon') = 0
    BY <2>1, EmptySeq
  <2>4. Len(tampon') <= PRINTF_BUFMAX
        /\ \A i \in 1 .. Len(tampon') : tampon'[i] \in Ordinaires
    BY <2>3, TamponOK
  <2> QED
    BY <1>2, <2>2, <2>3, <2>4 DEF FinPrintf, FluxEnCours, FluxIntact
<1>3. CASE Savechar
  <2>1. Head(reste) \in Signes /\ Tail(reste) \in Seq(Signes)
    BY <1>3, HeadTailProperties DEF Savechar, FluxEnCours
  <2>2. ecrit' \in Seq(Signes)
    <3>1. ecrit \in Seq(Signes) /\ Append(ecrit, Head(reste)) \in Seq(Signes)
      BY <2>1, AppendProperties DEF FluxEnCours
    <3>2. ecrit' \in {ecrit, Append(ecrit, Head(reste))}
      BY <1>3 DEF Savechar
    <3> QED
      BY <3>1, <3>2
  <2> QED
    BY <1>3, <2>1, <2>2 DEF Savechar, FluxEnCours, FluxIntact
<1>4. CASE FinSprintf
  <2>1. ecrit' \in Seq(Signes) /\ ecrit' # <<>>
    BY <1>4, AppendProperties DEF FinSprintf, FluxEnCours, Signes
  <2> QED
    BY <1>4, <2>1 DEF FinSprintf, FluxEnCours, FluxIntact
<1>5. CASE UNCHANGED varsI
  BY <1>5 DEF varsI, FluxEnCours, FluxIntact
<1> QED
  BY <1>1, <1>2, <1>3, <1>4, <1>5 DEF NextI

\* printf: console_putbytes receives the text of the call, each character
\* once and in order, whatever the size of the buffer.
THEOREM FluxIntactTheoreme == SpecI => []FluxIntact
<1>1. FluxEnCours => FluxIntact
  BY DEF FluxEnCours
<1> QED
  BY <1>1, FluxInitial, FluxInductif, PTL DEF SpecI

\* vsnprintf: what savechar has stored is the beginning of what _doprnt has
\* passed, as long as the limit allows.
Passes == Len(texte) - Len(reste)

EcritureEnCours ==
  /\ FluxEnCours
  /\ taille \in Nat \cup {SansTaille}
  /\ max \in 0 .. NbInts - 1 /\ len \in 0 .. NbInts - 1
  /\ taille \in 0 .. NbInts - 2 => max = taille /\ max # SansLimite
  /\ taille \in {SansTaille, NbInts - 1} => max = SansLimite
  /\ sortie_vers = "sprintf" =>
       /\ Len(reste) <= Len(texte)
       /\ \A i \in 1 .. Len(reste) : reste[i] = texte[Passes + i]
       /\ Len(ecrit) = IF max # SansLimite /\ max < Passes THEN max ELSE Passes
       /\ \A i \in 1 .. Len(ecrit) : ecrit[i] = texte[i]
       /\ Len(ecrit) < NbInts => len = Len(ecrit)
  /\ sortie_vers # "sprintf" => EcritureBornee

LEMMA TronqueType ==
  ASSUME NEW v \in Nat
  PROVE  /\ Tronque(v) \in 0 .. NbInts - 1
         /\ v < NbInts => Tronque(v) = v
BY LimitesOK DEF Tronque

LEMMA EcritureInitiale == InitI => EcritureEnCours
<1> SUFFICES ASSUME InitI PROVE EcritureEnCours
  OBVIOUS
<1>1. FluxEnCours
  BY FluxInitial
<1>2. NbInts \in Nat /\ NbInts > 1 /\ taille \in Nat \cup {SansTaille}
  <2>1. taille \in IF sortie_vers = "printf" THEN {SansTaille}
                   ELSE Limites \cup {SansTaille}
    BY DEF InitI
  <2>2. taille = SansTaille \/ taille \in Limites
    BY <2>1
  <2>3. \A v \in Limites : v \in Nat
    BY LimitesOK
  <2>4. NbInts \in Nat /\ NbInts > 1
    BY LimitesOK
  <2>5. QED
    BY <2>2, <2>3, <2>4
<1>3. max = IF taille = SansTaille THEN SansLimite ELSE Tronque(taille)
  BY DEF InitI
<1>4. /\ max \in 0 .. NbInts - 1
      /\ taille \in 0 .. NbInts - 2 => max = taille /\ max # SansLimite
      /\ taille \in {SansTaille, NbInts - 1} => max = SansLimite
  <2>1. CASE taille = SansTaille
    BY <1>2, <1>3, <2>1 DEF SansTaille, SansLimite
  <2>2. CASE taille # SansTaille
    <3>1. taille \in Nat /\ max = Tronque(taille)
      BY <1>2, <1>3, <2>2
    <3>2. /\ Tronque(taille) \in 0 .. NbInts - 1
          /\ taille < NbInts => Tronque(taille) = taille
      BY <3>1, TronqueType
    <3>3. QED
      BY <1>2, <2>2, <3>1, <3>2 DEF SansLimite
  <2>3. QED
    BY <2>1, <2>2
<1>5. reste = texte /\ ecrit = <<>> /\ len = 0 /\ Len(ecrit) = 0
  BY DEF InitI
<1>6. Len(texte) \in Nat
  BY <1>1, LenProperties DEF FluxEnCours
<1>7. sortie_vers # "retour"
  BY DEF InitI
<1>8. EcritureBornee
  BY <1>5, <1>7 DEF EcritureBornee
<1>9. /\ Passes = 0
      /\ Len(ecrit) = IF max # SansLimite /\ max < Passes THEN max ELSE Passes
  BY <1>4, <1>5, <1>6 DEF Passes
<1>10. QED
  BY <1>1, <1>2, <1>4, <1>5, <1>6, <1>8, <1>9 DEF EcritureEnCours

LEMMA SavecharSuit ==
  ASSUME EcritureEnCours, Savechar, FluxEnCours'
  PROVE  EcritureEnCours'
<1>1. /\ sortie_vers = "sprintf" /\ reste # <<>> /\ reste' = Tail(reste)
      /\ sortie_vers' = "sprintf" /\ texte' = texte /\ max' = max
      /\ taille' = taille
  BY DEF Savechar
<1>2. /\ reste \in Seq(Signes) /\ texte \in Seq(Signes)
      /\ ecrit \in Seq(Signes) /\ Len(texte) \in Nat
      /\ Len(reste) \in Nat \ {0} /\ Len(ecrit) \in Nat
      /\ len \in 0 .. NbInts - 1 /\ max \in 0 .. NbInts - 1
      /\ NbInts \in Nat /\ NbInts > 1
  BY <1>1, LimitesOK, LenProperties, EmptySeq DEF EcritureEnCours, FluxEnCours
<1>3. /\ Len(reste) <= Len(texte)
      /\ \A i \in 1 .. Len(reste) : reste[i] = texte[Passes + i]
      /\ Len(ecrit) = IF max # SansLimite /\ max < Passes THEN max ELSE Passes
      /\ \A i \in 1 .. Len(ecrit) : ecrit[i] = texte[i]
      /\ Len(ecrit) < NbInts => len = Len(ecrit)
  BY <1>1 DEF EcritureEnCours
<1>4. /\ Len(reste') = Len(reste) - 1
      /\ \A i \in 1 .. Len(reste') : reste'[i] = reste[i + 1]
      /\ Head(reste) = reste[1] /\ Head(reste) \in Signes
  BY <1>1, <1>2, HeadTailProperties
<1>5. Passes' = Passes + 1 /\ Passes \in Nat
  BY <1>1, <1>2, <1>3, <1>4 DEF Passes
<1>6. /\ Len(reste') <= Len(texte')
      /\ \A i \in 1 .. Len(reste') : reste'[i] = texte'[Passes' + i]
  <2>1. \A i \in 1 .. Len(reste') :
          reste[i + 1] = texte[Passes + (i + 1)]
    BY <1>2, <1>3, <1>4
  <2>2. \A i \in 1 .. Len(reste') : Passes + (i + 1) = Passes' + i
    BY <1>2, <1>4, <1>5
  <2>3. QED
    BY <1>1, <1>2, <1>3, <1>4, <2>1, <2>2
<1>7. reste[1] = texte[Passes + 1]
  BY <1>2, <1>3
<1>8. max # SansLimite => Len(ecrit) <= max /\ len = Len(ecrit)
  BY <1>2, <1>3, <1>5
<1>9. /\ Len(ecrit') = IF max # SansLimite /\ max < Passes' THEN max
                       ELSE Passes'
      /\ \A i \in 1 .. Len(ecrit') : ecrit'[i] = texte'[i]
      /\ Len(ecrit') < NbInts => len' = Len(ecrit')
      /\ len' \in 0 .. NbInts - 1
  <2>1. CASE max # SansLimite /\ len = max
    <3>1. ecrit' = ecrit /\ len' = len
      BY <2>1 DEF Savechar
    <3>2. Len(ecrit) = max /\ max < Passes'
      BY <1>2, <1>3, <1>5, <1>8, <2>1
    <3>3. QED
      BY <1>1, <1>2, <1>3, <2>1, <3>1, <3>2
  <2>2. CASE ~(max # SansLimite /\ len = max)
    <3>1. ecrit' = Append(ecrit, Head(reste)) /\ len' = Tronque(len + 1)
      BY <2>2 DEF Savechar
    <3>2. /\ Len(ecrit') = Len(ecrit) + 1
          /\ \A i \in 1 .. Len(ecrit) : ecrit'[i] = ecrit[i]
          /\ ecrit'[Len(ecrit) + 1] = reste[1]
      BY <1>2, <1>4, <3>1, AppendProperties
    <3>3. Len(ecrit) = Passes
      BY <1>2, <1>3, <1>5, <1>8, <2>2
    <3>4. /\ len' \in 0 .. NbInts - 1
          /\ len + 1 < NbInts => len' = len + 1
      BY <1>2, <3>1, TronqueType
    <3>5. Len(ecrit') = IF max # SansLimite /\ max < Passes' THEN max
                        ELSE Passes'
      <4>1. Len(ecrit') = Passes'
        BY <1>5, <3>2, <3>3
      <4>2. max # SansLimite => Passes' <= max
        BY <1>2, <1>5, <1>8, <2>2, <3>3
      <4>3. Passes' \in Nat
        BY <1>5
      <4>4. QED
        BY <1>2, <4>1, <4>2, <4>3
    <3>6. \A i \in 1 .. Len(ecrit') : ecrit'[i] = texte'[i]
      <4>1. \A i \in 1 .. Len(ecrit) : ecrit'[i] = texte[i]
        BY <1>3, <3>2
      <4>2. ecrit'[Len(ecrit) + 1] = texte[Len(ecrit) + 1]
        BY <1>7, <3>2, <3>3
      <4>3. \A i \in 1 .. Len(ecrit) + 1 :
              i \in 1 .. Len(ecrit) \/ i = Len(ecrit) + 1
        BY <1>2
      <4>4. QED
        BY <1>1, <3>2, <4>1, <4>2, <4>3
    <3>7. Len(ecrit') < NbInts => len' = Len(ecrit')
      BY <1>2, <1>3, <3>2, <3>4
    <3>8. QED
      BY <3>4, <3>5, <3>6, <3>7
  <2>3. QED
    BY <2>1, <2>2
<1>10. SansLimite' = SansLimite /\ SansTaille' = SansTaille
  BY DEF SansLimite, SansTaille
<1>11. /\ taille \in Nat \cup {SansTaille}
       /\ taille \in 0 .. NbInts - 2 => max = taille /\ max # SansLimite
       /\ taille \in {SansTaille, NbInts - 1} => max = SansLimite
  BY DEF EcritureEnCours
<1>12. QED
  BY <1>1, <1>2, <1>6, <1>9, <1>10, <1>11 DEF EcritureEnCours

LEMMA FinSprintfSuit ==
  ASSUME EcritureEnCours, FinSprintf, FluxEnCours'
  PROVE  EcritureEnCours'
<1>1. /\ sortie_vers = "sprintf" /\ reste = <<>> /\ sortie_vers' = "retour"
      /\ ecrit' = Append(ecrit, "nul") /\ texte' = texte /\ max' = max
      /\ len' = len /\ taille' = taille
  BY DEF FinSprintf
<1>2. /\ texte \in Seq(Signes) /\ ecrit \in Seq(Signes)
      /\ Len(texte) \in Nat /\ Len(reste) = 0 /\ Len(ecrit) \in Nat
      /\ len \in 0 .. NbInts - 1 /\ max \in 0 .. NbInts - 1
      /\ NbInts \in Nat /\ NbInts > 1
  BY <1>1, LimitesOK, LenProperties, EmptySeq DEF EcritureEnCours, FluxEnCours
<1>3. /\ Passes = Len(texte)
      /\ Len(ecrit) = IF max # SansLimite /\ max < Len(texte) THEN max
                      ELSE Len(texte)
      /\ \A i \in 1 .. Len(ecrit) : ecrit[i] = texte[i]
      /\ Len(ecrit) < NbInts => len = Len(ecrit)
  BY <1>1, <1>2 DEF EcritureEnCours, Passes
<1>4. /\ taille \in Nat \cup {SansTaille}
      /\ taille \in 0 .. NbInts - 2 => max = taille /\ max # SansLimite
      /\ taille \in {SansTaille, NbInts - 1} => max = SansLimite
  BY DEF EcritureEnCours
<1>5. ASSUME taille = SansTaille \/ taille \in Len(texte) + 1 .. NbInts - 1
      PROVE  ecrit' = Append(texte, "nul")
             /\ (Len(texte) < NbInts => len' = Len(texte))
  <2>1. Len(ecrit) = Len(texte)
    BY <1>2, <1>3, <1>4, <1>5
  <2>2. ecrit = texte
    BY <1>2, <1>3, <2>1, SeqEqual
  <2>3. QED
    BY <1>1, <1>3, <2>1, <2>2
<1>6. ASSUME taille <= Len(texte), taille \in 0 .. NbInts - 2
      PROVE  /\ SubSeq(ecrit', 1, taille) = SubSeq(texte, 1, taille)
             /\ len' = taille
  <2>1. Len(ecrit) = taille /\ len = taille
    BY <1>2, <1>3, <1>4, <1>6
  <2>2. /\ Len(ecrit') = taille + 1
        /\ \A i \in 1 .. taille : ecrit'[i] = ecrit[i]
        /\ ecrit' \in Seq(Signes)
    BY <1>1, <1>2, <2>1, AppendProperties DEF Signes
  <2>3. \A i \in 1 .. taille : ecrit'[i] = texte[i]
    BY <1>3, <2>1, <2>2
  <2> DEFINE f == SubSeq(ecrit', 1, taille)
             g == SubSeq(texte, 1, taille)
  <2>4. /\ f \in Seq(Signes) /\ Len(f) = taille
        /\ \A i \in 1 .. taille : f[i] = ecrit'[i]
    <3>1. \A i \in 1 .. taille : ecrit'[i] \in Signes
      BY <1>6, <2>2, ElementOfSeq
    <3>2. QED
      BY <1>6, <2>2, <3>1, SubSeqProperties
  <2>5. /\ g \in Seq(Signes) /\ Len(g) = taille
        /\ \A i \in 1 .. taille : g[i] = texte[i]
    <3>1. \A i \in 1 .. taille : texte[i] \in Signes
      BY <1>2, <1>6, ElementOfSeq
    <3>2. QED
      BY <1>2, <1>6, <3>1, SubSeqProperties
  <2> HIDE DEF f, g
  <2>6. f = g
    BY <2>3, <2>4, <2>5, SeqEqual
  <2>7. QED
    BY <1>1, <2>1, <2>6 DEF f, g
<1>7. EcritureBornee'
  BY <1>1, <1>5, <1>6 DEF EcritureBornee, SansTaille
<1>8. SansLimite' = SansLimite /\ SansTaille' = SansTaille
  BY DEF SansLimite, SansTaille
<1>9. QED
  BY <1>1, <1>2, <1>4, <1>7, <1>8 DEF EcritureEnCours

LEMMA EcritureInductive ==
  EcritureEnCours /\ [NextI]_varsI => EcritureEnCours'
<1> SUFFICES ASSUME EcritureEnCours, [NextI]_varsI PROVE EcritureEnCours'
  OBVIOUS
<1>1. FluxEnCours'
  BY FluxInductif DEF EcritureEnCours
<1>2. CASE Savechar
  BY <1>1, <1>2, SavecharSuit
<1>3. CASE FinSprintf
  BY <1>1, <1>3, FinSprintfSuit
<1>4. CASE PrintfChar
  BY <1>1, <1>4
     DEF PrintfChar, EcritureEnCours, EcritureBornee
<1>5. CASE FinPrintf
  <2>1. ecrit = <<>>
    BY <1>5 DEF FinPrintf, EcritureEnCours, FluxEnCours
  <2>2. QED
    BY <1>1, <1>5, <2>1 DEF FinPrintf, EcritureEnCours, EcritureBornee
<1>6. CASE UNCHANGED varsI
  BY <1>1, <1>6 DEF varsI, EcritureEnCours, EcritureBornee, Passes
<1>7. QED
  BY <1>2, <1>3, <1>4, <1>5, <1>6 DEF NextI

\* vsprintf, which prints the clock, stores the whole text and returns its
\* length.  vsnprintf: for every text and every array whose size is below the
\* value that means no limit, savechar stays in the array; a text that fits
\* with its NUL is whole there and its length is returned.
THEOREM EcritureBorneeTheoreme == SpecI => []EcritureBornee
<1>1. EcritureEnCours => EcritureBornee
  <2> SUFFICES ASSUME EcritureEnCours PROVE EcritureBornee
    OBVIOUS
  <2>1. CASE sortie_vers # "sprintf"
    BY <2>1 DEF EcritureEnCours
  <2>2. CASE sortie_vers = "sprintf"
    <3>1. Len(texte) \in Nat /\ Len(reste) \in Nat /\ NbInts \in Nat
      BY LimitesOK, LenProperties DEF EcritureEnCours, FluxEnCours
    <3>2. taille \in 0 .. NbInts - 2 => Len(ecrit) <= taille
      BY <2>2, <3>1 DEF EcritureEnCours, Passes
    <3>3. QED
      BY <2>2, <3>2 DEF EcritureBornee
  <2>3. QED
    BY <2>1, <2>2
<1>2. QED
  BY <1>1, EcritureInitiale, EcritureInductive, PTL DEF SpecI

-----------------------------------------------------------------------------
(* The field of a string.                                                  *)

Encre == Alphabet \cup {Blanc}

\* A character repeated k times.
LEMMA Repetition ==
  ASSUME NEW S, NEW c \in S, NEW v \in Nat
  PROVE  LET f == [i \in 1 .. v |-> c]
         IN  f \in Seq(S) /\ Len(f) = v /\ \A i \in 1 .. v : f[i] = c
  OBVIOUS

LEMMA BlancType ==
  ASSUME NEW v \in Nat
  PROVE  /\ Blancs(v) \in Seq(Encre) /\ Len(Blancs(v)) = v
         /\ \A i \in 1 .. v : Blancs(v)[i] = Blanc
<1>1. Blancs(v) = [i \in 1 .. v |-> Blanc]
  <2>1. (IF v > 0 THEN v ELSE 0) = v
    OBVIOUS
  <2>2. QED
    BY <2>1 DEF Blancs
<1>2. Blanc \in Encre
  BY DEF Encre
<1>3. QED
  BY <1>1, <1>2, Repetition

LEMMA BlancDePlus ==
  ASSUME NEW v \in Nat
  PROVE  Append(Blancs(v), Blanc) = Blancs(v + 1)
<1> DEFINE s == Append(Blancs(v), Blanc)
           t == Blancs(v + 1)
<1>1. Blanc \in Encre
  BY DEF Encre
<1>2. t \in Seq(Encre) /\ Len(t) = v + 1 /\ \A i \in 1 .. v + 1 : t[i] = Blanc
  <2>1. v + 1 \in Nat
    OBVIOUS
  <2>2. QED
    BY <2>1, BlancType
<1>3. /\ s \in Seq(Encre) /\ Len(s) = v + 1
      /\ \A i \in 1 .. v : s[i] = Blancs(v)[i]
      /\ s[v + 1] = Blanc
  <2> DEFINE b == Blancs(v)
  <2>1. b \in Seq(Encre) /\ Len(b) = v
    BY BlancType
  <2> HIDE DEF b
  <2>2. /\ Append(b, Blanc) \in Seq(Encre) /\ Len(Append(b, Blanc)) = Len(b) + 1
        /\ \A i \in 1 .. Len(b) : Append(b, Blanc)[i] = b[i]
        /\ Append(b, Blanc)[Len(b) + 1] = Blanc
    BY <1>1, <2>1, AppendProperties
  <2>3. QED
    BY <2>1, <2>2 DEF b
<1>4. \A i \in 1 .. v + 1 : s[i] = Blanc
  BY <1>3, BlancType
<1> HIDE DEF s, t
<1>5. s = t
  BY <1>2, <1>3, <1>4, SeqEqual
<1>6. QED
  BY <1>5 DEF s, t

LEMMA SansBlanc ==
  ASSUME NEW v \in Int, v <= 0
  PROVE  Blancs(v) = <<>>
<1>1. 1 .. (IF v > 0 THEN v ELSE 0) = {}
  OBVIOUS
<1>2. QED
  BY <1>1 DEF Blancs

\* The beginning of a string grows by one character.
LEMMA DebutDePlus ==
  ASSUME NEW S, NEW s \in Seq(S), NEW v \in 0 .. Len(s)
  PROVE  /\ SubSeq(s, 1, v) \in Seq(S)
         /\ v < Len(s) =>
              s[v + 1] \in S
              /\ Append(SubSeq(s, 1, v), s[v + 1]) = SubSeq(s, 1, v + 1)
<1>1. ASSUME NEW h \in 0 .. Len(s)
      PROVE  /\ SubSeq(s, 1, h) \in Seq(S) /\ Len(SubSeq(s, 1, h)) = h
             /\ \A i \in 1 .. h : SubSeq(s, 1, h)[i] = s[i]
  <2>1. Len(s) \in Nat /\ \A i \in 1 .. h : s[i] \in S
    BY ElementOfSeq, LenProperties
  <2>2. QED
    BY <2>1, SubSeqProperties
<1>2. ASSUME v < Len(s)
      PROVE  s[v + 1] \in S
             /\ Append(SubSeq(s, 1, v), s[v + 1]) = SubSeq(s, 1, v + 1)
  <2> DEFINE a == Append(SubSeq(s, 1, v), s[v + 1])
             b == SubSeq(s, 1, v + 1)
  <2>1. v + 1 \in 1 .. Len(s) /\ v + 1 \in 0 .. Len(s) /\ v \in Nat
    BY <1>2, LenProperties
  <2>2. s[v + 1] \in S
    BY <2>1, ElementOfSeq
  <2>3. /\ b \in Seq(S) /\ Len(b) = v + 1
        /\ \A i \in 1 .. v + 1 : b[i] = s[i]
    BY <1>1, <2>1
  <2>4. /\ a \in Seq(S) /\ Len(a) = v + 1
        /\ \A i \in 1 .. v : a[i] = s[i]
        /\ a[v + 1] = s[v + 1]
    BY <1>1, <2>2, AppendProperties
  <2>5. \A i \in 1 .. v + 1 : a[i] = b[i]
    BY <2>1, <2>3, <2>4
  <2> HIDE DEF a, b
  <2>6. a = b
    BY <2>3, <2>4, <2>5, SeqEqual
  <2>7. QED
    BY <2>2, <2>6 DEF a, b
<1>3. QED
  BY <1>1, <1>2

LEMMA AjoutEncre ==
  ASSUME NEW s \in Seq(Encre), NEW t \in Seq(Encre), NEW c \in Encre
  PROVE  Append(s \o t, c) = s \o Append(t, c)
<1>1. <<c>> \in Seq(Encre)
  OBVIOUS
<1>2. Append(s \o t, c) = (s \o t) \o <<c>> /\ Append(t, c) = t \o <<c>>
  BY AppendIsConcat, ConcatProperties
<1>3. QED
  BY <1>1, <1>2, ConcatAssociative

\* What is in the field while the text is printed: the blanks of a width that
\* justifies to the right, then the beginning of the text.
Devant == IF gauche THEN <<>> ELSE Blancs(large - Garde)
Imprime(v) == Devant \o SubSeq(argument, 1, v)
Excedent == IF Garde < Len(argument) THEN 1 ELSE 0

\* The blanks, one by one: a string that is cut and left justified gets one
\* too few, since the character that exceeds the precision has been counted.
ChampExact ==
  boucle = "fini" =>
    LET texteGarde == SubSeq(argument, 1, Garde)
        coupe == IF Garde < Len(argument) THEN 1 ELSE 0
    IN  champ = IF gauche THEN texteGarde \o Blancs(large - Garde - coupe)
                ELSE Blancs(large - Garde) \o texteGarde

ChampEnCours ==
  /\ boucle \in {"options", "compte", "devant", "texte", "derriere", "fini"}
  /\ directive.tiret \in BOOLEAN
  /\ directive.largeur \in Int /\ directive.precision \in Int
  /\ gauche \in BOOLEAN /\ large \in Nat /\ prec \in Int
  /\ argument \in Seq(Alphabet) /\ Len(argument) <= MaxChaine
  /\ lus \in 0 .. Len(argument) /\ nb \in Nat
  /\ boucle = "options" => champ = <<>> /\ lus = 0 /\ nb = 0
  /\ boucle = "compte" =>
       ~gauche /\ nb = lus /\ lus <= Garde /\ champ = <<>>
  /\ boucle = "devant" =>
       /\ ~gauche /\ lus = 0 /\ nb >= Garde
       /\ nb > Garde => nb <= large
       /\ champ = Blancs(nb - Garde)
  /\ boucle = "texte" => nb = lus /\ lus <= Garde /\ champ = Imprime(lus)
  /\ boucle = "derriere" =>
       /\ lus = Garde /\ nb >= Garde + Excedent
       /\ nb > Garde + Excedent => nb <= large
       /\ champ = IF gauche
                  THEN Imprime(Garde) \o Blancs(nb - Garde - Excedent)
                  ELSE Imprime(Garde)
  /\ ChampExact

LEMMA GardeType ==
  ASSUME argument \in Seq(Alphabet), prec \in Int
  PROVE  /\ Garde \in 0 .. Len(argument) /\ Len(argument) \in Nat
         /\ \A v \in 0 .. Len(argument) :
              /\ v < prec /\ v < Len(argument) => v < Garde
              /\ v >= prec \/ v = Len(argument) => v >= Garde
<1>1. Len(argument) \in Nat
  BY LenProperties
<1>2. QED
  BY <1>1 DEF Garde

LEMMA ImprimeType ==
  ASSUME ChampEnCours, NEW v \in 0 .. Len(argument)
  PROVE  /\ Devant \in Seq(Encre)
         /\ Imprime(v) \in Seq(Encre)
         /\ v < Len(argument) =>
              Append(Imprime(v), argument[v + 1]) = Imprime(v + 1)
<1>1. /\ argument \in Seq(Alphabet) /\ argument \in Seq(Encre)
      /\ Garde \in 0 .. Len(argument) /\ large \in Nat
      /\ Len(argument) \in Nat
  BY GardeType, SeqMonotonic DEF ChampEnCours, Encre
<1>2. Devant \in Seq(Encre)
  <2>1. <<>> \in Seq(Encre)
    OBVIOUS
  <2>2. CASE large - Garde \in Nat
    BY <2>1, <2>2, BlancType DEF Devant
  <2>3. CASE large - Garde <= 0
    <3>1. large - Garde \in Int
      BY <1>1
    <3>2. Blancs(large - Garde) = <<>>
      BY <2>3, <3>1, SansBlanc
    <3>3. Devant = <<>>
      BY <3>2 DEF Devant
    <3>4. QED
      BY <2>1, <3>3
  <2>4. QED
    BY <1>1, <2>2, <2>3
<1>3. SubSeq(argument, 1, v) \in Seq(Encre)
  BY <1>1, DebutDePlus
<1>4. Imprime(v) \in Seq(Encre)
  BY <1>2, <1>3, ConcatProperties DEF Imprime
<1>5. ASSUME v < Len(argument)
      PROVE  Append(Imprime(v), argument[v + 1]) = Imprime(v + 1)
  <2>1. /\ argument[v + 1] \in Encre
        /\ Append(SubSeq(argument, 1, v), argument[v + 1])
             = SubSeq(argument, 1, v + 1)
    BY <1>1, <1>5, DebutDePlus
  <2>2. QED
    BY <1>2, <1>3, <2>1, AjoutEncre DEF Imprime
<1>6. QED
  BY <1>2, <1>4, <1>5

LEMMA ReglagesFixes ==
  ASSUME UNCHANGED reglages
  PROVE  /\ directive' = directive /\ gauche' = gauche /\ large' = large
         /\ prec' = prec /\ argument' = argument
         /\ Garde' = Garde /\ Devant' = Devant /\ Excedent' = Excedent
         /\ \A v : Imprime(v)' = Imprime(v)
<1>1. /\ directive' = directive /\ gauche' = gauche /\ large' = large
      /\ prec' = prec /\ argument' = argument
  BY DEF reglages
<1>2. Garde' = Garde
  BY <1>1 DEF Garde
<1>3. Devant' = Devant /\ Excedent' = Excedent
  BY <1>1, <1>2 DEF Devant, Excedent
<1>4. \A v : Imprime(v)' = Imprime(v)
  BY <1>1, <1>3 DEF Imprime
<1>5. QED
  BY <1>1, <1>2, <1>3, <1>4

LEMMA ChampInitial == InitF => ChampEnCours
<1> SUFFICES ASSUME InitF PROVE ChampEnCours
  OBVIOUS
<1>1. argument \in Seq(Alphabet) /\ Len(argument) <= MaxChaine
  <2>1. PICK v \in 0 .. MaxChaine : argument \in [1 .. v -> Alphabet]
    BY DEF InitF
  <2>2. v \in Nat /\ v <= MaxChaine
    BY <2>1, DemandesOK
  <2>3. QED
    BY <2>1, <2>2
<1>2. /\ directive.tiret \in BOOLEAN
      /\ directive.largeur \in Int /\ directive.precision \in Int
  BY DemandesOK DEF InitF
<1>3. Len(argument) \in Nat
  BY <1>1, LenProperties
<1>4. QED
  <2>1. /\ boucle = "options" /\ large = 0 /\ prec = -1
        /\ lus = 0 /\ nb = 0 /\ champ = <<>>
    BY DEF InitF
  <2>2. gauche \in BOOLEAN
    BY DEF InitF
  <2>3. lus \in 0 .. Len(argument) /\ nb \in Nat /\ large \in Nat /\ prec \in Int
    BY <1>3, <2>1
  <2>4. QED
    BY <1>1, <1>2, <2>1, <2>2, <2>3 DEF ChampEnCours, ChampExact

LEMMA LitOptionsSuit == ASSUME ChampEnCours, LitOptions PROVE ChampEnCours'
<1>1. /\ boucle = "options" /\ directive' = directive /\ argument' = argument
      /\ lus' = lus /\ nb' = nb /\ champ' = champ
      /\ boucle' = IF large' > 0 /\ ~gauche' THEN "compte" ELSE "texte"
  BY DEF LitOptions
<1>2. /\ champ' = <<>> /\ lus' = 0 /\ nb' = 0
      /\ argument' \in Seq(Alphabet) /\ Len(argument') <= MaxChaine
      /\ Len(argument') \in Nat
      /\ directive'.tiret \in BOOLEAN
      /\ directive'.largeur \in Int /\ directive'.precision \in Int
  BY <1>1, LenProperties DEF ChampEnCours
<1>3. gauche' \in BOOLEAN
  BY DEF LitOptions
<1>4. large' \in Nat
  BY DEF LitOptions, ChampEnCours
<1>5. prec' \in Int
  BY DemandesOK DEF LitOptions, ChampEnCours, Illimitee
<1>6. Garde' \in 0 .. Len(argument')
  BY <1>2, <1>5 DEF Garde
<1>7. ASSUME boucle' = "texte" PROVE champ' = Imprime(lus)'
  <2>1. Devant' = <<>>
    <3>1. CASE gauche'
      BY <3>1 DEF Devant
    <3>2. CASE ~gauche'
      <4>1. large' = 0
        BY <1>1, <1>4, <1>7, <3>2
      <4>2. large' - Garde' \in Int /\ large' - Garde' <= 0
        <5> DEFINE g == Garde'
        <5>1. g \in Nat
          BY <1>2, <1>6
        <5> HIDE DEF g
        <5>2. 0 - g \in Int /\ 0 - g <= 0
          BY <5>1
        <5>3. QED
          BY <4>1, <5>2 DEF g
      <4>3. Blancs(large' - Garde') = <<>>
        BY <4>2, SansBlanc
      <4>4. Devant' = Blancs(large' - Garde')
        BY <3>2 DEF Devant, Blancs
      <4>5. QED
        BY <4>3, <4>4
    <3>3. QED
      BY <3>1, <3>2
  <2>2. SubSeq(argument', 1, 0) = <<>>
    BY SubSeqEmpty
  <2>3. Imprime(lus)' = <<>> \o <<>>
    BY <1>2, <2>1, <2>2 DEF Imprime
  <2>4. QED
    BY <1>2, <2>3
<1>8. boucle' \in {"compte", "texte"} /\ (boucle' = "compte" => ~gauche')
  BY <1>1
<1>9. QED
  <2>1. lus' \in 0 .. Len(argument') /\ nb' \in Nat /\ lus' <= Garde'
    BY <1>2, <1>6
  <2>2. /\ boucle' \notin {"options", "devant", "derriere", "fini"}
        /\ boucle' \in {"options", "compte", "devant", "texte", "derriere",
                        "fini"}
    BY <1>8
  <2>3. boucle' = "compte" => ~gauche' /\ nb' = lus' /\ champ' = <<>>
    BY <1>2, <1>8
  <2>4. boucle' = "texte" => nb' = lus' /\ champ' = Imprime(lus)'
    BY <1>2, <1>7
  <2>5. ChampExact'
    BY <2>2 DEF ChampExact
  <2>6. QED
    BY <1>2, <1>3, <1>4, <1>5, <2>1, <2>2, <2>3, <2>4, <2>5
       DEF ChampEnCours

LEMMA CompteSuit == ASSUME ChampEnCours, Compte PROVE ChampEnCours'
<1>1. boucle = "compte" /\ UNCHANGED reglages /\ champ' = champ
  BY DEF Compte
<1>2. /\ ~gauche /\ nb = lus /\ lus <= Garde /\ champ = <<>>
      /\ lus \in 0 .. Len(argument) /\ nb \in Nat /\ large \in Nat
      /\ argument \in Seq(Alphabet) /\ prec \in Int
  BY <1>1 DEF ChampEnCours
<1>3. Garde \in 0 .. Len(argument) /\ Len(argument) \in Nat
  BY <1>2, GardeType
<1>4. CASE lus < Len(argument) /\ nb < prec
  <2>1. lus' = lus + 1 /\ nb' = nb + 1 /\ boucle' = "compte"
    BY <1>1, <1>4 DEF Compte
  <2>2. lus < Garde
    BY <1>2, <1>4, GardeType
  <2>3. QED
    BY <1>1, <1>2, <1>3, <1>4, <2>1, <2>2, ReglagesFixes
       DEF ChampEnCours, ChampExact
<1>5. CASE ~(lus < Len(argument) /\ nb < prec)
  <2>1. lus' = 0 /\ nb' = nb /\ boucle' = "devant"
    BY <1>1, <1>5 DEF Compte
  <2>2. nb = Garde
    BY <1>2, <1>3, <1>5, GardeType
  <2>3. Blancs(nb - Garde) = <<>>
    BY <1>3, <2>2, SansBlanc
  <2>4. Blancs(nb' - Garde') = <<>>
    BY <1>1, <2>1, <2>3, ReglagesFixes
  <2>5. champ' = Blancs(nb - Garde)'
    BY <1>1, <1>2, <2>4 DEF Blancs
  <2>6. QED
    BY <1>1, <1>2, <1>3, <2>1, <2>2, <2>5, ReglagesFixes
       DEF ChampEnCours, ChampExact
<1>6. QED
  BY <1>4, <1>5

LEMMA BlancDevantSuit ==
  ASSUME ChampEnCours, BlancDevant PROVE ChampEnCours'
<1>1. boucle = "devant" /\ UNCHANGED reglages /\ lus' = lus
  BY DEF BlancDevant
<1>2. /\ ~gauche /\ lus = 0 /\ nb >= Garde /\ nb \in Nat /\ large \in Nat
      /\ nb > Garde => nb <= large
      /\ champ = Blancs(nb - Garde)
      /\ argument \in Seq(Alphabet) /\ prec \in Int
  BY <1>1 DEF ChampEnCours
<1>3. Garde \in 0 .. Len(argument) /\ Len(argument) \in Nat
  BY <1>2, GardeType
<1>4. CASE nb < large
  <2>1. champ' = Append(champ, Blanc) /\ nb' = nb + 1 /\ boucle' = "devant"
    BY <1>1, <1>4 DEF BlancDevant
  <2>2. nb - Garde \in Nat /\ nb - Garde + 1 = nb' - Garde
    BY <1>2, <1>3, <2>1
  <2>3. champ' = Blancs(nb' - Garde)
    BY <1>2, <2>1, <2>2, BlancDePlus
  <2>4. champ' = Blancs(nb - Garde)'
    BY <1>1, <2>3, ReglagesFixes DEF Blancs
  <2>5. QED
    BY <1>1, <1>2, <1>3, <1>4, <2>1, <2>4, ReglagesFixes
       DEF ChampEnCours, ChampExact
<1>5. CASE ~(nb < large)
  <2>1. champ' = champ /\ nb' = 0 /\ boucle' = "texte"
    BY <1>1, <1>5 DEF BlancDevant
  <2>2. champ = Devant
    <3>1. CASE nb = large
      BY <1>2, <3>1 DEF Devant
    <3>2. CASE nb # large
      <4>1. nb = Garde /\ large - Garde \in Int /\ large - Garde <= 0
        BY <1>2, <1>3, <1>5, <3>2
      <4>2. Blancs(large - Garde) = <<>> /\ Blancs(nb - Garde) = <<>>
        BY <1>3, <4>1, SansBlanc
      <4>3. QED
        BY <1>2, <4>2 DEF Devant
    <3>3. QED
      BY <3>1, <3>2
  <2>3. Imprime(0) = Devant
    <3>1. Devant \in Seq(Encre)
      BY <1>3, ImprimeType
    <3>2. SubSeq(argument, 1, 0) = <<>>
      BY SubSeqEmpty
    <3>3. QED
      BY <3>1, <3>2, ConcatEmptySeq DEF Imprime
  <2>4. champ' = Imprime(lus)'
    <3>1. Imprime(lus)' = Imprime(0)
      BY <1>1, <1>2, ReglagesFixes DEF Imprime
    <3>2. QED
      BY <2>1, <2>2, <2>3, <3>1
  <2>5. QED
    BY <1>1, <1>2, <1>3, <2>1, <2>4, ReglagesFixes
       DEF ChampEnCours, ChampExact
<1>6. QED
  BY <1>4, <1>5

\* Nothing is behind the text yet, but the character that is not printed has
\* been counted.
LEMMA FinDuTexte ==
  ASSUME ChampEnCours, UNCHANGED reglages, champ' = champ, lus' = lus,
         boucle = "texte", boucle' = "derriere", lus = Garde,
         nb' = Garde + Excedent
  PROVE  ChampEnCours'
<1>1. /\ champ = Imprime(Garde) /\ gauche \in BOOLEAN
      /\ argument \in Seq(Alphabet) /\ prec \in Int
  BY DEF ChampEnCours
<1>2. Garde \in 0 .. Len(argument) /\ Len(argument) \in Nat
  BY <1>1, GardeType
<1>3. nb' - Garde - Excedent = 0 /\ nb' \in Nat
  BY <1>2 DEF Excedent
<1>4. Imprime(Garde) \in Seq(Encre)
  BY <1>2, ImprimeType
<1>5. Blancs(0) = <<>>
  BY SansBlanc
<1>6. champ' = IF gauche THEN Imprime(Garde) \o Blancs(0) ELSE Imprime(Garde)
  BY <1>1, <1>4, <1>5, ConcatEmptySeq
<1>7. Blancs(nb - Garde - Excedent)' = Blancs(0)
  BY <1>3, ReglagesFixes DEF Blancs
<1>8. champ' = (IF gauche
                THEN Imprime(Garde) \o Blancs(nb - Garde - Excedent)
                ELSE Imprime(Garde))'
  BY <1>6, <1>7, ReglagesFixes DEF Imprime
<1>9. Excedent \in 0 .. 1
  BY DEF Excedent
<1>10. QED
  BY <1>1, <1>2, <1>3, <1>8, <1>9, ReglagesFixes
     DEF ChampEnCours, ChampExact

LEMMA TexteSuit ==
  ASSUME ChampEnCours, CaractereEmis \/ FinDeChaine PROVE ChampEnCours'
<1>1. boucle = "texte" /\ UNCHANGED reglages
  BY DEF CaractereEmis, FinDeChaine
<1>2. /\ nb = lus /\ lus <= Garde /\ champ = Imprime(lus)
      /\ lus \in 0 .. Len(argument)
      /\ argument \in Seq(Alphabet) /\ prec \in Int
  BY <1>1 DEF ChampEnCours
<1>3. Garde \in 0 .. Len(argument) /\ Len(argument) \in Nat
  BY <1>2, GardeType
<1>4. CASE FinDeChaine
  <2>1. /\ lus = Len(argument) /\ boucle' = "derriere" /\ lus' = lus
        /\ nb' = nb /\ champ' = champ
    BY <1>4 DEF FinDeChaine
  <2>2. lus = Garde /\ Excedent = 0
    BY <1>2, <1>3, <2>1 DEF Excedent
  <2>3. nb' = Garde + Excedent
    BY <1>2, <1>3, <2>1, <2>2
  <2>4. QED
    BY <1>1, <2>1, <2>2, <2>3, FinDuTexte
<1>5. CASE CaractereEmis /\ nb' > prec
  <2>1. /\ lus < Len(argument) /\ nb' = nb + 1 /\ boucle' = "derriere"
        /\ lus' = lus /\ champ' = champ
    BY <1>5 DEF CaractereEmis
  <2>2. lus >= prec
    BY <1>2, <1>5, <2>1
  <2>3. lus = Garde /\ Excedent = 1
    BY <1>2, <1>3, <2>1, <2>2, GardeType DEF Excedent
  <2>4. nb' = Garde + Excedent
    BY <1>2, <1>3, <2>1, <2>3
  <2>5. QED
    BY <1>1, <2>1, <2>3, <2>4, FinDuTexte
<1>6. CASE CaractereEmis /\ ~(nb' > prec)
  <2>1. /\ lus < Len(argument) /\ nb' = nb + 1 /\ boucle' = "texte"
        /\ lus' = lus + 1 /\ champ' = Append(champ, argument[lus + 1])
    BY <1>1, <1>6 DEF CaractereEmis
  <2>2. lus < prec
    BY <1>2, <1>6, <2>1
  <2>3. lus < Garde
    BY <1>2, <2>1, <2>2, GardeType
  <2>4. champ' = Imprime(lus + 1)
    BY <1>2, <2>1, ImprimeType
  <2>5. champ' = Imprime(lus)'
    BY <1>1, <2>1, <2>4, ReglagesFixes DEF Imprime
  <2>6. QED
    BY <1>1, <1>2, <1>3, <2>1, <2>3, <2>5, ReglagesFixes
       DEF ChampEnCours, ChampExact
<1>7. QED
  BY <1>4, <1>5, <1>6

LEMMA BlancDerriereSuit ==
  ASSUME ChampEnCours, BlancDerriere PROVE ChampEnCours'
<1>1. boucle = "derriere" /\ UNCHANGED reglages /\ lus' = lus
  BY DEF BlancDerriere
<1>2. /\ lus = Garde /\ nb >= Garde + Excedent
      /\ nb > Garde + Excedent => nb <= large
      /\ champ = IF gauche
                 THEN Imprime(Garde) \o Blancs(nb - Garde - Excedent)
                 ELSE Imprime(Garde)
      /\ argument \in Seq(Alphabet) /\ prec \in Int /\ nb \in Nat
      /\ large \in Nat
  BY <1>1 DEF ChampEnCours
<1>3. Garde \in 0 .. Len(argument) /\ Len(argument) \in Nat
  BY <1>2, GardeType
<1>4. Imprime(Garde) \in Seq(Encre) /\ Excedent \in 0 .. 1
  BY <1>3, ImprimeType DEF Excedent
<1> DEFINE v == nb - Garde - Excedent
<1>5. v \in Nat /\ Garde + Excedent + v = nb
  BY <1>2, <1>3, <1>4
<1>6. CASE gauche /\ nb < large
  <2>1. champ' = Append(champ, Blanc) /\ nb' = nb + 1 /\ boucle' = "derriere"
    BY <1>1, <1>6 DEF BlancDerriere
  <2>2. nb' - Garde - Excedent = v + 1
    BY <1>2, <1>3, <1>4, <2>1
  <2> HIDE DEF v
  <2>3. Blancs(v) \in Seq(Encre) /\ Blanc \in Encre
    BY <1>5, BlancType DEF Encre
  <2>4. Append(Imprime(Garde) \o Blancs(v), Blanc)
          = Imprime(Garde) \o Append(Blancs(v), Blanc)
    BY <1>4, <2>3, AjoutEncre
  <2>5. Append(Blancs(v), Blanc) = Blancs(v + 1)
    BY <1>5, BlancDePlus
  <2>6. champ' = Imprime(Garde) \o Blancs(v + 1)
    BY <1>2, <1>6, <2>1, <2>4, <2>5 DEF v
  <2>7. champ' = (Imprime(Garde) \o Blancs(nb - Garde - Excedent))'
    BY <1>1, <2>2, <2>6, ReglagesFixes DEF Imprime, Blancs
  <2>8. nb' \in Nat /\ nb' <= large' /\ nb' >= Garde' + Excedent' /\ gauche'
    BY <1>1, <1>2, <1>3, <1>4, <1>6, <2>1, ReglagesFixes
  <2>9. QED
    BY <1>1, <1>2, <1>3, <2>1, <2>7, <2>8, ReglagesFixes
       DEF ChampEnCours, ChampExact
<1>7. CASE ~(gauche /\ nb < large)
  <2>1. champ' = champ /\ nb' = nb /\ boucle' = "fini"
    BY <1>1, <1>7 DEF BlancDerriere
  <2>2. champ = IF gauche
                THEN SubSeq(argument, 1, Garde)
                       \o Blancs(large - Garde - Excedent)
                ELSE Blancs(large - Garde) \o SubSeq(argument, 1, Garde)
    <3>1. CASE ~gauche
      BY <1>2, <3>1 DEF Imprime, Devant
    <3>2. CASE gauche
      <4>1. SubSeq(argument, 1, Garde) \in Seq(Alphabet)
        BY <1>2, <1>3, DebutDePlus
      <4>2. Imprime(Garde) = SubSeq(argument, 1, Garde)
        BY <3>2, <4>1, ConcatEmptySeq DEF Imprime, Devant
      <4>3. Blancs(v) = Blancs(large - Garde - Excedent)
        <5>1. CASE nb = large
          BY <5>1
        <5>2. CASE nb # large
          <6>1. v = 0
            BY <1>2, <1>3, <1>4, <1>7, <3>2, <5>2
          <6>2. /\ large - Garde - Excedent \in Int
                /\ large - Garde - Excedent <= 0
            BY <1>2, <1>3, <1>4, <1>7, <3>2, <5>2
          <6> HIDE DEF v
          <6>3. Blancs(v) = <<>>
            BY <6>1, SansBlanc
          <6>4. Blancs(large - Garde - Excedent) = <<>>
            BY <6>2, SansBlanc
          <6>5. QED
            BY <6>3, <6>4
        <5>3. QED
          BY <5>1, <5>2
      <4>4. QED
        BY <1>2, <3>2, <4>2, <4>3
    <3>3. QED
      BY <3>1, <3>2
  <2>3. ChampExact'
    BY <1>1, <2>1, <2>2, ReglagesFixes
       DEF ChampExact, Excedent, Blancs
  <2>4. QED
    BY <1>1, <1>2, <1>3, <2>1, <2>3, ReglagesFixes DEF ChampEnCours
<1>8. QED
  BY <1>6, <1>7

LEMMA ChampInductif == ChampEnCours /\ [NextF]_varsF => ChampEnCours'
<1> SUFFICES ASSUME ChampEnCours, [NextF]_varsF PROVE ChampEnCours'
  OBVIOUS
<1>1. CASE UNCHANGED varsF
  <2>1. /\ UNCHANGED reglages /\ boucle' = boucle /\ lus' = lus /\ nb' = nb
        /\ champ' = champ
    BY <1>1 DEF varsF, reglages
  <2>2. ChampExact'
    <3>1. ChampExact
      BY DEF ChampEnCours
    <3>2. QED
      BY <1>1, <3>1 DEF varsF, ChampExact, Garde, Blancs
  <2>3. Imprime(lus)' = Imprime(lus) /\ Imprime(Garde)' = Imprime(Garde)
    BY <2>1, ReglagesFixes DEF Imprime
  <2>4. Blancs(nb - Garde)' = Blancs(nb - Garde)
    BY <2>1, ReglagesFixes DEF Blancs
  <2>5. Blancs(nb - Garde - Excedent)' = Blancs(nb - Garde - Excedent)
    BY <2>1, ReglagesFixes DEF Blancs
  <2>6. QED
    BY <2>1, <2>2, <2>3, <2>4, <2>5, ReglagesFixes DEF ChampEnCours
<1>2. QED
  BY <1>1, LitOptionsSuit, CompteSuit, BlancDevantSuit, TexteSuit,
     BlancDerriereSuit DEF NextF

\* The field of %s, with which the kernel prints names: for every string,
\* width and precision it is the one that they ask for, whatever their signs,
\* unless a string that is cut is to be filled behind.
THEOREM ChampRespecteTheoreme == SpecF => []ChampRespecte
<1>1. ChampEnCours => ChampRespecte
  <2> SUFFICES ASSUME ChampEnCours, boucle = "fini",
                      gauche => Garde = Len(argument) \/ large <= Garde
               PROVE  champ = ChampDemande
    BY DEF ChampRespecte
  <2>1. /\ argument \in Seq(Alphabet) /\ prec \in Int /\ large \in Nat
        /\ champ = IF gauche
                   THEN SubSeq(argument, 1, Garde)
                          \o Blancs(large - Garde - Excedent)
                   ELSE Blancs(large - Garde) \o SubSeq(argument, 1, Garde)
    BY DEF ChampEnCours, ChampExact, Excedent
  <2>2. Garde \in 0 .. Len(argument) /\ Len(argument) \in Nat
    BY <2>1, GardeType
  <2>3. ASSUME gauche
        PROVE  Blancs(large - Garde - Excedent) = Blancs(large - Garde)
    <3>1. CASE Garde = Len(argument)
      <4>1. large - Garde - Excedent = large - Garde
        BY <2>1, <2>2, <3>1 DEF Excedent
      <4>2. QED
        BY <4>1
    <3>2. CASE large <= Garde
      <4>1. /\ large - Garde \in Int /\ large - Garde <= 0
            /\ large - Garde - Excedent \in Int
            /\ large - Garde - Excedent <= 0
        BY <2>1, <2>2, <3>2 DEF Excedent
      <4>2. /\ Blancs(large - Garde) = <<>>
            /\ Blancs(large - Garde - Excedent) = <<>>
        BY <4>1, SansBlanc
      <4>3. QED
        BY <4>2
    <3>3. QED
      BY <2>3, <3>1, <3>2
  <2>4. QED
    BY <2>1, <2>3 DEF ChampDemande
<1>2. QED
  BY <1>1, ChampInitial, ChampInductif, PTL DEF SpecF

-----------------------------------------------------------------------------
(* The width of a number.  How many digits it has does not matter: the set *)
(* of its characters is not even said, only that they form a sequence.     *)

LEMMA FoisType ==
  ASSUME NEW S, NEW c \in S, NEW v \in Int
  PROVE  /\ Fois(v, c) \in Seq(S) /\ Len(Fois(v, c)) = Positif(v)
         /\ Positif(v) \in Nat
<1>1. Positif(v) \in Nat
  BY DEF Positif
<1>2. QED
  BY <1>1, Repetition DEF Fois

LargeurEnCours ==
  /\ longueur \in Nat /\ precision \in Int /\ options \in Options
  /\ \E S : chiffres \in Seq(S)
  /\ LargeurRespectee

LEMMA LargeurInitiale == InitN => LargeurEnCours
<1> SUFFICES ASSUME InitN PROVE LargeurEnCours
  OBVIOUS
<1>1. longueur \in Nat /\ precision \in Int /\ options \in Options
  BY FormatsOK DEF InitN
<1>2. chiffres \in Seq({}) /\ etape = "argument"
  BY DEF InitN
<1>3. QED
  BY <1>1, <1>2 DEF LargeurEnCours, LargeurRespectee

\* The characters around the digits.
Ornements == {Espace, "", "0", "x", "-", "+"}

LEMMA OrnementsType ==
  ASSUME options \in Options
  PROVE  Signe \in Seq(Ornements) /\ Prefixe \in Seq(Ornements)
<1>1. options.plus_sign \in {"", "+", Espace}
  BY DEF Options
<1>2. options.plus_sign \in Ornements
  BY <1>1 DEF Ornements
<1>3. Signe \in {<<>>, <<"-">>, <<options.plus_sign>>}
  BY DEF Signe
<1>4. Prefixe \in {<<>>, <<"0">>, <<"0", "x">>}
  BY DEF Prefixe
<1>5. /\ <<>> \in Seq(Ornements) /\ <<"-">> \in Seq(Ornements)
      /\ <<"0">> \in Seq(Ornements) /\ <<"0", "x">> \in Seq(Ornements)
  BY DEF Ornements
<1>6. <<options.plus_sign>> \in Seq(Ornements)
  BY <1>2
<1>7. QED
  BY <1>3, <1>4, <1>5, <1>6

LEMMA EmissionSuit == ASSUME LargeurEnCours, Emission PROVE LargeurEnCours'
<1> DEFINE vide == longueur - Len(chiffres) - Len(Signe) - Len(Prefixe)
                     - Positif(Zeros)
           f1 == IF options.zero \/ options.ladjust THEN 0 ELSE vide
           f2 == IF options.zero THEN vide ELSE 0
           f3 == IF options.ladjust /\ ~options.zero THEN vide ELSE 0
<1>1. /\ longueur' = longueur /\ precision' = precision
      /\ options' = options /\ chiffres' = chiffres /\ mot' = mot
      /\ conv' = conv
      /\ emis' = Fois(f1, Espace) \o Signe \o Prefixe \o Fois(Zeros, "0")
                   \o Fois(f2, "0") \o chiffres \o Fois(f3, Espace)
  BY DEF Emission, Ecrit
<1>2. /\ longueur \in Nat /\ precision \in Int /\ options \in Options
      /\ options.zero \in BOOLEAN /\ options.ladjust \in BOOLEAN
  BY DEF LargeurEnCours, Options
<1>3. PICK S : chiffres \in Seq(S)
  BY DEF LargeurEnCours
<1> DEFINE T == S \cup Ornements
<1>4. /\ S \subseteq T /\ Ornements \subseteq T
      /\ Espace \in T /\ "0" \in T
  BY DEF Ornements
<1> HIDE DEF T
<1>5. /\ Signe \in Seq(T) /\ Prefixe \in Seq(T) /\ chiffres \in Seq(T)
      /\ Len(Signe) \in Nat /\ Len(Prefixe) \in Nat /\ Len(chiffres) \in Nat
  <2>1. Signe \in Seq(Ornements) /\ Prefixe \in Seq(Ornements)
    BY <1>2, OrnementsType
  <2>2. Signe \in Seq(T) /\ Prefixe \in Seq(T) /\ chiffres \in Seq(T)
    BY <1>3, <1>4, <2>1, SeqMonotonic
  <2>3. QED
    BY <2>2, LenProperties
<1>6. Zeros \in Int /\ Positif(Zeros) \in Nat /\ vide \in Int
  BY <1>2, <1>5 DEF Zeros, Positif
<1>7. /\ Positif(f1) + Positif(f2) + Positif(f3) = Positif(vide)
      /\ f1 \in Int /\ f2 \in Int /\ f3 \in Int
      /\ Positif(f1) \in Nat /\ Positif(f2) \in Nat /\ Positif(f3) \in Nat
  <2> HIDE DEF vide
  <2>1. QED
    BY <1>2, <1>6 DEF Positif
<1>8. /\ Fois(f1, Espace) \in Seq(T) /\ Len(Fois(f1, Espace)) = Positif(f1)
      /\ Fois(Zeros, "0") \in Seq(T) /\ Len(Fois(Zeros, "0")) = Positif(Zeros)
      /\ Fois(f2, "0") \in Seq(T) /\ Len(Fois(f2, "0")) = Positif(f2)
      /\ Fois(f3, Espace) \in Seq(T) /\ Len(Fois(f3, Espace)) = Positif(f3)
  <2> HIDE DEF f1, f2, f3
  <2>1. QED
    BY <1>4, <1>6, <1>7, FoisType
<1>9. PICK a \in Seq(T), p1 \in Seq(T), p2 \in Seq(T), b \in Seq(T),
           c \in Seq(T), p3 \in Seq(T), d \in Seq(T) :
        /\ a = Fois(f1, Espace) /\ p1 = Signe /\ p2 = Prefixe
        /\ b = Fois(Zeros, "0") /\ c = Fois(f2, "0") /\ p3 = chiffres
        /\ d = Fois(f3, Espace)
  <2> HIDE DEF f1, f2, f3
  <2>1. QED
    BY <1>5, <1>8
<1>10. emis' = a \o p1 \o p2 \o b \o c \o p3 \o d
  BY <1>1, <1>9
<1>11. Len(emis') = Len(a) + Len(p1) + Len(p2) + Len(b) + Len(c)
                      + Len(p3) + Len(d)
  <2>1. Len(a \o p1 \o p2 \o b \o c \o p3 \o d)
          = Len(a) + Len(p1) + Len(p2) + Len(b) + Len(c) + Len(p3) + Len(d)
    OBVIOUS
  <2>2. QED
    BY <1>10, <2>1
<1>12. PICK ls \in Nat, lp \in Nat, lc \in Nat :
         ls = Len(Signe) /\ lp = Len(Prefixe) /\ lc = Len(chiffres)
  BY <1>5
<1>13. PICK g1 \in Nat, g2 \in Nat, g3 \in Nat, z \in Nat :
         /\ g1 = Positif(f1) /\ g2 = Positif(f2) /\ g3 = Positif(f3)
         /\ z = Positif(Zeros)
  <2> HIDE DEF f1, f2, f3
  <2>1. QED
    BY <1>6, <1>7
<1>14. Len(emis') = g1 + ls + lp + z + g2 + lc + g3
  <2>1. /\ Len(a) = g1 /\ Len(b) = z /\ Len(c) = g2 /\ Len(d) = g3
        /\ Len(p1) = ls /\ Len(p2) = lp /\ Len(p3) = lc
    <3> HIDE DEF f1, f2, f3
    <3>1. QED
      BY <1>8, <1>9, <1>12, <1>13
  <2>2. QED
    BY <1>11, <2>1
<1>15. Positif(longueur - lc - ls - lp - z) = g1 + g2 + g3
  <2>1. Positif(vide) = g1 + g2 + g3
    <3> HIDE DEF vide, f1, f2, f3
    <3>1. QED
      BY <1>7, <1>13
  <2>2. vide = longueur - lc - ls - lp - z
    BY <1>12, <1>13
  <2>3. QED
    BY <2>1, <2>2
<1>16. Len(emis') = Positif(longueur - lc - ls - lp - z) + ls + lp + z + lc
  <2>1. Len(emis') = (g1 + g2 + g3) + ls + lp + z + lc
    BY <1>14
  <2>2. QED
    BY <1>15, <2>1
<1>17. z = Positif(precision - lc)
  BY <1>12, <1>13 DEF Zeros
<1>18. /\ Signe' = Signe /\ Prefixe' = Prefixe
  BY <1>1 DEF Signe, Prefixe, EnSigne
<1>19. LargeurRespectee'
  <2> DEFINE nombre == IF precision > lc THEN precision ELSE lc
             naturelle == nombre + ls + lp
  <2>1. Len(emis') = IF longueur > naturelle THEN longueur ELSE naturelle
    <3>1. PICK w \in Nat, prescrite \in Int :
            w = longueur /\ prescrite = precision
      BY <1>2
    <3>2. Positif(w - lc - ls - lp - z) + ls + lp + z + lc
            = LET m1 == (IF prescrite > lc THEN prescrite ELSE lc) + ls + lp
              IN  IF w > m1 THEN w ELSE m1
      <4>1. CASE prescrite > lc
        BY <1>17, <3>1, <4>1 DEF Positif
      <4>2. CASE ~(prescrite > lc)
        BY <1>17, <3>1, <4>2 DEF Positif
      <4>3. QED
        BY <4>1, <4>2
    <3>3. QED
      BY <1>16, <3>1, <3>2
  <2>2. QED
    BY <1>1, <1>12, <1>18, <2>1 DEF LargeurRespectee
<1>20. QED
  BY <1>1, <1>2, <1>3, <1>19 DEF LargeurEnCours

LEMMA LargeurInductive ==
  LargeurEnCours /\ [NextN]_varsN => LargeurEnCours'
<1> SUFFICES ASSUME LargeurEnCours, [NextN]_varsN PROVE LargeurEnCours'
  OBVIOUS
<1>1. CASE Argument
  BY <1>1 DEF Argument, LargeurEnCours, LargeurRespectee
<1>2. CASE Chiffre
  <2>1. /\ longueur' = longueur /\ precision' = precision
        /\ options' = options
        /\ etape' # "fini"
    BY <1>2 DEF Chiffre
  <2>2. PICK e : chiffres' = <<e>> \o chiffres
    BY <1>2 DEF Chiffre
  <2>3. PICK S : chiffres \in Seq(S)
    BY DEF LargeurEnCours
  <2>4. <<e>> \in Seq(S \cup {e}) /\ chiffres \in Seq(S \cup {e})
    BY <2>3, SeqMonotonic
  <2>5. chiffres' \in Seq(S \cup {e})
    BY <2>2, <2>4, ConcatProperties
  <2>6. QED
    BY <2>1, <2>5 DEF LargeurEnCours, LargeurRespectee
<1>3. CASE Emission
  BY <1>3, EmissionSuit
<1>4. CASE UNCHANGED varsN
  BY <1>4 DEF varsN, LargeurEnCours, LargeurRespectee, Signe, Prefixe,
              EnSigne
<1>5. QED
  BY <1>1, <1>2, <1>3, <1>4 DEF NextN

\* The integer conversions, with which the kernel prints its clock: for every
\* combination of flags, width and precision, what is printed is exactly as
\* wide as was asked, or as the number needs.
THEOREM LargeurRespecteeTheoreme == SpecN => []LargeurRespectee
<1>1. LargeurEnCours => LargeurRespectee
  BY DEF LargeurEnCours
<1>2. QED
  BY <1>1, LargeurInitiale, LargeurInductive, PTL DEF SpecN

-----------------------------------------------------------------------------
(* Multiplication and division.                                            *)

\* The powers of two, as the last terms of doublings of 1.
Doublements(h) ==
  {f \in [0 .. h -> Nat] :
     f[0] = 1 /\ \A i \in 0 .. h - 1 : f[i + 1] = 2 * f[i]}
PuissanceDeDeux(v) == \E h \in Nat : \E f \in Doublements(h) : f[h] = v

LEMMA PuissanceUn == PuissanceDeDeux(1)
<1> DEFINE f == [i \in 0 .. 0 |-> 1]
<1>1. f \in Doublements(0) /\ f[0] = 1
  BY DEF Doublements
<1> HIDE DEF f
<1>2. QED
  BY <1>1 DEF PuissanceDeDeux

LEMMA PuissanceDouble ==
  ASSUME NEW v \in Nat, PuissanceDeDeux(v)
  PROVE  PuissanceDeDeux(2 * v)
<1>0. PICK h \in Nat : \E f \in Doublements(h) : f[h] = v
  BY DEF PuissanceDeDeux
<1>1. PICK f \in Doublements(h) : f[h] = v
  BY <1>0
<1> DEFINE g == [i \in 0 .. h + 1 |-> IF i = h + 1 THEN 2 * v ELSE f[i]]
<1>2. /\ f \in [0 .. h -> Nat] /\ f[0] = 1
      /\ \A i \in 0 .. h - 1 : f[i + 1] = 2 * f[i]
  BY <1>1 DEF Doublements
<1>3. /\ g \in [0 .. h + 1 -> Nat] /\ g[0] = 1 /\ g[h + 1] = 2 * v
      /\ \A i \in 0 .. h : g[i] = f[i]
  BY <1>2
<1> HIDE DEF g
<1>4. ASSUME NEW i \in 0 .. (h + 1) - 1
      PROVE  g[i + 1] = 2 * g[i]
  <2>1. CASE i = h
    BY <1>1, <1>3, <2>1
  <2>2. CASE i # h
    <3>1. i \in 0 .. h - 1 /\ i + 1 \in 0 .. h /\ i \in 0 .. h
      BY <2>2
    <3>2. QED
      BY <1>2, <1>3, <3>1
  <2>3. QED
    BY <2>1, <2>2
<1>5. h + 1 \in Nat /\ g \in Doublements(h + 1)
  BY <1>3, <1>4 DEF Doublements
<1>6. QED
  BY <1>3, <1>5 DEF PuissanceDeDeux

\* Halving a power of two gives another one, or 0.
LEMMA PuissanceMoitie ==
  ASSUME NEW v \in Nat, PuissanceDeDeux(v)
  PROVE  \/ v = 1 /\ v \div 2 = 0
         \/ /\ PuissanceDeDeux(v \div 2) /\ v = 2 * (v \div 2)
            /\ v \div 2 \in Nat
<1>0. PICK h \in Nat : \E f \in Doublements(h) : f[h] = v
  BY DEF PuissanceDeDeux
<1>1. PICK f \in Doublements(h) : f[h] = v
  BY <1>0
<1>2. /\ f \in [0 .. h -> Nat] /\ f[0] = 1
      /\ \A i \in 0 .. h - 1 : f[i + 1] = 2 * f[i]
  BY <1>1 DEF Doublements
<1>3. CASE h = 0
  BY <1>1, <1>2, <1>3
<1>4. CASE h # 0
  <2>1. h - 1 \in Nat /\ h - 1 \in 0 .. h - 1 /\ (h - 1) + 1 = h
    BY <1>4
  <2>2. f[h] = 2 * f[h - 1] /\ f[h - 1] \in Nat
    BY <1>2, <2>1
  <2>3. v \div 2 = f[h - 1] /\ v = 2 * (v \div 2)
    BY <1>1, <2>2
  <2> DEFINE g == [i \in 0 .. h - 1 |-> f[i]]
  <2>4. g \in Doublements(h - 1) /\ g[h - 1] = f[h - 1]
    <3>1. /\ g \in [0 .. h - 1 -> Nat] /\ g[0] = 1
          /\ \A i \in 0 .. h - 1 : g[i] = f[i]
      BY <1>2, <2>1
    <3> HIDE DEF g
    <3>2. ASSUME NEW i \in 0 .. (h - 1) - 1
          PROVE  g[i + 1] = 2 * g[i]
      <4>1. i \in 0 .. h - 1 /\ i + 1 \in 0 .. h - 1
        OBVIOUS
      <4>2. QED
        BY <1>2, <3>1, <4>1
    <3>3. QED
      BY <2>1, <3>1, <3>2 DEF Doublements
  <2> HIDE DEF g
  <2>5. PuissanceDeDeux(f[h - 1])
    BY <2>1, <2>4 DEF PuissanceDeDeux
  <2>6. QED
    BY <2>2, <2>3, <2>5
<1>5. QED
  BY <1>3, <1>4

\* Quotient and remainder are determined by a = b * c + r with 0 <= r < b.
LEMMA DivisionUnique ==
  ASSUME NEW b \in Nat \ {0}, NEW c \in Int, NEW r \in 0 .. b - 1,
         NEW a \in Int, a = c * b + r
  PROVE  a % b = r /\ a \div b = c
<1> DEFINE z == a \div b
           w == a % b
<1>1. z \in Int /\ w \in 0 .. b - 1 /\ a = b * z + w
  OBVIOUS
<1> HIDE DEF z, w
<1>2. b * (z - c) = r - w
  <2>1. b * (z - c) = b * z - b * c /\ b * c = c * b
    BY <1>1
  <2>2. b * z \in Int /\ b * c \in Int
    BY <1>1
  <2>3. QED
    BY <1>1, <2>1, <2>2
<1>3. z - c < 1
  <2>1. SUFFICES ASSUME z - c >= 1 PROVE FALSE
    BY <1>1
  <2>2. b * (z - c) >= b
    BY <1>1, <2>1
  <2>3. QED
    BY <1>1, <1>2, <2>2
<1>4. z - c > -1
  <2>1. SUFFICES ASSUME z - c <= -1 PROVE FALSE
    BY <1>1
  <2>2. b * (z - c) <= -b
    BY <1>1, <2>1
  <2>3. QED
    BY <1>1, <1>2, <2>2
<1>5. z = c
  BY <1>1, <1>3, <1>4
<1>6. QED
  BY <1>1, <1>2, <1>5 DEF z, w

LEMMA ModuloType == Modulo \in Nat \ {0} /\ Modulo = 2 * PoidsFort
  BY PoidsFortOK DEF Modulo

\* The opposite of a word stands for the opposite number.
LEMMA MoinsVaut ==
  ASSUME NEW w \in Mots
  PROVE  /\ Moins(w) \in Mots /\ Moins(w) = (-w) % Modulo
         /\ Moins(w) = IF w = 0 THEN 0 ELSE Modulo - w
<1>1. Modulo \in Nat \ {0} /\ w \in 0 .. Modulo - 1
  BY ModuloType DEF Mots
<1>2. CASE w = 0
  <2>1. Modulo = 1 * Modulo + 0 /\ -w = 0 * Modulo + 0 /\ 0 \in 0 .. Modulo - 1
        /\ Modulo - w = Modulo
    BY <1>1, <1>2
  <2>2. Modulo % Modulo = 0 /\ (-w) % Modulo = 0
    BY <1>1, <2>1, DivisionUnique
  <2>3. QED
    BY <1>1, <1>2, <2>1, <2>2 DEF Moins, Mots
<1>3. CASE w # 0
  <2> DEFINE r == Modulo - w
  <2>1. /\ r \in 0 .. Modulo - 1 /\ r = 0 * Modulo + r /\ r \in Int
        /\ -w = (-1) * Modulo + r /\ -w \in Int
    BY <1>1, <1>3
  <2> HIDE DEF r
  <2>2. r % Modulo = r /\ (-w) % Modulo = r
    BY <1>1, <2>1, DivisionUnique
  <2>3. QED
    BY <1>1, <1>3, <2>1, <2>2 DEF Moins, Mots, r
<1>4. QED
  BY <1>2, <1>3

\* The word of the opposite of a number.
LEMMA OpposeModulo ==
  ASSUME NEW a \in Int
  PROVE  /\ a % Modulo \in Mots
         /\ (-a) % Modulo = Moins(a % Modulo)
<1> DEFINE z == a \div Modulo
           w == a % Modulo
<1>1. Modulo \in Nat \ {0}
  BY ModuloType
<1>2. z \in Int /\ w \in 0 .. Modulo - 1 /\ a = Modulo * z + w
  BY <1>1
<1> HIDE DEF z, w
<1>3. w \in Mots
  BY <1>2 DEF Mots
<1>4. CASE w = 0
  <2> DEFINE c == -z
             o == -a
  <2>1. /\ c \in Int /\ 0 \in 0 .. Modulo - 1 /\ o \in Int
        /\ o = c * Modulo + 0
    BY <1>1, <1>2, <1>4
  <2> HIDE DEF c, o
  <2>2. o % Modulo = 0
    BY <1>1, <2>1, DivisionUnique
  <2>3. Moins(w) = 0
    BY <1>3, <1>4, MoinsVaut
  <2>4. QED
    BY <1>3, <2>2, <2>3 DEF w, o
<1>5. CASE w # 0
  <2> DEFINE c == -z - 1
             r == Modulo - w
             o == -a
  <2>1. c \in Int /\ r \in 0 .. Modulo - 1 /\ o \in Int
    BY <1>1, <1>2, <1>5
  <2>2. (-z - 1) * Modulo = -(Modulo * z) - Modulo
    BY <1>1, <1>2
  <2>3. o = c * Modulo + r
    BY <1>1, <1>2, <2>2
  <2> HIDE DEF c, r, o
  <2>4. o % Modulo = r
    BY <1>1, <2>1, <2>3, DivisionUnique
  <2>5. QED
    BY <1>3, <1>5, <2>4, MoinsVaut DEF w, r, o
<1>6. QED
  BY <1>4, <1>5

Congrus(v, w, M) == \E s \in Int : v = w + s * M

\* One step of the multiplication keeps acc + x * y, modulo a word.
AccSuivant(c, a, b, M) == IF b % 2 = 1 THEN (c + a) % M ELSE c
LEMMA ProduitConserve ==
  ASSUME NEW M \in Nat \ {0}, NEW c \in Int, NEW a \in Int, NEW b \in Nat,
         NEW d \in Int, Congrus(c + a * b, d, M)
  PROVE  Congrus(AccSuivant(c, a, b, M) + ((2 * a) % M) * (b \div 2), d, M)
<1>0. PICK t \in Int : c + a * b = d + t * M
  BY DEF Congrus
<1> DEFINE h == b \div 2
           e == b % 2
           a2 == (2 * a) % M
           z == (2 * a) \div M
           c2 == IF e = 1 THEN (c + a) % M ELSE c
           w == IF e = 1 THEN (c + a) \div M ELSE 0
<1>1. /\ h \in Nat /\ e \in {0, 1} /\ b = 2 * h + e
      /\ a2 \in Int /\ z \in Int /\ 2 * a = M * z + a2
  OBVIOUS
<1>2. c2 \in Int /\ w \in Int
  OBVIOUS
<1>3. c + e * a = M * w + c2
  <2>1. CASE e = 1
    <3>1. c + a = M * ((c + a) \div M) + ((c + a) % M)
      OBVIOUS
    <3>2. QED
      BY <2>1, <3>1
  <2>2. CASE e = 0
    BY <1>1, <1>2, <2>2
  <2>3. QED
    BY <1>1, <2>1, <2>2
<1> HIDE DEF h, e, a2, z, c2, w
<1>4. a * b = 2 * a * h + e * a
  <2>1. a * b = a * (2 * h) + a * e
    BY <1>1
  <2>2. a * (2 * h) = 2 * a * h /\ a * e = e * a
    BY <1>1
  <2>3. QED
    BY <2>1, <2>2
<1>5. 2 * a * h = M * (z * h) + a2 * h
  <2>1. 2 * a * h = (M * z + a2) * h
    BY <1>1
  <2>2. (M * z + a2) * h = (M * z) * h + a2 * h /\ (M * z) * h = M * (z * h)
    BY <1>1
  <2>3. QED
    BY <2>1, <2>2
<1> DEFINE s == t - w - z * h
<1>6. s \in Int
  BY <1>0, <1>1, <1>2
<1>7. s * M = t * M - M * w - M * (z * h)
  BY <1>0, <1>1, <1>2
<1>8. c2 + a2 * h = d + s * M
  <2>1. /\ a2 * h \in Int /\ M * (z * h) \in Int /\ M * w \in Int
        /\ t * M \in Int /\ e * a \in Int /\ s * M \in Int /\ a * b \in Int
        /\ 2 * a * h \in Int
    BY <1>0, <1>1, <1>2, <1>6
  <2> HIDE DEF s
  <2>2. QED
    BY <1>0, <1>1, <1>2, <1>3, <1>4, <1>5, <1>7, <2>1
<1>9. QED
  BY <1>6, <1>8 DEF h, e, a2, c2, Congrus, AccSuivant

\* One step down: what x loses, acc * diviseur gains.
LEMMA ResteConserve ==
  ASSUME NEW a \in Nat, NEW b \in Nat, NEW c \in Nat, NEW d \in Nat \ {0},
         NEW v \in Nat, NEW t \in Nat, a + c * d = t, b = v * d, b <= a
  PROVE  /\ (a - b) + (c + v) * d = t
         /\ c + v <= t
<1>1. (c + v) * d = c * d + v * d
  OBVIOUS
<1>2. c * d \in Nat /\ v * d \in Nat
  OBVIOUS
<1>3. (a - b) + (c + v) * d = t
  BY <1>1, <1>2
<1>4. (c + v) * d >= c + v
  <2>1. c + v \in Nat
    OBVIOUS
  <2>2. QED
    BY <2>1
<1>5. QED
  BY <1>1, <1>2, <1>3, <1>4

-----------------------------------------------------------------------------
(* The unsigned words on which the loops work.                             *)

TermeX == IF signes THEN Absolu(x0) ELSE x0
TermeY == IF signes THEN Absolu(y0) ELSE y0

\* The absolute value of a word is the one of the number it stands for, also
\* for the most negative number.
LEMMA TermeVaut ==
  ASSUME signes \in BOOLEAN, NEW w \in Mots
  PROVE  LET a == ValeurDe(w)
             t == IF signes THEN Absolu(w) ELSE w
         IN  /\ a \in Int /\ t \in Mots /\ t = ValAbs(a)
             /\ a < 0 <=> (signes /\ Negatif(w))
<1>1. Modulo = 2 * PoidsFort /\ Modulo \in Nat \ {0} /\ PoidsFort \in Nat \ {0}
  BY ModuloType, PoidsFortOK
<1>2. w \in 0 .. Modulo - 1
  BY DEF Mots
<1>3. CASE signes /\ Negatif(w)
  <2>1. w >= PoidsFort /\ w # 0
    BY <1>1, <1>2, <1>3 DEF Negatif
  <2>2. Absolu(w) = Modulo - w /\ Moins(w) \in Mots
    BY <1>3, <2>1, MoinsVaut DEF Absolu
  <2>3. ValeurDe(w) = w - Modulo
    BY <1>3 DEF ValeurDe
  <2>4. ValAbs(w - Modulo) = Modulo - w
    BY <1>1, <1>2 DEF ValAbs
  <2>5. QED
    BY <1>1, <1>2, <1>3, <2>2, <2>3, <2>4 DEF Absolu
<1>4. CASE ~(signes /\ Negatif(w))
  <2>1. ValeurDe(w) = w /\ (IF signes THEN Absolu(w) ELSE w) = w
    BY <1>4 DEF ValeurDe, Absolu
  <2>2. ValAbs(w) = w
    BY <1>1, <1>2 DEF ValAbs
  <2>3. QED
    BY <1>1, <1>2, <1>4, <2>1, <2>2
<1>5. QED
  BY <1>3, <1>4

CalculTypes ==
  /\ operation \in {"mul", "div", "mod"} /\ signes \in BOOLEAN
  /\ x0 \in Mots /\ y0 \in Mots /\ x \in Mots /\ y \in Mots
  /\ acc \in Mots /\ aux \in Nat
  /\ xs \in BOOLEAN /\ ys \in BOOLEAN
  /\ ou \in {"debut", "echange", "multiplie", "diviseur", "monte", "descend",
             "fini"}

\* Where the call stands: the multiplication keeps acc + x * y modulo a word,
\* the division keeps y a multiple of the divisor by a power of two.
CalculEnCours ==
  /\ CalculTypes
  /\ ou = "debut" => x = x0 /\ y = y0 /\ ~xs /\ ~ys
  /\ ou # "debut" => /\ xs <=> signes /\ Negatif(x0)
                     /\ ys <=> signes /\ Negatif(y0)
  /\ ou \in {"echange", "multiplie"} => operation = "mul"
  /\ ou \in {"diviseur", "monte", "descend"} => operation # "mul"
  /\ ou \in {"debut", "diviseur", "monte"} => acc = 0
  /\ ou \in {"debut", "diviseur"} => resultat = 0
  /\ ou \in {"echange", "diviseur", "monte"} => x = TermeX
  /\ ou \in {"echange", "diviseur"} => y = TermeY
  /\ ou = "multiplie" =>
       Congrus(acc + x * y, TermeX * TermeY, Modulo)
  /\ ou \in {"monte", "descend"} => TermeY > 0
  /\ ou = "monte" => aux > 0 /\ PuissanceDeDeux(aux)
  /\ ou = "descend" => aux = 0 \/ PuissanceDeDeux(aux)
  /\ DivisionEnCours
  /\ ResultatJuste

\* What no action changes.
LEMMA AppelFixe ==
  ASSUME UNCHANGED <<operation, signes, x0, y0>>
  PROVE  TermeX' = TermeX /\ TermeY' = TermeY
  BY DEF TermeX, TermeY

LEMMA TermesTypes ==
  ASSUME CalculTypes
  PROVE  TermeX \in Mots /\ TermeY \in Mots
  BY TermeVaut DEF CalculTypes, TermeX, TermeY

LEMMA MotsNaturels == \A w \in Mots : w \in Nat /\ w < Modulo
  BY ModuloType DEF Mots

LEMMA CalculInitial == InitA => CalculEnCours
<1> SUFFICES ASSUME InitA PROVE CalculEnCours
  OBVIOUS
<1>1. CalculTypes
  <2>1. 0 \in Mots
    BY ModuloType DEF Mots
  <2>2. QED
    BY <2>1 DEF InitA, CalculTypes
<1>2. QED
  BY <1>1 DEF InitA, CalculEnCours, DivisionEnCours, ResultatJuste

LEMMA DebutSuit == ASSUME CalculEnCours, Debut PROVE CalculEnCours'
<1>1. /\ ou = "debut" /\ UNCHANGED <<operation, signes, x0, y0>>
      /\ acc' = acc /\ aux' = aux /\ resultat' = resultat
      /\ ou' = IF operation = "mul" THEN "echange" ELSE "diviseur"
      /\ CalculTypes /\ x = x0 /\ y = y0 /\ acc = 0 /\ resultat = 0
      /\ ~xs /\ ~ys
  BY DEF Debut, CalculEnCours
<1>2. x' = TermeX /\ y' = TermeY
  BY <1>1 DEF Debut, TermeX, TermeY
<1>3. /\ xs' \in BOOLEAN /\ ys' \in BOOLEAN
  <2>1. CASE signes
    BY <2>1 DEF Debut, Negatif
  <2>2. CASE ~signes
    BY <1>1, <2>2 DEF Debut, CalculTypes
  <2>3. QED
    BY <2>1, <2>2
<1>4. TermeX' = TermeX /\ TermeY' = TermeY
  BY <1>1, AppelFixe
<1>5. TermeX \in Mots /\ TermeY \in Mots
  BY <1>1, TermesTypes
<1>6. CalculTypes'
  BY <1>1, <1>2, <1>3, <1>5 DEF CalculTypes
<1>7. (xs' <=> signes /\ Negatif(x0)) /\ (ys' <=> signes /\ Negatif(y0))
  <2>1. CASE signes
    BY <1>1, <2>1 DEF Debut
  <2>2. CASE ~signes
    <3>1. xs' = xs /\ ys' = ys
      BY <2>2 DEF Debut
    <3>2. QED
      BY <1>1, <2>2, <3>1
  <2>3. QED
    BY <2>1, <2>2
<1>8. /\ xs' <=> signes' /\ Negatif(x0)'
      /\ ys' <=> signes' /\ Negatif(y0)'
  BY <1>1, <1>7 DEF Negatif
<1>9. QED
  BY <1>1, <1>2, <1>4, <1>6, <1>8
     DEF CalculEnCours, DivisionEnCours, ResultatJuste

LEMMA EchangeSuit == ASSUME CalculEnCours, Echange PROVE CalculEnCours'
<1>1. /\ ou = "echange" /\ UNCHANGED <<operation, signes, x0, y0, xs, ys>>
      /\ acc' = 0 /\ aux' = aux /\ ou' = "multiplie"
      /\ CalculTypes /\ x = TermeX /\ y = TermeY /\ operation = "mul"
      /\ \/ x' = y /\ y' = x
         \/ x' = x /\ y' = y
  BY DEF Echange, CalculEnCours
<1>2. TermeX' = TermeX /\ TermeY' = TermeY
  BY <1>1, AppelFixe
<1>3. CalculTypes'
  BY <1>1, ModuloType DEF CalculTypes, Mots
<1>4. acc' + x' * y' = TermeX' * TermeY' + 0 * Modulo
  <2>1. TermeX \in Nat /\ TermeY \in Nat /\ Modulo \in Nat
    BY <1>1, TermesTypes, MotsNaturels, ModuloType
  <2>2. x' * y' = TermeX * TermeY
    BY <1>1, <2>1
  <2>3. TermeX * TermeY \in Int
    BY <2>1
  <2>4. QED
    BY <1>1, <1>2, <2>1, <2>2, <2>3
<1>5. Congrus(acc' + x' * y', TermeX' * TermeY', Modulo)
  <2>1. 0 \in Int
    OBVIOUS
  <2>2. QED
    BY <1>4, <2>1 DEF Congrus
<1>6. QED
  BY <1>1, <1>3, <1>5
     DEF CalculEnCours, DivisionEnCours, ResultatJuste, Negatif, Modulo

LEMMA MultiplieSuit == ASSUME CalculEnCours, Multiplie PROVE CalculEnCours'
<1>1. /\ ou = "multiplie" /\ UNCHANGED <<operation, signes, x0, y0, xs, ys>>
      /\ aux' = aux /\ ou' = "multiplie"
      /\ CalculTypes /\ operation = "mul"
      /\ acc' = IF y % 2 = 1 THEN (acc + x) % Modulo ELSE acc
      /\ x' = (2 * x) % Modulo
      /\ y' = y \div 2
  BY DEF Multiplie, CalculEnCours
<1>2. TermeX' = TermeX /\ TermeY' = TermeY
  BY <1>1, AppelFixe
<1>3. /\ x \in Nat /\ y \in Nat /\ acc \in Nat
      /\ TermeX \in Nat /\ TermeY \in Nat /\ Modulo \in Nat \ {0}
      /\ x < Modulo /\ y < Modulo /\ acc < Modulo
  BY <1>1, TermesTypes, MotsNaturels, ModuloType DEF CalculTypes
<1>4. x' \in Mots /\ y' \in Mots /\ acc' \in Mots
  BY <1>1, <1>3 DEF Mots
<1>5. CalculTypes'
  BY <1>1, <1>4 DEF CalculTypes
<1>6. Congrus(acc + x * y, TermeX * TermeY, Modulo)
  BY <1>1 DEF CalculEnCours
<1>7. Congrus(acc' + x' * y', TermeX * TermeY, Modulo)
  <2>1. PICK M \in Nat \ {0}, c \in Int, a \in Int, b \in Nat, d \in Int :
          M = Modulo /\ c = acc /\ a = x /\ b = y /\ d = TermeX * TermeY
    <3>1. TermeX * TermeY \in Int
      BY <1>3
    <3>2. QED
      BY <1>3, <3>1
  <2>2. Congrus(c + a * b, d, M)
    BY <1>6, <2>1
  <2>3. Congrus(AccSuivant(c, a, b, M) + ((2 * a) % M) * (b \div 2), d, M)
    BY <2>2, ProduitConserve, Zenon
  <2>4. /\ acc' = AccSuivant(c, a, b, M) /\ x' = (2 * a) % M
        /\ y' = b \div 2
    BY <1>1, <2>1 DEF AccSuivant
  <2>5. QED
    BY <2>1, <2>3, <2>4
<1>8. Congrus(acc' + x' * y', TermeX' * TermeY', Modulo)
  BY <1>2, <1>7
<1>9. QED
  BY <1>1, <1>5, <1>8
     DEF CalculEnCours, DivisionEnCours, ResultatJuste, Negatif, Modulo

LEMMA PetitModulo ==
  ASSUME NEW a \in Nat, a < Modulo
  PROVE  a % Modulo = a
<1>1. Modulo \in Nat \ {0}
  BY ModuloType
<1>2. 0 \in Int /\ a \in 0 .. Modulo - 1 /\ a = 0 * Modulo + a
  BY <1>1
<1>3. QED
  BY <1>1, <1>2, DivisionUnique

\* DivisionEnCours, in the words of the two terms.
DivisionTenue ==
  ou \in {"monte", "descend"} =>
    /\ x + acc * TermeY = TermeX
    /\ aux > 0 => y = aux * TermeY
    /\ ou = "descend" => IF aux > 0 THEN x < 2 * y ELSE x < TermeY

LEMMA DivisionTermes == DivisionEnCours <=> DivisionTenue
  BY DEF DivisionEnCours, DivisionTenue, TermeX, TermeY

LEMMA DiviseurSuit == ASSUME CalculEnCours, Diviseur PROVE CalculEnCours'
<1>1. /\ ou = "diviseur"
      /\ UNCHANGED <<operation, signes, x0, y0, x, y, acc, xs, ys, resultat>>
      /\ CalculTypes /\ operation # "mul" /\ x = TermeX /\ y = TermeY
      /\ acc = 0 /\ resultat = 0
      /\ xs <=> signes /\ Negatif(x0)
      /\ ys <=> signes /\ Negatif(y0)
  BY DEF Diviseur, CalculEnCours
<1>2. TermeX' = TermeX /\ TermeY' = TermeY
  BY <1>1, AppelFixe
<1>3. TermeX \in Nat /\ TermeY \in Nat
  BY <1>1, TermesTypes, MotsNaturels
<1>4. /\ xs' <=> signes' /\ Negatif(x0)'
      /\ ys' <=> signes' /\ Negatif(y0)'
  BY <1>1 DEF Negatif
<1>5. CASE y = 0
  <2>1. ou' = "fini" /\ aux' = aux
    BY <1>5 DEF Diviseur
  <2>2. CalculTypes'
    BY <1>1, <2>1 DEF CalculTypes
  <2>3. ValeurDe(y0) = 0
    <3>1. PICK b \in Int : b = ValeurDe(y0) /\ TermeY = ValAbs(b)
      BY <1>1, TermeVaut DEF CalculTypes, TermeY
    <3>2. QED
      <4>1. ValAbs(b) = 0
        BY <1>1, <1>5, <3>1
      <4>2. b = 0
        BY <3>1, <4>1 DEF ValAbs
      <4>3. QED
        BY <3>1, <4>2
  <2>4. ValeurDe(y0)' = 0
    BY <1>1, <2>3 DEF ValeurDe, Negatif, Modulo
  <2>5. ResultatJuste'
    BY <1>1, <2>4 DEF ResultatJuste
  <2>6. DivisionEnCours'
    BY <2>1 DEF DivisionEnCours
  <2>7. QED
    BY <1>1, <1>4, <2>1, <2>2, <2>5, <2>6 DEF CalculEnCours
<1>6. CASE y # 0
  <2>1. ou' = "monte" /\ aux' = 1
    BY <1>6 DEF Diviseur
  <2>2. CalculTypes'
    BY <1>1, <2>1 DEF CalculTypes
  <2>3. TermeY' > 0 /\ x' + acc' * TermeY' = TermeX' /\ y' = aux' * TermeY'
    BY <1>1, <1>2, <1>3, <1>6, <2>1
  <2>4. DivisionEnCours'
    <3>1. DivisionTenue'
      BY <2>1, <2>3 DEF DivisionTenue
    <3>2. QED
      BY <3>1, DivisionTermes, PTL
  <2>5. ResultatJuste'
    BY <2>1 DEF ResultatJuste
  <2>6. PuissanceDeDeux(aux')
    BY <2>1, PuissanceUn
  <2>7. aux' > 0 /\ PuissanceDeDeux(aux)'
    BY <2>1, <2>6 DEF PuissanceDeDeux, Doublements
  <2>8. QED
    BY <1>1, <1>2, <1>4, <2>1, <2>2, <2>3, <2>4, <2>5, <2>7 DEF CalculEnCours
<1>7. QED
  BY <1>5, <1>6

LEMMA MonteSuit == ASSUME CalculEnCours, Monte PROVE CalculEnCours'
<1>1. /\ ou = "monte"
      /\ UNCHANGED <<operation, signes, x0, y0, x, acc, xs, ys, resultat>>
      /\ CalculTypes /\ operation # "mul" /\ x = TermeX
      /\ acc = 0 /\ aux > 0 /\ PuissanceDeDeux(aux) /\ TermeY > 0
      /\ xs <=> signes /\ Negatif(x0)
      /\ ys <=> signes /\ Negatif(y0)
  BY DEF Monte, CalculEnCours
<1>2. TermeX' = TermeX /\ TermeY' = TermeY
  BY <1>1, AppelFixe
<1>3. /\ TermeX \in Nat /\ TermeY \in Nat \ {0}
      /\ x \in Nat /\ y \in Nat /\ aux \in Nat \ {0}
      /\ x < Modulo /\ y < Modulo
      /\ Modulo \in Nat \ {0} /\ Modulo = 2 * PoidsFort
  <2>1. /\ TermeX \in Nat /\ TermeY \in Nat /\ x \in Nat /\ y \in Nat
        /\ x < Modulo /\ y < Modulo /\ aux \in Nat
    BY <1>1, TermesTypes, MotsNaturels DEF CalculTypes
  <2>2. QED
    BY <1>1, <2>1, ModuloType
<1>4. /\ xs' <=> signes' /\ Negatif(x0)'
      /\ ys' <=> signes' /\ Negatif(y0)'
  BY <1>1 DEF Negatif
<1>5. y = aux * TermeY /\ x + acc * TermeY = TermeX
  BY <1>1, DivisionTermes DEF CalculEnCours, DivisionTenue
<1>6. x' + acc' * TermeY' = TermeX'
  BY <1>1, <1>2, <1>5
<1>7. CASE y < x /\ ~Negatif(y)
  <2>1. /\ ou' = "monte"
        /\ y' = (2 * y) % Modulo /\ aux' = (2 * aux) % Modulo
    BY <1>1, <1>7 DEF Monte
  <2>2. 2 * y < Modulo
    BY <1>3, <1>7, PoidsFortOK DEF Negatif
  <2>3. aux <= y
    BY <1>3, <1>5
  <2>4. y' = 2 * y /\ aux' = 2 * aux
    <3>1. PICK a \in Nat, b \in Nat : a = 2 * y /\ b = 2 * aux
      BY <1>3
    <3>2. a < Modulo /\ b < Modulo
      BY <1>3, <2>2, <2>3, <3>1
    <3>3. a % Modulo = a /\ b % Modulo = b
      BY <3>2, PetitModulo
    <3>4. QED
      BY <2>1, <3>1, <3>3
  <2>5. y' = aux' * TermeY
    BY <1>3, <1>5, <2>4
  <2>6. y' \in Mots /\ aux' \in Nat /\ aux' > 0
    BY <1>3, <2>2, <2>4 DEF Mots
  <2>7. PuissanceDeDeux(aux)'
    <3>1. PuissanceDeDeux(2 * aux)
      BY <1>1, <1>3, PuissanceDouble
    <3>2. PuissanceDeDeux(aux')
      BY <2>4, <3>1
    <3>3. QED
      BY <3>2 DEF PuissanceDeDeux, Doublements
  <2>8. CalculTypes'
    BY <1>1, <2>1, <2>6 DEF CalculTypes
  <2>9. DivisionEnCours'
    <3>1. DivisionTenue'
      BY <1>2, <1>6, <2>1, <2>5 DEF DivisionTenue
    <3>2. QED
      BY <3>1, DivisionTermes, PTL
  <2>10. ResultatJuste'
    BY <2>1 DEF ResultatJuste
  <2>11. QED
    BY <1>1, <1>2, <1>4, <2>1, <2>6, <2>7, <2>8, <2>9, <2>10 DEF CalculEnCours
<1>8. CASE ~(y < x /\ ~Negatif(y))
  <2>1. ou' = "descend" /\ y' = y /\ aux' = aux
    BY <1>8 DEF Monte
  <2>2. y > 0
    BY <1>3, <1>5
  <2>3. x' < 2 * y'
    BY <1>1, <1>3, <1>8, <2>1, <2>2, PoidsFortOK DEF Negatif
  <2>4. y' = aux' * TermeY' /\ aux' > 0
    BY <1>1, <1>2, <1>5, <2>1
  <2>5. CalculTypes'
    BY <1>1, <2>1 DEF CalculTypes
  <2>6. DivisionEnCours'
    <3>1. DivisionTenue'
      BY <1>6, <2>1, <2>3, <2>4 DEF DivisionTenue
    <3>2. QED
      BY <3>1, DivisionTermes, PTL
  <2>7. ResultatJuste'
    BY <2>1 DEF ResultatJuste
  <2>8. PuissanceDeDeux(aux)'
    BY <1>1, <2>1 DEF PuissanceDeDeux, Doublements
  <2>9. QED
    BY <1>1, <1>2, <1>4, <2>1, <2>5, <2>6, <2>7, <2>8 DEF CalculEnCours
<1>9. QED
  BY <1>7, <1>8

LEMMA DescendSuit == ASSUME CalculEnCours, Descend PROVE CalculEnCours'
<1>1. /\ ou = "descend" /\ x > 0 /\ aux > 0 /\ ou' = "descend"
      /\ UNCHANGED <<operation, signes, x0, y0, xs, ys>>
      /\ aux' = aux \div 2 /\ y' = y \div 2
      /\ CalculTypes /\ operation # "mul" /\ PuissanceDeDeux(aux)
      /\ TermeY > 0
      /\ xs <=> signes /\ Negatif(x0)
      /\ ys <=> signes /\ Negatif(y0)
  BY DEF Descend, CalculEnCours
<1>2. TermeX' = TermeX /\ TermeY' = TermeY
  BY <1>1, AppelFixe
<1>3. /\ TermeX \in Nat /\ TermeY \in Nat \ {0}
      /\ x \in Nat /\ y \in Nat /\ aux \in Nat \ {0} /\ acc \in Nat
      /\ x < Modulo /\ y < Modulo /\ TermeX < Modulo
      /\ Modulo \in Nat \ {0}
  <2>1. /\ TermeX \in Nat /\ TermeY \in Nat /\ x \in Nat /\ y \in Nat
        /\ x < Modulo /\ y < Modulo /\ aux \in Nat /\ acc \in Nat
        /\ TermeX < Modulo
    BY <1>1, TermesTypes, MotsNaturels DEF CalculTypes
  <2>2. QED
    BY <1>1, <2>1, ModuloType
<1>4. /\ xs' <=> signes' /\ Negatif(x0)'
      /\ ys' <=> signes' /\ Negatif(y0)'
  BY <1>1 DEF Negatif
<1>5. /\ y = aux * TermeY /\ x + acc * TermeY = TermeX
      /\ x < 2 * y
  BY <1>1, DivisionTermes DEF CalculEnCours, DivisionTenue
<1>6. /\ x' \in Nat /\ acc' \in Nat /\ x' < y
      /\ x' + acc' * TermeY = TermeX
      /\ x' < Modulo /\ acc' < Modulo
  <2>1. CASE y <= x
    <3>1. PICK a \in Nat, b \in Nat, c \in Nat, d \in Nat \ {0}, v \in Nat,
                t \in Nat :
            /\ a = x /\ b = y /\ c = acc /\ d = TermeY /\ v = aux
            /\ t = TermeX
      BY <1>3
    <3>2. a + c * d = t /\ b = v * d /\ b <= a
      BY <1>5, <2>1, <3>1
    <3>3. (a - b) + (c + v) * d = t /\ c + v <= t
      BY <3>2, ResteConserve
    <3>4. (c + v) % Modulo = c + v
      <4>1. PICK w \in Nat : w = c + v
        OBVIOUS
      <4>2. w < Modulo
        BY <1>3, <3>1, <3>3, <4>1
      <4>3. QED
        BY <4>1, <4>2, PetitModulo
    <3>5. x' = a - b /\ acc' = c + v
      BY <2>1, <3>1, <3>4 DEF Descend
    <3>6. QED
      BY <1>3, <1>5, <2>1, <3>1, <3>3, <3>5
  <2>2. CASE ~(y <= x)
    <3>1. x' = x /\ acc' = acc
      BY <2>2 DEF Descend
    <3>2. acc < Modulo
      BY <1>1, MotsNaturels DEF CalculTypes
    <3>3. QED
      BY <1>3, <1>5, <2>2, <3>1, <3>2
  <2>3. QED
    BY <2>1, <2>2
<1>7. \/ aux = 1 /\ aux' = 0
      \/ PuissanceDeDeux(aux') /\ aux = 2 * aux' /\ aux' \in Nat
  BY <1>1, <1>3, PuissanceMoitie
<1>8. y' \in Mots /\ aux' \in Nat /\ x' \in Mots /\ acc' \in Mots
  BY <1>1, <1>3, <1>6 DEF Mots
<1>9. CalculTypes'
  BY <1>1, <1>8 DEF CalculTypes
<1>10. DivisionTenue'
  <2>1. CASE aux = 1 /\ aux' = 0
    <3>1. x' < TermeY
      BY <1>3, <1>5, <1>6, <2>1
    <3>2. QED
      BY <1>1, <1>2, <1>6, <2>1, <3>1 DEF DivisionTenue
  <2>2. CASE aux = 2 * aux' /\ aux' \in Nat
    <3>1. PICK e \in Nat, d \in Nat : e = aux' /\ d = TermeY
      BY <1>3, <2>2
    <3>2. e * d \in Nat /\ (2 * e) * d = 2 * (e * d)
      OBVIOUS
    <3>3. y = 2 * (e * d)
      BY <1>5, <2>2, <3>1, <3>2
    <3>4. y' = e * d
      BY <1>1, <3>2, <3>3
    <3>5. aux' > 0 /\ y' = aux' * TermeY
      <4>1. aux' > 0
        <5>1. aux \in Nat /\ aux > 0
          BY <1>1, <1>3
        <5>2. aux = 2 * e /\ e \in Nat
          BY <2>2, <3>1
        <5>3. e > 0
          BY <5>1, <5>2
        <5>4. QED
          BY <3>1, <5>3
      <4>2. e * d = aux' * TermeY
        BY <3>1, Zenon
      <4>3. QED
        BY <3>4, <4>1, <4>2
    <3>6. x' < 2 * y'
      BY <1>6, <3>3, <3>4
    <3>7. QED
      BY <1>1, <1>2, <1>6, <3>5, <3>6 DEF DivisionTenue
  <2>3. QED
    BY <1>7, <2>1, <2>2
<1>11. DivisionEnCours'
  BY <1>10, DivisionTermes, PTL
<1>12. ResultatJuste'
  BY <1>1 DEF ResultatJuste
<1>13. aux' = 0 \/ PuissanceDeDeux(aux)'
  BY <1>7 DEF PuissanceDeDeux, Doublements
<1>14. QED
  BY <1>1, <1>2, <1>4, <1>9, <1>11, <1>12, <1>13 DEF CalculEnCours

\* Products and remainders of numbers, from those of their absolute values.
LEMMA ProduitSigne ==
  ASSUME NEW a \in Int, NEW b \in Int
  PROVE  a * b = IF (a < 0) = (b < 0) THEN ValAbs(a) * ValAbs(b)
                 ELSE -(ValAbs(a) * ValAbs(b))
  BY DEF ValAbs

LEMMA ResteSigne ==
  ASSUME NEW a \in Int, NEW b \in Int, NEW c \in Nat, NEW r \in Nat,
         ValAbs(a) = c * ValAbs(b) + r
  PROVE  a - b * (IF (a < 0) = (b < 0) THEN c ELSE -c)
           = IF a < 0 THEN -r ELSE r
<1>1. /\ b * c = c * b /\ b * (-c) = -(c * b) /\ c * (-b) = -(c * b)
      /\ c * b \in Int
  OBVIOUS
<1>2. CASE b < 0
  BY <1>1, <1>2 DEF ValAbs
<1>3. CASE ~(b < 0)
  BY <1>1, <1>3 DEF ValAbs
<1>4. QED
  BY <1>2, <1>3

\* The sign of the result.
LEMMA SigneRendu ==
  ASSUME CalculTypes, NEW a \in Int, NEW b \in Int, NEW w \in Mots,
         a < 0 <=> (signes /\ Negatif(x0)),
         b < 0 <=> (signes /\ Negatif(y0)),
         xs <=> signes /\ Negatif(x0),
         ys <=> signes /\ Negatif(y0)
  PROVE  /\ AvecSigne(w, xs) = IF a < 0 THEN Moins(w) ELSE w
         /\ AvecSigne(w, xs # ys)
              = IF (a < 0) = (b < 0) THEN w ELSE Moins(w)
<1>1. AvecSigne(w, xs) = IF a < 0 THEN Moins(w) ELSE w
  BY DEF AvecSigne
<1>2. xs # ys <=> ~((a < 0) = (b < 0))
  BY DEF CalculTypes
<1>3. ~signes => ~(a < 0) /\ ~(b < 0)
  OBVIOUS
<1>4. AvecSigne(w, xs # ys) = IF (a < 0) = (b < 0) THEN w ELSE Moins(w)
  <2>1. CASE (a < 0) = (b < 0)
    BY <1>2, <2>1 DEF AvecSigne
  <2>2. CASE ~((a < 0) = (b < 0))
    BY <1>2, <1>3, <2>2 DEF AvecSigne
  <2>3. QED
    BY <2>1, <2>2
<1>5. QED
  BY <1>1, <1>4

\* A word that differs from d by a multiple of the modulus is its remainder.
LEMMA ResteDe ==
  ASSUME NEW M \in Nat \ {0}, NEW d \in Int, NEW w \in 0 .. M - 1,
         Congrus(w, d, M)
  PROVE  d % M = w
<1>1. PICK s \in Int : w = d + s * M
  BY DEF Congrus
<1>2. PICK c \in Int : c = -s
  OBVIOUS
<1>3. d = c * M + w
  <2>1. PICK e \in Int : e = s * M
    OBVIOUS
  <2>2. c * M = -e
    BY <1>2, <2>1
  <2>3. QED
    BY <1>1, <2>1, <2>2
<1>4. QED
  BY <1>3, DivisionUnique

\* The result, from what the loops have left in acc and x.
LEMMA ProduitJuste ==
  ASSUME CalculTypes, NEW a \in Int, NEW b \in Int, NEW w \in Mots,
         TermeX = ValAbs(a), TermeY = ValAbs(b),
         Congrus(w, TermeX * TermeY, Modulo)
  PROVE  (a * b) % Modulo
           = IF (a < 0) = (b < 0) THEN w ELSE Moins(w)
<1> DEFINE d == TermeX * TermeY
<1>1. Modulo \in Nat \ {0}
  BY ModuloType
<1>2. d \in Nat
  BY TermesTypes, MotsNaturels
<1>3. a * b = IF (a < 0) = (b < 0) THEN d ELSE -d
  BY ProduitSigne
<1> HIDE DEF d
<1>4. Congrus(w, d, Modulo)
  BY DEF d
<1>5. d % Modulo = w
  <2>1. w \in 0 .. Modulo - 1 /\ d \in Int
    BY <1>1, <1>2 DEF Mots
  <2>2. QED
    BY <1>1, <1>4, <2>1, ResteDe, Zenon
<1>6. (-d) % Modulo = Moins(w)
  BY <1>2, <1>5, OpposeModulo
<1>7. QED
  BY <1>3, <1>5, <1>6

LEMMA QuotientJuste ==
  ASSUME CalculTypes, NEW a \in Int, NEW b \in Int,
         NEW w \in Mots, NEW r \in Mots,
         TermeX = ValAbs(a), TermeY = ValAbs(b), TermeY > 0,
         r < TermeY, r + w * TermeY = TermeX
  PROVE  LET c == ValAbs(a) \div ValAbs(b)
             d == IF (a < 0) = (b < 0) THEN c ELSE -c
         IN  /\ d % Modulo = IF (a < 0) = (b < 0) THEN w ELSE Moins(w)
             /\ (a - b * d) % Modulo = IF a < 0 THEN Moins(r) ELSE r
<1>1. /\ Modulo \in Nat \ {0} /\ w \in Nat /\ r \in Nat
      /\ w < Modulo /\ r < Modulo
      /\ TermeX \in Nat /\ TermeY \in Nat \ {0}
  <2>1. TermeX \in Nat /\ TermeY \in Nat
    BY TermesTypes, MotsNaturels
  <2>2. QED
    BY <2>1, ModuloType, MotsNaturels
<1>2. TermeX \div TermeY = w
  <2>1. TermeX = w * TermeY + r /\ r \in 0 .. TermeY - 1
    <3>1. w * TermeY \in Nat
      BY <1>1
    <3>2. QED
      BY <1>1, <3>1
  <2>2. QED
    BY <1>1, <2>1, DivisionUnique
<1>3. w % Modulo = w /\ r % Modulo = r
  BY <1>1, PetitModulo
<1>4. (-w) % Modulo = Moins(w) /\ (-r) % Modulo = Moins(r)
  BY MoinsVaut
<1> DEFINE d == IF (a < 0) = (b < 0) THEN w ELSE -w
<1>5. d % Modulo = IF (a < 0) = (b < 0) THEN w ELSE Moins(w)
  BY <1>3, <1>4
<1>6. a - b * d = IF a < 0 THEN -r ELSE r
  <2>1. ValAbs(a) = w * ValAbs(b) + r
    <3>1. w * TermeY \in Nat
      BY <1>1
    <3>2. QED
      BY <1>1, <3>1
  <2>2. QED
    BY <1>1, <2>1, ResteSigne
<1>7. (a - b * d) % Modulo = IF a < 0 THEN Moins(r) ELSE r
  BY <1>3, <1>4, <1>6
<1>8. ValAbs(a) \div ValAbs(b) = w
  BY <1>2
<1>9. QED
  BY <1>5, <1>7, <1>8

LEMMA RendSuit == ASSUME CalculEnCours, Rend PROVE CalculEnCours'
<1>1. /\ \/ ou = "multiplie" /\ y = 0
         \/ ou = "descend" /\ (x = 0 \/ aux = 0)
      /\ ou' = "fini" /\ CalculTypes
      /\ UNCHANGED <<operation, signes, x0, y0, x, y, acc, aux, xs, ys>>
      /\ resultat' = IF operation = "mod" THEN AvecSigne(x, xs)
                     ELSE AvecSigne(acc, xs # ys)
      /\ xs <=> signes /\ Negatif(x0)
      /\ ys <=> signes /\ Negatif(y0)
  BY DEF Rend, CalculEnCours
<1>2. PICK a \in Int, b \in Int :
        /\ a = ValeurDe(x0) /\ b = ValeurDe(y0)
        /\ TermeX = ValAbs(a) /\ TermeY = ValAbs(b)
        /\ a < 0 <=> (signes /\ Negatif(x0))
        /\ b < 0 <=> (signes /\ Negatif(y0))
  <2>1. /\ ValeurDe(x0) \in Int /\ TermeX = ValAbs(ValeurDe(x0))
        /\ ValeurDe(x0) < 0 <=> (signes /\ Negatif(x0))
    BY <1>1, TermeVaut DEF CalculTypes, TermeX
  <2>2. /\ ValeurDe(y0) \in Int /\ TermeY = ValAbs(ValeurDe(y0))
        /\ ValeurDe(y0) < 0 <=> (signes /\ Negatif(y0))
    BY <1>1, TermeVaut DEF CalculTypes, TermeY
  <2>3. QED
    BY <2>1, <2>2
<1>3. x \in Mots /\ acc \in Mots
  BY <1>1 DEF CalculTypes
<1>4. /\ AvecSigne(x, xs) = IF a < 0 THEN Moins(x) ELSE x
      /\ AvecSigne(acc, xs # ys)
           = IF (a < 0) = (b < 0) THEN acc ELSE Moins(acc)
  BY <1>1, <1>2, <1>3, SigneRendu
<1>5. ASSUME \/ operation = "mul" /\ resultat' = (a * b) % Modulo
             \/ /\ operation # "mul" /\ b # 0
                /\ LET c == ValAbs(a) \div ValAbs(b)
                       d == IF (a < 0) = (b < 0) THEN c ELSE -c
                   IN  resultat' = (IF operation = "div" THEN d
                                    ELSE a - b * d) % Modulo
      PROVE  ResultatJuste'
  <2>1. a = ValeurDe(x0)' /\ b = ValeurDe(y0)'
    BY <1>1, <1>2 DEF ValeurDe, Negatif, Modulo
  <2>2. operation' = operation /\ Modulo' = Modulo
    BY <1>1 DEF Modulo
  <2>3. QED
    BY <1>5, <2>1, <2>2 DEF ResultatJuste, ValAbs, Modulo
<1>6. ResultatJuste'
  <2>1. CASE ou = "multiplie" /\ y = 0
    <3>1. operation = "mul" /\ Congrus(acc + x * y, TermeX * TermeY, Modulo)
      BY <2>1 DEF CalculEnCours
    <3>2. acc + x * y = acc
      BY <1>3, <2>1, MotsNaturels
    <3>3. (a * b) % Modulo = IF (a < 0) = (b < 0) THEN acc ELSE Moins(acc)
      BY <1>1, <1>2, <1>3, <3>1, <3>2, ProduitJuste
    <3>4. QED
      BY <1>1, <1>4, <1>5, <3>1, <3>3
  <2>2. CASE ou = "descend" /\ (x = 0 \/ aux = 0)
    <3>1. operation # "mul" /\ TermeY > 0 /\ DivisionTenue
      BY <2>2, DivisionTermes DEF CalculEnCours
    <3>2. x < TermeY /\ x + acc * TermeY = TermeX
      BY <2>2, <3>1 DEF DivisionTenue
    <3>3. b # 0
      BY <1>2, <3>1 DEF ValAbs
    <3> DEFINE c == ValAbs(a) \div ValAbs(b)
               d == IF (a < 0) = (b < 0) THEN c ELSE -c
    <3>4. /\ d % Modulo = IF (a < 0) = (b < 0) THEN acc ELSE Moins(acc)
          /\ (a - b * d) % Modulo = IF a < 0 THEN Moins(x) ELSE x
      BY <1>1, <1>2, <1>3, <3>1, <3>2, QuotientJuste
    <3> HIDE DEF d
    <3>5. resultat' = (IF operation = "div" THEN d ELSE a - b * d) % Modulo
      BY <1>1, <1>4, <3>1, <3>4 DEF CalculTypes
    <3>6. QED
      BY <1>5, <3>1, <3>3, <3>5 DEF d
  <2>3. QED
    BY <1>1, <2>1, <2>2
<1>7. CalculTypes'
  BY <1>1 DEF CalculTypes
<1>8. DivisionEnCours'
  BY <1>1 DEF DivisionEnCours
<1>9. /\ xs' <=> signes' /\ Negatif(x0)'
      /\ ys' <=> signes' /\ Negatif(y0)'
  BY <1>1 DEF Negatif
<1>10. QED
  BY <1>1, <1>6, <1>7, <1>8, <1>9 DEF CalculEnCours

LEMMA CalculToujours == SpecA => []CalculEnCours
<1>1. CalculEnCours /\ [NextA]_varsA => CalculEnCours'
  <2> SUFFICES ASSUME CalculEnCours, [NextA]_varsA PROVE CalculEnCours'
    OBVIOUS
  <2>1. CASE UNCHANGED varsA
    <3>1. /\ UNCHANGED <<operation, signes, x0, y0>>
          /\ x' = x /\ y' = y /\ acc' = acc /\ aux' = aux /\ xs' = xs
          /\ ys' = ys /\ ou' = ou /\ resultat' = resultat
      BY <2>1 DEF varsA
    <3>2. TermeX' = TermeX /\ TermeY' = TermeY
      BY <3>1, AppelFixe
    <3>3. CalculTypes' /\ DivisionEnCours' /\ ResultatJuste'
      BY <3>1 DEF CalculEnCours, CalculTypes, DivisionEnCours, ResultatJuste,
                  Absolu, Negatif, Moins, ValeurDe, Modulo
    <3>4. PuissanceDeDeux(aux)' <=> PuissanceDeDeux(aux)
      BY <3>1 DEF PuissanceDeDeux, Doublements
    <3>5. Negatif(x0)' = Negatif(x0) /\ Negatif(y0)' = Negatif(y0)
      BY <3>1 DEF Negatif
    <3>6. QED
      BY <3>1, <3>2, <3>3, <3>4, <3>5 DEF CalculEnCours, Modulo
  <2>2. QED
    BY <2>1, DebutSuit, EchangeSuit, MultiplieSuit, DiviseurSuit, MonteSuit,
       DescendSuit, RendSuit DEF NextA
<1>2. QED
  BY <1>1, CalculInitial, PTL DEF SpecA

\* The products, quotients and remainders of stdfct.c are those of C, signed
\* or not, for every word size and every pair of words.
THEOREM ResultatJusteTheoreme == SpecA => []ResultatJuste
<1>1. CalculEnCours => ResultatJuste
  BY DEF CalculEnCours
<1>2. QED
  BY <1>1, CalculToujours, PTL

\* At every iteration of a division, nothing of the dividend is lost, and the
\* shifted divisor has not lost its highest bit.
THEOREM DivisionEnCoursTheoreme == SpecA => []DivisionEnCours
<1>1. CalculEnCours => DivisionEnCours
  BY DEF CalculEnCours
<1>2. QED
  BY <1>1, CalculToujours, PTL

-----------------------------------------------------------------------------
(* memmem.  No place before j is an occurrence of the word, and the shift  *)
(* chosen at the start jumps over none.                                    *)

Convient(i) == \A h \in 0 .. m - 1 : AiguilleA(h) = FoinA(i + h)

RechercheTypes ==
  /\ foin \in Seq(Lettres) /\ aiguille \in Seq(Lettres)
  /\ j \in Nat
  /\ phase \in {"decalages", "un", "plusieurs", "trouve ou pas"}

Depassees == \A i \in Places : j <= i

DecalagesJustes ==
  \/ AiguilleA(0) = AiguilleA(1) /\ k = 2 /\ l = 1
  \/ AiguilleA(0) # AiguilleA(1) /\ k = 1 /\ l = 2

RechercheEnCours ==
  /\ RechercheTypes
  /\ phase = "decalages" => j = 0
  /\ phase = "un" => m = 1 /\ j < nf /\ Depassees
  /\ phase = "plusieurs" => m > 1 /\ m <= nf /\ DecalagesJustes /\ Depassees
  /\ PremierePlace

\* A place of the word, character by character.
LEMMA PlaceVaut ==
  ASSUME foin \in Seq(Lettres), aiguille \in Seq(Lettres), NEW i \in Int
  PROVE  i \in Places <=> i \in 0 .. nf - m /\ Convient(i)
<1> DEFINE s == SubSeq(foin, i + 1, i + m)
<1>1. m \in Nat /\ nf \in Nat
  BY DEF m, nf
<1>2. i \in Places <=> i \in 0 .. nf - m /\ s = aiguille
  BY DEF Places
<1>3. ASSUME i \in 0 .. nf - m
      PROVE  s = aiguille <=> Convient(i)
  <2>1. /\ s \in Seq(Lettres) /\ Len(s) = m
        /\ \A h \in 1 .. m : s[h] = foin[i + h]
    BY <1>1, <1>3 DEF m, nf
  <2>2. aiguille \in Seq(Lettres) /\ Len(aiguille) = m
    BY DEF m
  <2> HIDE DEF s
  <2>3. ASSUME Convient(i) PROVE s = aiguille
    <3>1. ASSUME NEW h \in 1 .. m PROVE s[h] = aiguille[h]
      <4>1. h - 1 \in 0 .. m - 1 /\ (h - 1) + 1 = h
            /\ (i + (h - 1)) + 1 = i + h
        BY <1>1
      <4>2. AiguilleA(h - 1) = FoinA(i + (h - 1))
        BY <2>3, <4>1 DEF Convient
      <4>3. QED
        BY <2>1, <4>1, <4>2 DEF AiguilleA, FoinA
    <3>2. QED
      BY <2>1, <2>2, <3>1, SeqEqual
  <2>4. ASSUME s = aiguille PROVE Convient(i)
    <3>1. ASSUME NEW h \in 0 .. m - 1 PROVE AiguilleA(h) = FoinA(i + h)
      <4>1. h + 1 \in 1 .. m /\ (i + h) + 1 = i + (h + 1)
        BY <1>1
      <4>2. QED
        BY <2>1, <2>4, <4>1 DEF AiguilleA, FoinA
    <3>2. QED
      BY <3>1 DEF Convient
  <2>5. QED
    BY <2>3, <2>4
<1>4. QED
  BY <1>2, <1>3

LEMMA RechercheInitiale == InitR => RechercheEnCours
<1>1. SUFFICES ASSUME InitR PROVE RechercheEnCours
  OBVIOUS
<1>2. foin \in Seq(Lettres) /\ aiguille \in Seq(Lettres)
  BY <1>1, LongueursOK DEF InitR
<1>3. QED
  BY <1>1, <1>2
     DEF InitR, RechercheEnCours, RechercheTypes, PremierePlace

LEMMA TaillesTypes ==
  ASSUME RechercheTypes PROVE m \in Nat /\ nf \in Nat
<1>1. foin \in Seq(Lettres) /\ aiguille \in Seq(Lettres)
  BY DEF RechercheTypes
<1>2. QED
  BY <1>1 DEF m, nf

\* The text and the word stay.
LEMMA TexteFixe ==
  ASSUME foin' = foin, aiguille' = aiguille
  PROVE  m' = m /\ nf' = nf /\ Places' = Places
BY DEF m, nf, Places

LEMMA CourteSuit == ASSUME RechercheEnCours, Courte PROVE RechercheEnCours'
<1>1. /\ phase = "decalages" /\ RechercheTypes /\ j = 0
      /\ UNCHANGED <<foin, aiguille, j, k, l>>
      /\ \/ (m > nf \/ m = 0 \/ nf = 0) /\ phase' = "trouve ou pas"
            /\ trouve' = Absent
         \/ m = 1 /\ nf > 0 /\ phase' = "un"
  BY DEF RechercheEnCours, Courte, Finit
<1>2. m' = m /\ nf' = nf /\ Places' = Places
  BY <1>1, TexteFixe
<1>3. m \in Nat /\ nf \in Nat
  BY <1>1, TaillesTypes
<1>4. RechercheTypes'
  BY <1>1 DEF RechercheTypes
<1>5. Depassees'
  <2>1. \A i \in Places : 0 <= i
    BY <1>3 DEF Places
  <2>2. QED
    BY <1>1, <1>2, <2>1 DEF Depassees
<1>6. CASE phase' = "trouve ou pas"
  <2>1. trouve' = Absent /\ (m > nf \/ m = 0 \/ nf = 0)
    BY <1>1, <1>6
  <2>2. m = 0 \/ Places = {}
    BY <1>3, <2>1 DEF Places
  <2>3. PremierePlace'
    BY <1>2, <2>1, <2>2 DEF PremierePlace, Absent
  <2>4. QED
    BY <1>4, <1>6, <2>3 DEF RechercheEnCours
<1>7. CASE phase' = "un"
  BY <1>1, <1>2, <1>4, <1>5, <1>7 DEF RechercheEnCours, PremierePlace
<1>8. QED
  BY <1>1, <1>6, <1>7

LEMMA DecalagesSuit ==
  ASSUME RechercheEnCours, Decalages PROVE RechercheEnCours'
<1>1. /\ RechercheTypes /\ j = 0 /\ phase' = "plusieurs"
      /\ UNCHANGED <<foin, aiguille, j>>
      /\ m <= nf /\ m > 1
      /\ IF AiguilleA(0) = AiguilleA(1) THEN k' = 2 /\ l' = 1
                                        ELSE k' = 1 /\ l' = 2
  BY DEF RechercheEnCours, Decalages
<1>2. m' = m /\ nf' = nf /\ Places' = Places
  BY <1>1, TexteFixe
<1>3. m \in Nat /\ nf \in Nat
  BY <1>1, TaillesTypes
<1>4. RechercheTypes'
  BY <1>1 DEF RechercheTypes
<1>5. Depassees'
  <2>1. \A i \in Places : 0 <= i
    BY <1>3 DEF Places
  <2>2. QED
    BY <1>1, <1>2, <2>1 DEF Depassees
<1>6. DecalagesJustes'
  BY <1>1 DEF DecalagesJustes, AiguilleA
<1>7. QED
  BY <1>1, <1>2, <1>4, <1>5, <1>6 DEF RechercheEnCours, PremierePlace

\* A place is found: it is an occurrence, and none is before it.
LEMMA Trouvee ==
  ASSUME RechercheTypes, RechercheTypes', Depassees, m > 0,
         foin' = foin, aiguille' = aiguille, j \in Places,
         phase' = "trouve ou pas", trouve' = j
  PROVE  RechercheEnCours'
<1>1. m' = m /\ nf' = nf /\ Places' = Places
  BY TexteFixe
<1>2. PremierePlace'
  BY <1>1 DEF PremierePlace, Depassees
<1>3. QED
  BY <1>2 DEF RechercheEnCours

\* None is left: there was none.
LEMMA NonTrouvee ==
  ASSUME RechercheTypes', foin' = foin, aiguille' = aiguille, Places = {},
         phase' = "trouve ou pas", trouve' = Absent
  PROVE  RechercheEnCours'
<1>1. m' = m /\ nf' = nf /\ Places' = Places
  BY TexteFixe
<1>2. PremierePlace'
  BY <1>1 DEF PremierePlace
<1>3. QED
  BY <1>2 DEF RechercheEnCours

LEMMA UnSuit == ASSUME RechercheEnCours, Un PROVE RechercheEnCours'
<1>1. /\ phase = "un" /\ RechercheTypes /\ m = 1 /\ j < nf /\ Depassees
      /\ UNCHANGED <<foin, aiguille, k, l>>
  BY DEF RechercheEnCours, Un
<1>2. m' = m /\ nf' = nf /\ Places' = Places
  BY <1>1, TexteFixe
<1>3. m \in Nat /\ nf \in Nat /\ j \in Nat /\ j \in Int /\ m > 0
  BY <1>1, TaillesTypes DEF RechercheTypes
<1>4. \A i \in Int : i \in Places <=> i \in 0 .. nf - m /\ Convient(i)
  BY <1>1, PlaceVaut DEF RechercheTypes
<1>5. j \in Places <=> FoinA(j) = AiguilleA(0)
  <2>1. j + 0 = j /\ 0 .. m - 1 = {0} /\ j \in 0 .. nf - m
    BY <1>1, <1>3
  <2>2. Convient(j) <=> FoinA(j) = AiguilleA(0)
    BY <2>1 DEF Convient
  <2>3. QED
    BY <1>3, <1>4, <2>1, <2>2
<1>6. CASE FoinA(j) = AiguilleA(0) /\ Finit(j) /\ UNCHANGED j
  <2>1. RechercheTypes' /\ phase' = "trouve ou pas" /\ trouve' = j
    BY <1>1, <1>6 DEF RechercheTypes, Finit
  <2>2. j \in Places /\ foin' = foin /\ aiguille' = aiguille
    BY <1>1, <1>5, <1>6
  <2>3. QED
    BY <1>1, <1>3, <2>1, <2>2, Trouvee, Zenon
<1>7. CASE /\ FoinA(j) # AiguilleA(0)
           /\ j' = j + 1
           /\ IF j' = nf THEN Finit(Absent) ELSE UNCHANGED <<phase, trouve>>
  <2>1. RechercheTypes'
    <3>1. phase' \in {"un", "trouve ou pas"} /\ j' \in Nat
      <4>1. phase' = phase \/ phase' = "trouve ou pas"
        BY <1>7 DEF Finit
      <4>2. j' \in Nat
        BY <1>3, <1>7
      <4>3. QED
        BY <1>1, <4>1, <4>2
    <3>2. QED
      BY <1>1, <3>1 DEF RechercheTypes
  <2>2. \A i \in Places : j + 1 <= i
    BY <1>1, <1>3, <1>5, <1>7 DEF Depassees, Places
  <2>3. CASE j' = nf
    <3>1. phase' = "trouve ou pas" /\ trouve' = Absent
      BY <1>7, <2>3 DEF Finit
    <3>2. Places = {}
      BY <1>1, <1>3, <1>7, <2>2, <2>3 DEF Places
    <3>3. QED
      BY <1>1, <2>1, <3>1, <3>2, NonTrouvee
  <2>4. CASE j' # nf
    <3>1. phase' = "un" /\ j' < nf
      BY <1>1, <1>3, <1>7, <2>4
    <3>2. Depassees'
      BY <1>2, <1>7, <2>2 DEF Depassees
    <3>3. QED
      BY <1>1, <1>2, <2>1, <3>1, <3>2 DEF RechercheEnCours, PremierePlace
  <2>5. QED
    BY <2>3, <2>4
<1>8. QED
  BY <1>6, <1>7 DEF Un

\* A shift by d jumps over no place, when the word is neither at j nor, for a
\* shift of two, at j + 1.
LEMMA Decale ==
  ASSUME RechercheTypes, Depassees, NEW d \in {1, 2}, j \notin Places,
         d = 2 => j + 1 \notin Places
  PROVE  \A i \in Places : j + d <= i
<1>1. \A i \in Places : i \in Int /\ j <= i /\ i # j /\ (d = 2 => i # j + 1)
  BY DEF Depassees, Places
<1>2. j \in Nat
  BY DEF RechercheTypes
<1>3. QED
  BY <1>1, <1>2

LEMMA PlusieursSuit ==
  ASSUME RechercheEnCours, Plusieurs PROVE RechercheEnCours'
<1>1. /\ phase = "plusieurs" /\ RechercheTypes /\ m > 1 /\ m <= nf
      /\ DecalagesJustes /\ Depassees
      /\ UNCHANGED <<foin, aiguille, k, l>>
  BY DEF RechercheEnCours, Plusieurs
<1>2. m' = m /\ nf' = nf /\ Places' = Places
  BY <1>1, TexteFixe
<1>3. m \in Nat /\ nf \in Nat /\ j \in Nat /\ j \in Int /\ m > 0
  BY <1>1, TaillesTypes DEF RechercheTypes
<1>4. \A i \in Int : i \in Places <=> i \in 0 .. nf - m /\ Convient(i)
  BY <1>1, PlaceVaut DEF RechercheTypes
<1>5. j \in Places => AiguilleA(1) = FoinA(j + 1)
  BY <1>1, <1>3, <1>4 DEF Convient
<1>6. j + 1 \in Places => AiguilleA(0) = FoinA(j + 1)
  <2>1. (j + 1) + 0 = j + 1 /\ 0 \in 0 .. m - 1 /\ j + 1 \in Int
    BY <1>1, <1>3
  <2>2. QED
    BY <1>4, <2>1 DEF Convient
<1>7. ASSUME NEW d \in {1, 2}, j' = j + d, j \notin Places,
             d = 2 => j + 1 \notin Places, UNCHANGED <<phase, trouve>>
      PROVE  RechercheEnCours'
  <2>1. RechercheTypes'
    BY <1>1, <1>3, <1>7 DEF RechercheTypes
  <2>2. Depassees'
    BY <1>1, <1>2, <1>7, Decale DEF Depassees
  <2>3. DecalagesJustes'
    BY <1>1 DEF DecalagesJustes, AiguilleA
  <2>4. QED
    BY <1>1, <1>2, <1>7, <2>1, <2>2, <2>3 DEF RechercheEnCours, PremierePlace
<1>8. CASE j > nf - m /\ Finit(Absent) /\ UNCHANGED j
  <2>1. Places = {}
    <3>1. \A i \in Places : i \in Int /\ i <= nf - m
      BY DEF Places
    <3>2. \A i \in Places : j <= i
      BY <1>1 DEF Depassees
    <3>3. QED
      BY <1>3, <1>8, <3>1, <3>2
  <2>2. RechercheTypes' /\ phase' = "trouve ou pas" /\ trouve' = Absent
    BY <1>1, <1>8 DEF RechercheTypes, Finit
  <2>3. QED
    BY <1>1, <2>1, <2>2, NonTrouvee
<1>9. CASE /\ j <= nf - m
           /\ AiguilleA(1) # FoinA(j + 1)
           /\ j' = j + k
           /\ UNCHANGED <<phase, trouve>>
  <2>1. j \notin Places
    BY <1>5, <1>9
  <2>2. k \in {1, 2} /\ (k = 2 => j + 1 \notin Places)
    BY <1>1, <1>6, <1>9 DEF DecalagesJustes
  <2>3. QED
    BY <1>7, <1>9, <2>1, <2>2
<1>10. CASE /\ j <= nf - m
            /\ AiguilleA(1) = FoinA(j + 1)
            /\ MemeReste /\ AiguilleA(0) = FoinA(j)
            /\ Finit(j) /\ UNCHANGED j
  <2>1. Convient(j)
    <3>1. SUFFICES ASSUME NEW h \in 0 .. m - 1
                   PROVE  AiguilleA(h) = FoinA(j + h)
      BY DEF Convient
    <3>2. h = 0 \/ h = 1 \/ h \in 2 .. m - 1
      BY <1>3
    <3>3. QED
      BY <1>3, <1>10, <3>2 DEF MemeReste
  <2>2. j \in Places
    BY <1>3, <1>4, <1>10, <2>1
  <2>3. RechercheTypes' /\ phase' = "trouve ou pas" /\ trouve' = j
    BY <1>1, <1>10 DEF RechercheTypes, Finit
  <2>4. foin' = foin /\ aiguille' = aiguille
    BY <1>1
  <2>5. QED
    BY <1>1, <1>3, <2>2, <2>3, <2>4, Trouvee, Zenon
<1>11. CASE /\ j <= nf - m
            /\ AiguilleA(1) = FoinA(j + 1)
            /\ ~(MemeReste /\ AiguilleA(0) = FoinA(j))
            /\ j' = j + l /\ UNCHANGED <<phase, trouve>>
  <2>1. j \notin Places
    <3>1. SUFFICES ASSUME Convient(j) PROVE FALSE
      BY <1>3, <1>4
    <3>2. AiguilleA(0) = FoinA(j)
      <4>1. 0 \in 0 .. m - 1 /\ j + 0 = j
        BY <1>1, <1>3
      <4>2. QED
        BY <3>1, <4>1 DEF Convient
    <3>3. MemeReste
      BY <1>3, <3>1 DEF Convient, MemeReste
    <3>4. QED
      BY <1>11, <3>2, <3>3
  <2>2. l \in {1, 2} /\ (l = 2 => j + 1 \notin Places)
    BY <1>1, <1>6, <1>11 DEF DecalagesJustes
  <2>3. QED
    BY <1>7, <1>11, <2>1, <2>2
<1>12. QED
  BY <1>8, <1>9, <1>10, <1>11 DEF Plusieurs

\* memmem returns the first occurrence of the word, for every text and word.
THEOREM PremierePlaceTheoreme == SpecR => []PremierePlace
<1>1. ASSUME RechercheEnCours, [NextR]_varsR
      PROVE  RechercheEnCours'
  <2>1. CASE UNCHANGED varsR
    <3>1. UNCHANGED <<foin, aiguille, j, k, l, phase, trouve>>
      BY <2>1 DEF varsR
    <3>2. m' = m /\ nf' = nf /\ Places' = Places
      BY <3>1, TexteFixe
    <3>3. QED
      BY <1>1, <3>1, <3>2
         DEF RechercheEnCours, RechercheTypes, Depassees, DecalagesJustes,
             AiguilleA, PremierePlace
  <2>2. QED
    BY <1>1, <2>1, CourteSuit, DecalagesSuit, UnSuit, PlusieursSuit
       DEF NextR
<1>2. RechercheEnCours => PremierePlace
  BY DEF RechercheEnCours
<1>3. QED
  BY <1>1, <1>2, RechercheInitiale, PTL DEF SpecR

-----------------------------------------------------------------------------
(* strlcat and strtok.                                                     *)

Contenu == Caractere \cup {Nul}

\* The length of the string in dst before the call, no more than size.
LongDst == Terminaison(zone0, 0, size)

ConcatTypes ==
  /\ zone \in [0 .. TailleZone - 1 -> Contenu]
  /\ zone0 \in [0 .. TailleZone - 1 -> Contenu]
  /\ ajout \in Seq(Caractere)
  /\ size \in 0 .. TailleZone

\* The bytes that strlcat has written: the first ones of ajout, behind the
\* string that was there.
Ajoutes ==
  /\ \A h \in 0 .. TailleZone - 1 :
       h < LongDst \/ h >= fin => zone[h] = zone0[h]
  /\ \A h \in LongDst .. fin - 1 : zone[h] = ajout[h - LongDst + 1]

\* When strlcat has returned.
AjoutFini ==
  /\ ConcatTypes
  /\ bytes = LongDst + Len(ajout)
  /\ LongDst = size => zone = zone0
  /\ LongDst < size =>
       /\ fin = IF bytes < size THEN bytes ELSE size - 1
       /\ zone[fin] = Nul
       /\ \A h \in 0 .. TailleZone - 1 :
            h < LongDst \/ h > fin => zone[h] = zone0[h]
       /\ \A h \in LongDst .. fin - 1 : zone[h] = ajout[h - LongDst + 1]

AjoutEnCours ==
  /\ pas \in {"fin de dst", "ajoute", "fini", "strtok", "epuise"}
  /\ pas = "fin de dst" => ConcatTypes /\ zone = zone0 /\ lu = 0
  /\ pas = "ajoute" =>
       /\ ConcatTypes
       /\ LongDst < size
       /\ lu \in 0 .. Len(ajout)
       /\ bytes = LongDst + lu
       /\ fin = IF bytes < size THEN bytes ELSE size - 1
       /\ Ajoutes
  /\ pas = "fini" => AjoutFini

\* The end of the string given to strtok, and of its word i: the next word,
\* or the rest, begins one character further on.
FinChaine == Terminaison(zone0, 0, TailleZone)
FinMot(i) ==
  IF i < Len(mots) THEN mots[i + 1] - 1
  ELSE IF holder = Null THEN FinChaine ELSE holder - 1

MotCoupe(i) ==
  /\ mots[i] \in 0 .. FinMot(i)
  /\ FinMot(i) <= FinChaine
  /\ zone[FinMot(i)] = Nul
  /\ \A h \in mots[i] .. FinMot(i) - 1 : zone[h] = zone0[h] /\ zone[h] \in Corps

DecoupeEnCours ==
  pas \in {"strtok", "epuise"} =>
    /\ zone \in [0 .. TailleZone - 1 -> Contenu]
    /\ zone0 \in [0 .. TailleZone - 1 -> Contenu]
    /\ zone0[TailleZone - 1] = Nul
    /\ mots \in Seq(Nat)
    /\ mots = <<>> => pas = "strtok" /\ zone = zone0
    /\ mots # <<>> =>
         /\ mots[1] = 0
         /\ \A i \in DOMAIN mots : MotCoupe(i)
         /\ holder # Null =>
              /\ holder \in 1 .. FinChaine
              /\ \A h \in holder .. TailleZone - 1 : zone[h] = zone0[h]
              /\ \A i \in DOMAIN mots : FinMot(i) < holder
    /\ pas = "epuise" => holder = Null

\* A set of numbers has a least one.
LEMMA PlusPetit ==
  ASSUME NEW T, T \subseteq Nat, T # {}
  PROVE  \E v \in T : \A z \in T : v <= z
<1> DEFINE R == OpToRel(<, Nat)
<1>1. PICK v \in T : \A z \in T : ~ (<<z, v>> \in R)
  <2>1. IsWellFoundedOn(R, Nat)
    BY NatLessThanWellFounded
  <2> HIDE DEF R
  <2>2. QED
    BY <2>1, WFMin
<1>2. ASSUME NEW z \in T PROVE v <= z
  <2>1. z \in Nat /\ v \in Nat /\ <<z, v>> \in Nat \X Nat
    OBVIOUS
  <2>2. ~(z < v)
    BY <1>1, <2>1 DEF OpToRel
  <2>3. QED
    BY <2>1, <2>2
<1>3. QED
  BY <1>2

\* Where a string ends, and that it ends nowhere else.
LEMMA TerminaisonVaut ==
  ASSUME NEW z, NEW a \in Nat, NEW b \in Nat, a <= b
  PROVE  /\ Terminaison(z, a, b) \in a .. b
         /\ \A h \in a .. Terminaison(z, a, b) - 1 : z[h] # Nul
         /\ Terminaison(z, a, b) < b => z[Terminaison(z, a, b)] = Nul
<1> DEFINE nuls == {i \in a .. b - 1 : z[i] = Nul}
           t == Terminaison(z, a, b)
<1>1. CASE nuls = {}
  <2>1. t = b
    BY <1>1 DEF Terminaison
  <2>2. \A h \in a .. b - 1 : z[h] # Nul
    BY <1>1
  <2> HIDE DEF t
  <2>3. QED
    BY <2>1, <2>2 DEF t
<1>2. CASE nuls # {}
  <2>1. PICK v \in nuls : \A i2 \in nuls : v <= i2
    <3>1. nuls \subseteq Nat
      OBVIOUS
    <3> HIDE DEF nuls
    <3>2. QED
      BY <1>2, <3>1, PlusPetit
  <2>2. t = CHOOSE i \in nuls : \A i2 \in nuls : i <= i2
    BY <1>2 DEF Terminaison
  <2>3. t \in nuls /\ \A i2 \in nuls : t <= i2
    BY <2>1, <2>2
  <2>4. t \in a .. b - 1 /\ z[t] = Nul /\ t \in Int
    BY <2>3
  <2>5. \A h \in a .. t - 1 : z[h] # Nul
    <3>1. SUFFICES ASSUME NEW h \in a .. t - 1, z[h] = Nul PROVE FALSE
      OBVIOUS
    <3>2. h \in nuls /\ h < t
      BY <2>4, <3>1
    <3>3. QED
      BY <2>3, <2>4, <3>2
  <2> HIDE DEF t, nuls
  <2>6. QED
    BY <2>4, <2>5 DEF t
<1>3. QED
  BY <1>1, <1>2

LEMMA TerminaisonEst ==
  ASSUME NEW z, NEW a \in Nat, NEW b \in Nat, a <= b, NEW t \in a .. b,
         \A h \in a .. t - 1 : z[h] # Nul, t < b => z[t] = Nul
  PROVE  Terminaison(z, a, b) = t
<1> DEFINE w == Terminaison(z, a, b)
<1>1. /\ w \in a .. b
      /\ \A h \in a .. w - 1 : z[h] # Nul
      /\ w < b => z[w] = Nul
  BY TerminaisonVaut
<1> HIDE DEF w
<1>2. ~(w < t)
  BY <1>1
<1>3. ~(t < w)
  BY <1>1
<1>4. QED
  BY <1>1, <1>2, <1>3 DEF w

\* The string itself.
LEMMA ChaineVaut ==
  ASSUME NEW z \in [0 .. TailleZone - 1 -> Contenu], NEW a \in Nat,
         NEW b \in 0 .. TailleZone, a <= b
  PROVE  /\ Chaine(z, a, b) \in Seq(Contenu)
         /\ Len(Chaine(z, a, b)) = Terminaison(z, a, b) - a
         /\ \A i \in 1 .. Terminaison(z, a, b) - a :
              Chaine(z, a, b)[i] = z[a + i - 1]
<1> DEFINE t == Terminaison(z, a, b) - a
           s == Chaine(z, a, b)
<1>1. b \in Nat /\ TailleZone \in Nat /\ b <= TailleZone
  BY ChainesOK
<1>2. Terminaison(z, a, b) \in a .. b
  BY <1>1, TerminaisonVaut
<1>3. t \in Nat /\ a + t <= TailleZone
  BY <1>1, <1>2
<1>4. s = [i \in 1 .. t |-> z[a + i - 1]]
  BY DEF Chaine
<1> HIDE DEF t, s
<1>5. s \in [1 .. t -> Contenu]
  <2>1. ASSUME NEW i \in 1 .. t PROVE z[a + i - 1] \in Contenu
    <3>1. a + i - 1 \in 0 .. TailleZone - 1
      BY <1>1, <1>3
    <3>2. QED
      BY <3>1
  <2>2. QED
    BY <1>4, <2>1
<1>6. s \in Seq(Contenu) /\ Len(s) = t
  BY <1>3, <1>5
<1>7. \A i \in 1 .. t : s[i] = z[a + i - 1]
  BY <1>4
<1>8. QED
  BY <1>6, <1>7 DEF s, t

LEMMA ChaineDebut ==
  ASSUME NEW z \in [0 .. TailleZone - 1 -> Contenu],
         NEW b \in 0 .. TailleZone
  PROVE  /\ Chaine(z, 0, b) \in Seq(Contenu)
         /\ Len(Chaine(z, 0, b)) = Terminaison(z, 0, b)
         /\ \A i \in 1 .. Terminaison(z, 0, b) : Chaine(z, 0, b)[i] = z[i - 1]
<1> DEFINE t == Terminaison(z, 0, b)
           s == Chaine(z, 0, b)
<1>1. PICK a \in Nat : a = 0
  OBVIOUS
<1>2. b \in Nat /\ a <= b
  BY <1>1, ChainesOK
<1>3. t \in Nat
  BY <1>1, <1>2, TerminaisonVaut
<1>4. /\ s \in Seq(Contenu) /\ Len(s) = t - a
      /\ \A i \in 1 .. t - a : s[i] = z[a + i - 1]
  BY <1>1, <1>2, ChaineVaut, Zenon
<1> HIDE DEF s, t
<1>5. QED
  BY <1>1, <1>3, <1>4 DEF s, t

LEMMA ChainesInitiale == InitC => AjoutEnCours /\ DecoupeEnCours
<1>1. SUFFICES ASSUME InitC PROVE AjoutEnCours /\ DecoupeEnCours
  OBVIOUS
<1>2. /\ zone \in [0 .. TailleZone - 1 -> Contenu] /\ zone0 = zone
      /\ mots = <<>> /\ mots \in Seq(Nat)
      /\ pas \in {"fin de dst", "strtok"}
      /\ pas = "strtok" => zone[TailleZone - 1] = Nul
  <2>1. zone \in [0 .. TailleZone - 1 -> Contenu] /\ zone0 = zone
    BY <1>1 DEF InitC, Contenu
  <2>2. mots = <<>> /\ mots \in Seq(Nat)
    <3>1. mots = <<>>
      BY <1>1, Zenon DEF InitC
    <3>2. QED
      BY <3>1
  <2>3. pas \in {"fin de dst", "strtok"}
    BY <1>1 DEF InitC
  <2>4. pas = "strtok" => zone[TailleZone - 1] = Nul
    BY <1>1 DEF InitC
  <2>5. QED
    BY <2>1, <2>2, <2>3, <2>4
<1>3. pas = "fin de dst" =>
        ajout \in Seq(Caractere) /\ size \in 0 .. TailleZone
  <2>1. SUFFICES ASSUME pas = "fin de dst"
                 PROVE  ajout \in Seq(Caractere) /\ size \in 0 .. TailleZone
    OBVIOUS
  <2>2. /\ ajout \in UNION {[1 .. i -> Caractere] : i \in 0 .. MaxAjout}
        /\ size \in 0 .. TailleZone
    BY <1>1, <2>1 DEF InitC
  <2>3. ajout \in Seq(Caractere)
    <3>1. PICK i \in 0 .. MaxAjout : ajout \in [1 .. i -> Caractere]
      BY <2>2
    <3>2. MaxAjout \in Nat
      BY ChainesOK
    <3>3. i \in Nat
      BY <3>2
    <3>4. QED
      BY <3>1, <3>3
  <2>4. QED
    BY <2>2, <2>3
<1>4. AjoutEnCours
  <2>1. lu = 0
    BY <1>1, Zenon DEF InitC
  <2>2. QED
    BY <1>2, <1>3, <2>1 DEF AjoutEnCours, ConcatTypes
<1>5. DecoupeEnCours
  BY <1>2 DEF DecoupeEnCours
<1>6. QED
  BY <1>4, <1>5

LEMMA LongDstVaut ==
  ASSUME ConcatTypes
  PROVE  /\ LongDst \in 0 .. size /\ LongDst \in Nat /\ size \in Nat
         /\ size <= TailleZone /\ TailleZone \in Nat
         /\ \A h \in 0 .. LongDst - 1 : zone0[h] # Nul
<1>1. size \in Nat /\ 0 \in Nat /\ 0 <= size /\ TailleZone \in Nat
      /\ size <= TailleZone
  BY ChainesOK DEF ConcatTypes
<1>2. LongDst \in 0 .. size /\ \A h \in 0 .. LongDst - 1 : zone0[h] # Nul
  BY <1>1, TerminaisonVaut DEF LongDst
<1>3. QED
  BY <1>1, <1>2

LEMMA AjoutFiniBorne == AjoutFini => AjoutBorne
<1> SUFFICES ASSUME AjoutFini PROVE AjoutBorne
  OBVIOUS
<1> DEFINE avant == Chaine(zone0, 0, size)
           tout == avant \o ajout
           garde == IF Len(tout) < size THEN Len(tout) ELSE size - 1
           o == LongDst
<1>1. ConcatTypes /\ bytes = o + Len(ajout) /\ (o = size => zone = zone0)
  BY DEF AjoutFini
<1>2. /\ o \in 0 .. size /\ o \in Nat /\ size \in Nat /\ size <= TailleZone
      /\ TailleZone \in Nat
      /\ \A h \in 0 .. o - 1 : zone0[h] # Nul
  BY <1>1, LongDstVaut
<1>3. /\ zone \in [0 .. TailleZone - 1 -> Contenu]
      /\ zone0 \in [0 .. TailleZone - 1 -> Contenu]
      /\ ajout \in Seq(Caractere) /\ size \in 0 .. TailleZone
  BY <1>1 DEF ConcatTypes
<1>4. o < size =>
        /\ fin = IF bytes < size THEN bytes ELSE size - 1
        /\ zone[fin] = Nul
        /\ \A h \in 0 .. TailleZone - 1 :
             h < o \/ h > fin => zone[h] = zone0[h]
        /\ \A h \in o .. fin - 1 : zone[h] = ajout[h - o + 1]
  BY DEF AjoutFini
<1>5. /\ avant \in Seq(Contenu) /\ Len(avant) = o
      /\ \A i \in 1 .. o : avant[i] = zone0[i - 1]
  BY <1>3, ChaineDebut DEF LongDst
<1>6. Len(ajout) \in Nat /\ ajout \in Seq(Contenu)
      /\ \A i \in 1 .. Len(ajout) : ajout[i] \in Caractere
  BY <1>3, SeqMonotonic, ElementOfSeq DEF Contenu
<1> HIDE DEF avant, o
<1>7. /\ tout \in Seq(Contenu) /\ Len(tout) = o + Len(ajout)
      /\ \A i \in 1 .. o : tout[i] = avant[i]
      /\ \A i \in 1 .. Len(ajout) : tout[o + i] = ajout[i]
  <2>1. PICK a \in Seq(Contenu), b \in Seq(Contenu) : a = avant /\ b = ajout
    BY <1>5, <1>6
  <2>2. /\ a \o b \in Seq(Contenu) /\ Len(a \o b) = Len(a) + Len(b)
        /\ \A i \in 1 .. Len(a) + Len(b) :
             (a \o b)[i] = IF i <= Len(a) THEN a[i] ELSE b[i - Len(a)]
    BY ConcatProperties
  <2>3. Len(a) = o /\ Len(b) = Len(ajout) /\ tout = a \o b
    BY <1>5, <2>1
  <2> HIDE DEF tout
  <2>4. tout \in Seq(Contenu) /\ Len(tout) = o + Len(ajout)
    BY <2>2, <2>3
  <2>5. ASSUME NEW i \in 1 .. o PROVE tout[i] = avant[i]
    <3>1. i \in 1 .. o + Len(ajout) /\ i <= o
      BY <1>2, <1>6
    <3>2. QED
      BY <2>1, <2>2, <2>3, <3>1
  <2>6. ASSUME NEW i \in 1 .. Len(ajout) PROVE tout[o + i] = ajout[i]
    <3>1. o + i \in 1 .. o + Len(ajout) /\ ~(o + i <= o) /\ (o + i) - o = i
      BY <1>2, <1>6
    <3>2. QED
      BY <2>1, <2>2, <2>3, <3>1
  <2>7. QED
    BY <2>4, <2>5, <2>6
<1> HIDE DEF tout
<1>8. ASSUME o < size
      PROVE  Chaine(zone, 0, TailleZone) = SubSeq(tout, 1, garde)
  <2>1. fin = garde /\ fin \in o .. size - 1 /\ fin <= Len(tout)
        /\ fin \in Nat /\ garde \in Nat
    BY <1>1, <1>2, <1>4, <1>6, <1>7, <1>8
  <2> HIDE DEF garde
  <2>2. \A h \in 0 .. fin - 1 : zone[h] = tout[h + 1] /\ zone[h] # Nul
    <3>1. SUFFICES ASSUME NEW h \in 0 .. fin - 1
                   PROVE  zone[h] = tout[h + 1] /\ zone[h] # Nul
      OBVIOUS
    <3>2. CASE h < o
      <4>1. h \in 0 .. TailleZone - 1 /\ h + 1 \in 1 .. o
            /\ (h + 1) - 1 = h /\ h \in 0 .. o - 1
        BY <1>2, <2>1, <3>2
      <4>2. QED
        BY <1>2, <1>4, <1>5, <1>7, <1>8, <3>2, <4>1
    <3>3. CASE h >= o
      <4>1. PICK i \in 1 .. Len(ajout) : i = h - o + 1
        BY <1>2, <1>6, <1>7, <2>1, <3>3
      <4>2. zone[h] = ajout[i] /\ o + i = h + 1
        BY <1>2, <1>4, <1>8, <2>1, <3>3, <4>1
      <4>3. ajout[i] # Nul
        BY <1>6, ChainesOK DEF Caractere
      <4>4. QED
        BY <1>7, <4>2, <4>3
    <3>4. QED
      BY <1>2, <2>1, <3>2, <3>3
  <2>3. Terminaison(zone, 0, TailleZone) = fin
    BY <1>2, <1>4, <1>8, <2>1, <2>2, TerminaisonEst
  <2> DEFINE s == Chaine(zone, 0, TailleZone)
             t == SubSeq(tout, 1, garde)
  <2>4. /\ s \in Seq(Contenu) /\ Len(s) = fin
        /\ \A i \in 1 .. fin : s[i] = zone[i - 1]
    <3>1. TailleZone \in 0 .. TailleZone
      BY <1>2
    <3>2. QED
      BY <1>3, <2>3, <3>1, ChaineDebut
  <2>5. /\ t \in Seq(Contenu) /\ Len(t) = garde
        /\ \A i \in 1 .. garde : t[i] = tout[i]
    BY <1>7, <2>1
  <2> HIDE DEF s, t
  <2>6. ASSUME NEW i \in 1 .. fin PROVE s[i] = t[i]
    <3>1. i - 1 \in 0 .. fin - 1 /\ (i - 1) + 1 = i
      BY <2>1
    <3>2. s[i] = zone[i - 1]
      BY <2>4, <3>1
    <3>3. QED
      BY <2>1, <2>2, <2>5, <3>1, <3>2
  <2>7. Len(s) = fin /\ Len(t) = fin
    BY <2>1, <2>4, <2>5
  <2>8. s = t
    BY <2>4, <2>5, <2>6, <2>7, SeqEqual
  <2>9. QED
    BY <2>8 DEF s, t
<1>9. ASSUME NEW i \in DOMAIN zone, i >= size \/ i < o
      PROVE  zone[i] = zone0[i]
  <2>1. i \in 0 .. TailleZone - 1
    BY <1>3
  <2>2. CASE o = size
    BY <1>1, <2>2
  <2>3. CASE o < size
    <3>1. fin < size /\ fin \in Int
      BY <1>1, <1>2, <1>4, <1>6, <2>3
    <3>2. i < o \/ i > fin
      BY <1>2, <1>9, <2>1, <3>1
    <3>3. QED
      BY <1>4, <2>1, <2>3, <3>2
  <2>4. QED
    BY <1>2, <2>2, <2>3
<1>10. size > Len(avant) =>
         Chaine(zone, 0, TailleZone) = SubSeq(tout, 1, garde)
  BY <1>2, <1>5, <1>8
<1>11. /\ \A i \in DOMAIN zone :
            i >= size \/ i < Len(avant) => zone[i] = zone0[i]
       /\ bytes = Len(tout)
  BY <1>1, <1>5, <1>7, <1>9
<1>12. QED
  BY <1>10, <1>11 DEF AjoutBorne, avant, tout

LEMMA FinDeDstSuit == ASSUME AjoutEnCours, FinDeDst PROVE AjoutEnCours'
<1>1. /\ pas = "fin de dst" /\ ConcatTypes /\ zone = zone0 /\ lu = 0
      /\ UNCHANGED <<zone, zone0, ajout, size, lu, holder, mots>>
      /\ fin' = Terminaison(zone, 0, size)
      /\ \/ fin' = size /\ bytes' = size + Len(ajout) /\ pas' = "fini"
         \/ fin' < size /\ bytes' = fin' /\ pas' = "ajoute"
  <2>1. pas = "fin de dst" /\ lu' = lu
    BY DEF FinDeDst
  <2>2. QED
    BY <2>1 DEF FinDeDst, AjoutEnCours
<1>2. LongDst' = LongDst /\ ConcatTypes'
  BY <1>1 DEF LongDst, ConcatTypes
<1>3. fin' = LongDst
  BY <1>1 DEF LongDst
<1>4. LongDst \in 0 .. size /\ LongDst \in Nat /\ size \in Nat
  BY <1>1, LongDstVaut
<1>5. CASE fin' = size /\ bytes' = size + Len(ajout) /\ pas' = "fini"
  <2>1. AjoutFini'
    <3>1. /\ LongDst' = size' /\ zone' = zone0'
          /\ bytes' = LongDst' + Len(ajout')
      BY <1>1, <1>2, <1>3, <1>5
    <3>2. ~(LongDst' < size')
      BY <1>2, <1>4, <3>1
    <3>3. QED
      BY <1>2, <3>1, <3>2 DEF AjoutFini
  <2>2. QED
    BY <1>5, <2>1 DEF AjoutEnCours
<1>6. CASE fin' < size /\ bytes' = fin' /\ pas' = "ajoute"
  <2>1. Ajoutes'
    <3>1. \A h \in LongDst .. fin' - 1 : FALSE
      BY <1>3, <1>4
    <3>2. QED
      BY <1>1, <1>2, <3>1 DEF Ajoutes
  <2>2. lu' \in 0 .. Len(ajout') /\ bytes' = LongDst' + lu'
    <3>1. ajout \in Seq(Caractere)
      BY <1>1 DEF ConcatTypes
    <3>2. Len(ajout) \in Nat
      BY <3>1
    <3>3. lu' = 0 /\ ajout' = ajout /\ bytes' = LongDst /\ LongDst' = LongDst
      BY <1>1, <1>2, <1>3, <1>6
    <3>4. QED
      BY <1>4, <3>2, <3>3
  <2>3. QED
    BY <1>1, <1>2, <1>3, <1>6, <2>1, <2>2 DEF AjoutEnCours
<1>7. QED
  BY <1>1, <1>5, <1>6

LEMMA AjouteSuit == ASSUME AjoutEnCours, Ajoute PROVE AjoutEnCours'
<1>1. /\ pas = "ajoute" /\ ConcatTypes /\ LongDst < size
      /\ lu \in 0 .. Len(ajout) /\ lu < Len(ajout) /\ bytes = LongDst + lu
      /\ fin = IF bytes < size THEN bytes ELSE size - 1
      /\ Ajoutes
      /\ lu' = lu + 1 /\ bytes' = bytes + 1 /\ pas' = "ajoute"
      /\ UNCHANGED <<zone0, ajout, size>>
      /\ IF bytes + 1 < size
         THEN zone' = [zone EXCEPT ![fin] = ajout[lu + 1]] /\ fin' = fin + 1
         ELSE UNCHANGED <<zone, fin>>
  <2>1. pas = "ajoute"
    BY DEF Ajoute
  <2>2. QED
    BY <2>1 DEF Ajoute, AjoutEnCours
<1>2. LongDst' = LongDst
  BY <1>1 DEF LongDst
<1>3. LongDst \in Nat /\ size \in Nat /\ size <= TailleZone
      /\ TailleZone \in Nat
  BY <1>1, LongDstVaut
<1>4. Len(ajout) \in Nat /\ lu \in Nat /\ lu' \in 0 .. Len(ajout')
      /\ bytes' = LongDst' + lu' /\ fin \in 0 .. TailleZone - 1
  <2>1. Len(ajout) \in Nat
    BY <1>1 DEF ConcatTypes
  <2>2. QED
    BY <1>1, <1>2, <1>3, <2>1
<1>5. CASE bytes + 1 < size
  <2>1. fin = LongDst + lu /\ fin' = fin + 1
        /\ fin' = IF bytes' < size' THEN bytes' ELSE size' - 1
    BY <1>1, <1>3, <1>4, <1>5
  <2>2. /\ zone' = [zone EXCEPT ![fin] = ajout[lu + 1]]
        /\ ajout[lu + 1] \in Contenu
        /\ zone \in [0 .. TailleZone - 1 -> Contenu]
    <3>1. ajout[lu + 1] \in Caractere
      BY <1>1, <1>4 DEF ConcatTypes
    <3>2. QED
      BY <1>1, <1>5, <3>1 DEF ConcatTypes, Contenu
  <2>3. /\ zone'[fin] = ajout[lu + 1]
        /\ \A h \in 0 .. TailleZone - 1 : h # fin => zone'[h] = zone[h]
    BY <1>4, <2>2
  <2>4. ConcatTypes'
    BY <1>1, <2>2 DEF ConcatTypes
  <2>5. \A h \in 0 .. TailleZone - 1 :
          h < LongDst \/ h >= fin' => zone'[h] = zone0[h]
    BY <1>1, <1>3, <1>4, <2>1, <2>3 DEF Ajoutes
  <2>6. ASSUME NEW h \in LongDst .. fin' - 1
        PROVE  zone'[h] = ajout[h - LongDst + 1]
    <3>1. CASE h = fin
      <4>1. h - LongDst + 1 = lu + 1
        BY <1>3, <1>4, <2>1, <3>1
      <4>2. QED
        BY <2>3, <3>1, <4>1
    <3>2. CASE h # fin
      <4>1. h \in LongDst .. fin - 1 /\ h \in 0 .. TailleZone - 1
        BY <1>3, <1>4, <2>1, <3>2
      <4>2. QED
        BY <1>1, <2>3, <3>2, <4>1 DEF Ajoutes
    <3>3. QED
      BY <3>1, <3>2
  <2>7. Ajoutes'
    BY <1>1, <1>2, <2>5, <2>6 DEF Ajoutes
  <2>8. QED
    BY <1>1, <1>2, <1>4, <2>1, <2>4, <2>7 DEF AjoutEnCours
<1>6. CASE ~(bytes + 1 < size)
  <2>1. zone' = zone /\ fin' = fin
        /\ fin' = IF bytes' < size' THEN bytes' ELSE size' - 1
    BY <1>1, <1>3, <1>4, <1>6
  <2>2. Ajoutes' /\ ConcatTypes'
    BY <1>1, <1>2, <2>1 DEF Ajoutes, ConcatTypes
  <2>3. QED
    BY <1>1, <1>2, <1>4, <2>1, <2>2 DEF AjoutEnCours
<1>7. QED
  BY <1>5, <1>6

LEMMA TermineDstSuit == ASSUME AjoutEnCours, TermineDst PROVE AjoutEnCours'
<1>1. /\ pas = "ajoute" /\ ConcatTypes /\ LongDst < size
      /\ lu = Len(ajout) /\ bytes = LongDst + lu
      /\ fin = IF bytes < size THEN bytes ELSE size - 1
      /\ Ajoutes
      /\ pas' = "fini"
      /\ UNCHANGED <<zone0, ajout, size, bytes, fin>>
      /\ zone' = [zone EXCEPT ![fin] = Nul]
  <2>1. pas = "ajoute"
    BY DEF TermineDst
  <2>2. QED
    BY <2>1 DEF TermineDst, AjoutEnCours
<1>2. LongDst' = LongDst
  BY <1>1 DEF LongDst
<1>3. LongDst \in Nat /\ size \in Nat /\ size <= TailleZone
      /\ TailleZone \in Nat
  BY <1>1, LongDstVaut
<1>4. Len(ajout) \in Nat /\ fin \in LongDst .. TailleZone - 1
      /\ fin \in 0 .. TailleZone - 1
  <2>1. Len(ajout) \in Nat
    BY <1>1 DEF ConcatTypes
  <2>2. QED
    BY <1>1, <1>3, <2>1
<1>5. /\ zone \in [0 .. TailleZone - 1 -> Contenu] /\ Nul \in Contenu
  BY <1>1 DEF ConcatTypes, Contenu
<1>6. /\ zone'[fin] = Nul
      /\ \A h \in 0 .. TailleZone - 1 : h # fin => zone'[h] = zone[h]
  BY <1>1, <1>4, <1>5
<1>7. ConcatTypes'
  BY <1>1, <1>5 DEF ConcatTypes
<1>8. \A h \in 0 .. TailleZone - 1 :
        h < LongDst \/ h > fin => zone'[h] = zone0[h]
  BY <1>1, <1>3, <1>4, <1>6 DEF Ajoutes
<1>9. ASSUME NEW h \in LongDst .. fin - 1
      PROVE  zone'[h] = ajout[h - LongDst + 1]
  <2>1. h # fin /\ h \in 0 .. TailleZone - 1
    BY <1>3, <1>4
  <2>2. QED
    BY <1>1, <1>6, <2>1 DEF Ajoutes
<1>10. AjoutFini'
  <2>1. /\ zone0' = zone0 /\ ajout' = ajout /\ size' = size
        /\ bytes' = bytes /\ fin' = fin
    BY <1>1
  <2>2. /\ LongDst' # size'
        /\ fin' = IF bytes' < size' THEN bytes' ELSE size' - 1
        /\ bytes' = LongDst' + Len(ajout')
    BY <1>1, <1>2, <1>3, <2>1
  <2>3. zone'[fin'] = Nul
    BY <1>6, <2>1
  <2>4. /\ \A h \in 0 .. TailleZone - 1 :
             h < LongDst' \/ h > fin' => zone'[h] = zone0'[h]
        /\ \A h \in LongDst' .. fin' - 1 :
             zone'[h] = ajout'[h - LongDst' + 1]
    BY <1>2, <1>8, <1>9, <2>1
  <2>5. QED
    BY <1>7, <2>2, <2>3, <2>4 DEF AjoutFini
<1>11. QED
  BY <1>1, <1>10 DEF AjoutEnCours

\* strtok does not come into it.
LEMMA AjoutInductif == ASSUME AjoutEnCours, [NextC]_varsC PROVE AjoutEnCours'
<1>1. CASE UNCHANGED varsC
  <2>1. UNCHANGED <<zone, zone0, ajout, size, bytes, lu, fin, pas>>
    BY <1>1 DEF varsC
  <2>2. LongDst' = LongDst
    BY <2>1 DEF LongDst
  <2>3. ConcatTypes' = ConcatTypes /\ Ajoutes' = Ajoutes
    BY <2>1, <2>2 DEF ConcatTypes, Ajoutes
  <2>4. AjoutFini' = AjoutFini
    BY <2>1, <2>2, <2>3 DEF AjoutFini
  <2>5. QED
    BY <2>1, <2>2, <2>3, <2>4 DEF AjoutEnCours
<1>2. CASE PremierAppel \/ AppelSuivant
  <2>1. pas' \in {"strtok", "epuise"}
    BY <1>2 DEF PremierAppel, AppelSuivant
  <2>2. QED
    BY <2>1 DEF AjoutEnCours
<1>3. QED
  BY <1>1, <1>2, FinDeDstSuit, AjouteSuit, TermineDstSuit DEF NextC

\* strlcat appends what fits, ends the string, and writes nothing else, for
\* every size and every pair of strings.
THEOREM AjoutBorneTheoreme == SpecC => []AjoutBorne
<1>1. AjoutEnCours => AjoutBorne
  <2>1. CASE pas = "fini"
    BY <2>1, AjoutFiniBorne DEF AjoutEnCours
  <2>2. CASE pas # "fini"
    BY <2>2 DEF AjoutBorne
  <2>3. QED
    BY <2>1, <2>2
<1>2. QED
  BY <1>1, ChainesInitiale, AjoutInductif, PTL DEF SpecC

\* The place that strsep cuts at: the first delimiter, or the end.
LEMMA SpanVaut ==
  ASSUME zone \in [0 .. TailleZone - 1 -> Contenu],
         zone[TailleZone - 1] = Nul, NEW a \in 0 .. TailleZone - 1
  PROVE  /\ Span(a) \in a .. TailleZone - 1
         /\ zone[Span(a)] \in Delimiteurs \cup {Nul}
         /\ \A h \in a .. Span(a) - 1 : zone[h] \in Corps
<1> DEFINE arrets == {i \in a .. TailleZone - 1 :
                        zone[i] \in Delimiteurs \cup {Nul}}
           Arret(i) == /\ zone[i] \in Delimiteurs \cup {Nul}
                       /\ \A h \in a .. i - 1 : zone[h] \in Corps
<1>1. TailleZone \in Nat /\ a \in Nat
  BY ChainesOK
<1>2. TailleZone - 1 \in arrets /\ arrets \subseteq Nat
  BY <1>1
<1>3. PICK v \in arrets : \A i \in arrets : v <= i
  <2> HIDE DEF arrets
  <2>1. QED
    BY <1>2, PlusPetit
<1>4. v \in a .. TailleZone - 1 /\ zone[v] \in Delimiteurs \cup {Nul}
  BY <1>3
<1>5. ASSUME NEW h \in a .. v - 1 PROVE zone[h] \in Corps
  <2>1. h \in a .. TailleZone - 1 /\ h \in 0 .. TailleZone - 1 /\ ~(v <= h)
    BY <1>1, <1>4
  <2>2. h \notin arrets
    BY <1>3, <2>1
  <2>3. zone[h] \notin Delimiteurs \cup {Nul}
    BY <2>1, <2>2
  <2>4. zone[h] \in Contenu
    BY <2>1
  <2>5. QED
    BY <2>3, <2>4 DEF Contenu, Caractere
<1>6. Arret(v)
  BY <1>4, <1>5
<1>7. Span(a) = CHOOSE i \in a .. TailleZone - 1 : Arret(i)
  BY DEF Span
<1> HIDE DEF Arret
<1>8. Span(a) \in a .. TailleZone - 1 /\ Arret(Span(a))
  BY <1>4, <1>6, <1>7
<1>9. QED
  BY <1>8 DEF Arret

LEMMA FinChaineVaut ==
  ASSUME zone0[TailleZone - 1] = Nul
  PROVE  /\ FinChaine \in 0 .. TailleZone - 1 /\ zone0[FinChaine] = Nul
         /\ \A h \in 0 .. FinChaine - 1 : zone0[h] # Nul
         /\ TailleZone \in Nat
<1>1. TailleZone \in Nat \ {0} /\ 0 \in Nat /\ 0 <= TailleZone
  BY ChainesOK
<1>2. /\ FinChaine \in 0 .. TailleZone
      /\ \A h \in 0 .. FinChaine - 1 : zone0[h] # Nul
      /\ FinChaine < TailleZone => zone0[FinChaine] = Nul
  BY <1>1, TerminaisonVaut DEF FinChaine
<1>3. FinChaine # TailleZone
  BY <1>1, <1>2
<1>4. QED
  BY <1>1, <1>2, <1>3

\* One call of strtok that returns the word at a.
LEMMA CoupeSuit ==
  ASSUME DecoupeEnCours, pas = "strtok", pas' = "strtok", zone0' = zone0,
         NEW a \in Nat, a <= FinChaine,
         mots = <<>> => a = 0, mots # <<>> => a = holder /\ holder # Null,
         \A h \in a .. TailleZone - 1 : zone[h] = zone0[h],
         Coupe(a)
  PROVE  DecoupeEnCours'
<1> DEFINE s == Span(a)
           e == FinChaine
           N == Len(mots)
<1>1. /\ zone \in [0 .. TailleZone - 1 -> Contenu]
      /\ zone0 \in [0 .. TailleZone - 1 -> Contenu]
      /\ zone0[TailleZone - 1] = Nul
      /\ mots \in Seq(Nat)
      /\ mots # <<>> =>
           /\ mots[1] = 0
           /\ \A i \in DOMAIN mots : MotCoupe(i)
           /\ \A i \in DOMAIN mots : FinMot(i) < holder
  BY DEF DecoupeEnCours
<1>2. /\ e \in 0 .. TailleZone - 1 /\ zone0[e] = Nul
      /\ \A h \in 0 .. e - 1 : zone0[h] # Nul
      /\ TailleZone \in Nat
  BY <1>1, FinChaineVaut
<1>3. FinChaine' = e
  BY DEF FinChaine
<1> HIDE DEF e
<1>4. a <= e /\ a \in 0 .. TailleZone - 1 /\ e \in Nat
  BY <1>2 DEF e
<1>5. zone[TailleZone - 1] = Nul
  <2>1. TailleZone - 1 \in a .. TailleZone - 1
    BY <1>2, <1>4
  <2>2. QED
    BY <1>1, <2>1
<1>6. /\ s \in a .. TailleZone - 1
      /\ zone[s] \in Delimiteurs \cup {Nul}
      /\ \A h \in a .. s - 1 : zone[h] \in Corps
  BY <1>1, <1>4, <1>5, SpanVaut
<1>7. /\ mots' = Append(mots, a)
      /\ \/ zone[s] = Nul /\ holder' = Null /\ zone' = zone
         \/ /\ zone[s] # Nul /\ zone' = [zone EXCEPT ![s] = Nul]
            /\ holder' = s + 1
  BY DEF Coupe
<1> HIDE DEF s
<1>8. s \in Nat /\ s < TailleZone /\ a <= s
  BY <1>2, <1>6
<1>9. s <= e
  <2>1. SUFFICES ASSUME e < s PROVE FALSE
    BY <1>4, <1>8
  <2>2. e \in a .. s - 1 /\ e \in a .. TailleZone - 1
    BY <1>2, <1>4, <1>8, <2>1
  <2>3. zone[e] \in Corps /\ zone[e] = Nul
    BY <1>2, <1>6, <2>2
  <2>4. QED
    BY <2>3, ChainesOK
<1>10. zone[s] = zone0[s]
  BY <1>6
<1>11. zone[s] = Nul => s = e
  <2>1. s < e => s \in 0 .. e - 1
    BY <1>4, <1>8
  <2>2. QED
    BY <1>2, <1>4, <1>8, <1>9, <1>10, <2>1
<1>12. zone[s] # Nul => s < e
  BY <1>2, <1>4, <1>8, <1>9, <1>10
<1>13. /\ zone' \in [0 .. TailleZone - 1 -> Contenu]
       /\ zone'[s] = Nul
       /\ \A h \in 0 .. TailleZone - 1 : h # s => zone'[h] = zone[h]
  <2>1. Nul \in Contenu /\ s \in 0 .. TailleZone - 1
    BY <1>2, <1>8 DEF Contenu
  <2>2. QED
    BY <1>1, <1>7, <2>1
<1>14. PICK c \in Nat : c = Len(mots)
  BY <1>1
<1>15. /\ mots' \in Seq(Nat) /\ Len(mots') = c + 1
       /\ DOMAIN mots' = 1 .. c + 1 /\ DOMAIN mots = 1 .. c
       /\ mots'[c + 1] = a /\ \A i \in 1 .. c : mots'[i] = mots[i]
       /\ mots' # <<>>
  BY <1>1, <1>7, <1>14
<1>16. c > 0 => mots # <<>>
  BY <1>14
<1>17. \/ holder' = Null
       \/ holder' = s + 1 /\ holder' # Null /\ s < e
  <2>1. holder' = Null \/ (zone[s] # Nul /\ holder' = s + 1)
    BY <1>7
  <2>2. s + 1 # Null
    BY <1>8 DEF Null
  <2>3. QED
    BY <1>12, <2>1, <2>2
<1>18. FinMot(c + 1)' = s
  <2>1. FinMot(c + 1)' = IF c + 1 < Len(mots') THEN mots'[(c + 1) + 1] - 1
                         ELSE IF holder' = Null THEN FinChaine'
                         ELSE holder' - 1
    BY DEF FinMot
  <2>2. holder' = Null => s = e
    BY <1>7, <1>8, <1>11 DEF Null
  <2>3. FinMot(c + 1)' = IF holder' = Null THEN e ELSE holder' - 1
    BY <1>3, <1>15, <2>1
  <2>4. QED
    BY <1>8, <1>17, <2>2, <2>3
<1>19. ASSUME NEW i \in 1 .. c
       PROVE  FinMot(i)' = FinMot(i) /\ FinMot(i) < a /\ FinMot(i) \in Int
  <2>1. a = holder /\ holder # Null /\ FinMot(i) < a
    BY <1>1, <1>15, <1>16
  <2>2. CASE i < c
    <3>1. i + 1 \in 1 .. c /\ i < Len(mots) /\ i < Len(mots')
      BY <1>14, <1>15, <2>2
    <3>2. FinMot(i) = mots[i + 1] - 1
      BY <3>1 DEF FinMot
    <3>3. FinMot(i)' = mots'[i + 1] - 1
      BY <3>1 DEF FinMot
    <3>4. mots'[i + 1] = mots[i + 1] /\ mots[i + 1] \in Nat
      BY <1>1, <1>15, <3>1
    <3>5. QED
      BY <2>1, <3>2, <3>3, <3>4
  <2>3. CASE i = c
    <3>1. ~(i < Len(mots)) /\ i < Len(mots')
      BY <1>14, <1>15, <2>3
    <3>2. FinMot(i) = holder - 1
      BY <2>1, <3>1 DEF FinMot
    <3>3. FinMot(i)' = mots'[i + 1] - 1
      BY <3>1 DEF FinMot
    <3>4. mots'[i + 1] = a
      BY <1>15, <2>3
    <3>5. QED
      BY <2>1, <3>2, <3>3, <3>4
  <2>4. QED
    BY <2>2, <2>3
<1>20. ASSUME NEW i \in 1 .. c PROVE MotCoupe(i)'
  <2>1. /\ mots[i] \in 0 .. FinMot(i) /\ FinMot(i) <= e
        /\ zone[FinMot(i)] = Nul
        /\ \A h \in mots[i] .. FinMot(i) - 1 :
             zone[h] = zone0[h] /\ zone[h] \in Corps
    <3>1. MotCoupe(i)
      BY <1>1, <1>15, <1>16
    <3>2. QED
      BY <3>1 DEF MotCoupe, e
  <2>2. mots'[i] = mots[i] /\ FinMot(i)' = FinMot(i) /\ FinMot(i) < a
    BY <1>15, <1>19
  <2>3. PICK f \in Nat, b \in Nat : f = FinMot(i) /\ b = mots[i]
    <3>1. mots[i] \in Nat
      BY <1>1, <1>15
    <3>2. FinMot(i) \in Nat
      BY <1>19, <2>1, <3>1
    <3>3. QED
      BY <3>1, <3>2
  <2>4. zone'[f] = Nul
    <3>1. f \in 0 .. TailleZone - 1 /\ f # s
      BY <1>2, <1>4, <1>8, <2>2, <2>3
    <3>2. QED
      BY <1>13, <2>1, <2>3, <3>1
  <2>5. ASSUME NEW h \in b .. f - 1
        PROVE  zone'[h] = zone0[h] /\ zone'[h] \in Corps
    <3>1. h \in 0 .. TailleZone - 1 /\ h # s
      BY <1>2, <1>4, <1>8, <2>2, <2>3
    <3>2. zone[h] = zone0[h] /\ zone[h] \in Corps
      BY <2>1, <2>3
    <3>3. QED
      BY <1>13, <3>1, <3>2
  <2>6. mots'[i] = b /\ FinMot(i)' = f /\ b \in 0 .. f /\ f <= e
    BY <2>1, <2>2, <2>3
  <2>7. QED
    BY <1>3, <2>4, <2>5, <2>6 DEF MotCoupe
<1>21. MotCoupe(c + 1)'
  <2>1. PICK f \in Nat : f = s
    BY <1>8
  <2>2. ASSUME NEW h \in a .. f - 1
        PROVE  zone'[h] = zone0[h] /\ zone'[h] \in Corps
    <3>1. h \in 0 .. TailleZone - 1 /\ h # s /\ h \in a .. s - 1
          /\ h \in a .. TailleZone - 1
      BY <1>2, <1>4, <1>8, <2>1
    <3>2. QED
      BY <1>6, <1>13, <3>1
  <2>3. mots'[c + 1] = a /\ FinMot(c + 1)' = f /\ a \in 0 .. f /\ f <= e
    BY <1>8, <1>9, <1>15, <1>18, <2>1
  <2>4. zone'[f] = Nul
    BY <1>13, <2>1
  <2>5. QED
    BY <1>3, <2>2, <2>3, <2>4 DEF MotCoupe
<1>22. mots'[1] = 0
  <2>1. CASE c = 0
    BY <1>14, <1>15, <2>1
  <2>2. CASE c > 0
    BY <1>1, <1>15, <1>16, <2>2
  <2>3. QED
    BY <2>1, <2>2
<1>23. \A i \in DOMAIN mots' : MotCoupe(i)'
  <2>1. SUFFICES ASSUME NEW i \in 1 .. c + 1 PROVE MotCoupe(i)'
    BY <1>15
  <2>2. i \in 1 .. c \/ i = c + 1
    OBVIOUS
  <2>3. QED
    BY <1>20, <1>21, <2>2
<1>24. ASSUME holder' # Null
       PROVE  /\ holder' \in 1 .. FinChaine'
              /\ \A h \in holder' .. TailleZone - 1 : zone'[h] = zone0'[h]
              /\ \A i \in DOMAIN mots' : FinMot(i)' < holder'
  <2>1. holder' = s + 1 /\ s < e
    BY <1>17, <1>24
  <2>2. holder' \in 1 .. FinChaine'
    BY <1>3, <1>4, <1>8, <2>1
  <2>3. ASSUME NEW h \in holder' .. TailleZone - 1 PROVE zone'[h] = zone0'[h]
    <3>1. h \in a .. TailleZone - 1 /\ h # s /\ h \in 0 .. TailleZone - 1
      BY <1>2, <1>4, <1>8, <2>1
    <3>2. QED
      BY <1>13, <3>1
  <2>4. ASSUME NEW i \in 1 .. c + 1 PROVE FinMot(i)' < holder'
    <3>1. CASE i = c + 1
      BY <1>8, <1>18, <2>1, <3>1
    <3>2. CASE i \in 1 .. c
      <4>1. PICK v \in Int : v = FinMot(i)
        BY <1>19, <3>2
      <4>2. QED
        BY <1>8, <1>19, <2>1, <3>2, <4>1
    <3>3. QED
      BY <3>1, <3>2
  <2>5. QED
    BY <1>15, <2>2, <2>3, <2>4
<1>25. QED
  BY <1>1, <1>13, <1>15, <1>22, <1>23, <1>24 DEF DecoupeEnCours

LEMMA PremierAppelSuit ==
  ASSUME DecoupeEnCours, PremierAppel PROVE DecoupeEnCours'
<1>1. /\ pas = "strtok" /\ pas' = "strtok" /\ mots = <<>> /\ Coupe(0)
      /\ zone0' = zone0
  BY DEF PremierAppel
<1>2. zone = zone0 /\ zone0[TailleZone - 1] = Nul
  BY <1>1 DEF DecoupeEnCours
<1>3. FinChaine \in Nat
  BY <1>2, FinChaineVaut
<1>4. PICK a \in Nat : a = 0
  OBVIOUS
<1>5. a <= FinChaine /\ Coupe(a)
  BY <1>1, <1>3, <1>4
<1>6. \A h \in a .. TailleZone - 1 : zone[h] = zone0[h]
  BY <1>2
<1>7. QED
  BY <1>1, <1>4, <1>5, <1>6, CoupeSuit

LEMMA AppelSuivantSuit ==
  ASSUME DecoupeEnCours, AppelSuivant PROVE DecoupeEnCours'
<1>1. /\ pas = "strtok" /\ mots # <<>> /\ zone0' = zone0
      /\ IF holder = Null
         THEN pas' = "epuise" /\ UNCHANGED <<zone, holder, mots>>
         ELSE Coupe(holder) /\ UNCHANGED pas
  BY DEF AppelSuivant
<1>2. CASE holder = Null
  <2>1. pas' = "epuise" /\ zone' = zone /\ holder' = holder /\ mots' = mots
    BY <1>1, <1>2
  <2>2. FinChaine' = FinChaine
    BY <1>1 DEF FinChaine
  <2>3. \A i : MotCoupe(i)' <=> MotCoupe(i)
    BY <1>1, <2>1, <2>2 DEF MotCoupe, FinMot
  <2>4. \A i : FinMot(i)' = FinMot(i)
    BY <2>1, <2>2 DEF FinMot
  <2>5. QED
    BY <1>1, <1>2, <2>1, <2>2, <2>3, <2>4 DEF DecoupeEnCours
<1>3. CASE holder # Null
  <2>1. /\ zone0[TailleZone - 1] = Nul /\ holder \in 1 .. FinChaine
        /\ \A h \in holder .. TailleZone - 1 : zone[h] = zone0[h]
    BY <1>1, <1>3 DEF DecoupeEnCours
  <2>2. FinChaine \in Nat
    BY <2>1, FinChaineVaut
  <2>3. PICK a \in Nat : a = holder
    BY <2>1, <2>2
  <2>4. Coupe(a) /\ pas' = "strtok"
    BY <1>1, <1>3, <2>3
  <2>5. a <= FinChaine /\ \A h \in a .. TailleZone - 1 : zone[h] = zone0[h]
    BY <2>1, <2>2, <2>3
  <2>6. QED
    BY <1>1, <1>3, <2>3, <2>4, <2>5, CoupeSuit
<1>4. QED
  BY <1>2, <1>3

\* strlcat does not come into it.
LEMMA DecoupeInductive ==
  ASSUME DecoupeEnCours, [NextC]_varsC PROVE DecoupeEnCours'
<1>1. CASE UNCHANGED varsC
  <2>1. UNCHANGED <<zone, zone0, holder, mots, pas>>
    BY <1>1 DEF varsC
  <2>2. FinChaine' = FinChaine
    BY <2>1 DEF FinChaine
  <2>3. \A i : MotCoupe(i)' <=> MotCoupe(i)
    BY <2>1, <2>2 DEF MotCoupe, FinMot
  <2>4. \A i : FinMot(i)' = FinMot(i)
    BY <2>1, <2>2 DEF FinMot
  <2>5. QED
    BY <2>1, <2>2, <2>3, <2>4 DEF DecoupeEnCours
<1>2. CASE FinDeDst \/ Ajoute \/ TermineDst
  <2>1. pas' \in {"ajoute", "fini"}
    BY <1>2 DEF FinDeDst, Ajoute, TermineDst
  <2>2. QED
    BY <2>1 DEF DecoupeEnCours
<1>3. QED
  BY <1>1, <1>2, PremierAppelSuit, AppelSuivantSuit DEF NextC

\* The word i of a string that is used up ends where FinMot says.
LEMMA MotVaut ==
  ASSUME DecoupeEnCours, pas = "epuise", NEW i \in DOMAIN mots
  PROVE  mots[i] + Len(Chaine(zone, mots[i], TailleZone)) = FinMot(i)
<1>1. /\ zone \in [0 .. TailleZone - 1 -> Contenu]
      /\ zone0[TailleZone - 1] = Nul /\ mots \in Seq(Nat) /\ MotCoupe(i)
      /\ holder = Null /\ mots # <<>>
  BY DEF DecoupeEnCours
<1>2. FinChaine \in 0 .. TailleZone - 1 /\ TailleZone \in Nat
  BY <1>1, FinChaineVaut
<1>3. FinMot(i) \in Int
  <2>1. i \in 1 .. Len(mots)
    BY <1>1
  <2>2. i < Len(mots) => mots[i + 1] \in Nat
    BY <1>1, <2>1
  <2>3. QED
    BY <1>1, <1>2, <2>2 DEF FinMot
<1>4. PICK a \in Nat : a = mots[i]
  BY <1>1
<1>5. PICK f \in Nat : f = FinMot(i) /\ f \in a .. TailleZone - 1
  BY <1>1, <1>2, <1>3, <1>4 DEF MotCoupe
<1>6. zone[f] = Nul /\ \A h \in a .. f - 1 : zone[h] # Nul
  BY <1>1, <1>4, <1>5, ChainesOK DEF MotCoupe
<1>7. a <= TailleZone /\ TailleZone \in 0 .. TailleZone
  BY <1>2, <1>5
<1>8. Terminaison(zone, a, TailleZone) = f
  BY <1>2, <1>5, <1>6, <1>7, TerminaisonEst
<1>9. Len(Chaine(zone, a, TailleZone)) = f - a
  BY <1>1, <1>7, <1>8, ChaineVaut
<1>10. QED
  BY <1>4, <1>5, <1>9

\* strtok loses, splits and repeats nothing, for every string of a zone of any
\* size and every set of delimiters.
THEOREM MotsExactsTheoreme == SpecC => []MotsExacts
<1>1. DecoupeEnCours => MotsExacts
  <2> SUFFICES ASSUME DecoupeEnCours, pas = "epuise" PROVE MotsExacts
    BY DEF MotsExacts
  <2> DEFINE finMot(i) == mots[i] + Len(Chaine(zone, mots[i], TailleZone))
  <2>1. /\ zone0[TailleZone - 1] = Nul /\ mots \in Seq(Nat)
        /\ mots # <<>> /\ mots[1] = 0 /\ holder = Null
        /\ \A i \in DOMAIN mots : MotCoupe(i)
    BY DEF DecoupeEnCours
  <2>2. \A i \in DOMAIN mots : finMot(i) = FinMot(i)
    BY MotVaut
  <2> HIDE DEF finMot
  <2>3. DOMAIN mots = 1 .. Len(mots) /\ Len(mots) \in Nat \ {0}
    BY <2>1
  <2>4. ASSUME NEW i \in 1 .. Len(mots) - 1
        PROVE  mots[i + 1] = finMot(i) + 1
    <3>1. i \in DOMAIN mots /\ i < Len(mots) /\ i + 1 \in 1 .. Len(mots)
      BY <2>3
    <3>2. mots[i + 1] \in Nat
      BY <2>1, <3>1
    <3>3. QED
      BY <2>2, <3>1, <3>2 DEF FinMot
  <2>5. finMot(Len(mots)) = Terminaison(zone0, 0, TailleZone)
    <3>1. Len(mots) \in DOMAIN mots /\ ~(Len(mots) < Len(mots))
      BY <2>3
    <3>2. QED
      BY <2>1, <2>2, <3>1 DEF FinMot, FinChaine
  <2>6. ASSUME NEW i \in DOMAIN mots, NEW h \in mots[i] .. finMot(i) - 1
        PROVE  zone[h] = zone0[h] /\ zone[h] \in Corps
    BY <2>1, <2>2, <2>6 DEF MotCoupe
  <2>7. QED
    BY <2>1, <2>4, <2>5, <2>6 DEF MotsExacts, finMot
<1>2. QED
  BY <1>1, ChainesInitiale, DecoupeInductive, PTL DEF SpecC

-----------------------------------------------------------------------------
(* strtoul reads back what the conversions print.                          *)

\* A character repeated.
LEMMA FoisVaut ==
  ASSUME NEW S, NEW c \in S, NEW v \in Int
  PROVE  /\ Fois(v, c) \in Seq(S) /\ Len(Fois(v, c)) = Positif(v)
         /\ \A i \in 1 .. Len(Fois(v, c)) : Fois(v, c)[i] = c
<1>1. Positif(v) \in Nat
  BY DEF Positif
<1>2. QED
  BY <1>1, Repetition DEF Fois

\* There is one place where a loop behind C stops.
LEMMA MarcheVaut ==
  ASSUME NEW s, NEW C, Len(s) \in Nat, NEW h \in 0 .. Len(s),
         \A i \in 1 .. h : s[i] \in C,
         h = Len(s) \/ s[h + 1] \notin C
  PROVE  Marche(s, C) = h
<1> DEFINE Arrete(v) == /\ \A i \in 1 .. v : s[i] \in C
                        /\ v = Len(s) \/ s[v + 1] \notin C
           w == CHOOSE v \in 0 .. Len(s) : Arrete(v)
<1>1. Marche(s, C) = w
  BY DEF Marche
<1>2. w \in 0 .. Len(s) /\ Arrete(w)
  <2>1. Arrete(h)
    OBVIOUS
  <2> HIDE DEF Arrete
  <2>2. QED
    BY <2>1
<1> HIDE DEF w
<1>3. ~(w < h)
  <2>1. SUFFICES ASSUME w < h PROVE FALSE
    OBVIOUS
  <2>2. w # Len(s) /\ w + 1 \in 1 .. h
    BY <1>2, <2>1
  <2>3. QED
    BY <1>2, <2>2
<1>4. ~(h < w)
  <2>1. SUFFICES ASSUME h < w PROVE FALSE
    OBVIOUS
  <2>2. h # Len(s) /\ h + 1 \in 1 .. w
    BY <1>2, <2>1
  <2>3. QED
    BY <1>2, <2>2
<1>5. QED
  BY <1>1, <1>2, <1>3, <1>4

\* The values that strtoul goes through are the only ones that obey its loop.
LEMMA LectureVaut ==
  ASSUME NEW s, NEW b, NEW fait \in Nat, NEW g,
         g = [i \in 0 .. fait |->
                IF i = 0 THEN 0
                ELSE (g[i - 1] * b + Valeur(s[i])) % NbLongs]
  PROVE  Lecture(s, b, fait) = g[fait]
<1> DEFINE Tour(v, i) == IF i = 0 THEN 0
                         ELSE (v[i - 1] * b + Valeur(s[i])) % NbLongs
           Boucle(v) == v = [i \in 0 .. fait |-> Tour(v, i)]
           f == CHOOSE v : Boucle(v)
<1>1. Lecture(s, b, fait) = f[fait]
  BY DEF Lecture
<1>2. Boucle(f) /\ Boucle(g)
  <2>1. Boucle(g)
    OBVIOUS
  <2> HIDE DEF Boucle
  <2>2. QED
    BY <2>1
<1>3. \A i \in 0 .. fait : f[i] = Tour(f, i) /\ g[i] = Tour(g, i)
  <2> HIDE DEF f, Tour
  <2>1. QED
    BY <1>2
<1> HIDE DEF f, Boucle
<1> DEFINE ecarts == {i \in 0 .. fait : f[i] # g[i]}
<1>4. ecarts = {}
  <2>1. SUFFICES ASSUME ecarts # {} PROVE FALSE
    OBVIOUS
  <2>2. PICK v \in ecarts : \A i \in ecarts : v <= i
    <3>1. ecarts \subseteq Nat
      OBVIOUS
    <3> HIDE DEF ecarts
    <3>2. QED
      BY <2>1, <3>1, PlusPetit
  <2>3. v \in 0 .. fait /\ f[v] # g[v]
    OBVIOUS
  <2>4. f[v] = Tour(f, v) /\ g[v] = Tour(g, v)
    BY <1>3, <2>3
  <2>5. v # 0
    BY <2>3, <2>4
  <2>6. v - 1 \in 0 .. fait /\ ~(v <= v - 1)
    BY <2>3, <2>5
  <2>7. f[v - 1] = g[v - 1]
    BY <2>2, <2>6
  <2>8. QED
    BY <2>3, <2>4, <2>7
<1>5. fait \in 0 .. fait
  OBVIOUS
<1>6. f[fait] = g[fait]
  BY <1>4, <1>5
<1>7. QED
  BY <1>1, <1>6

LEMMA ChiffresDistincts ==
  /\ DOMAIN Chiffres = 1 .. 16
  /\ \A i, h \in 1 .. 16 : Chiffres[i] = Chiffres[h] => i = h
<1>1. DOMAIN Chiffres = 1 .. 16
  BY DEF Chiffres
<1>2. \A i, h \in 1 .. 16 : Chiffres[i] = Chiffres[h] => i = h
  BY DEF Chiffres
<1>3. QED
  BY <1>1, <1>2

LEMMA ValeurVaut ==
  ASSUME NEW d \in 0 .. 15
  PROVE  Valeur(Chiffres[d + 1]) = d
<1>1. d + 1 \in 1 .. 16
  OBVIOUS
<1> DEFINE w == CHOOSE i \in DOMAIN Chiffres : Chiffres[i] = Chiffres[d + 1]
<1>2. w \in 1 .. 16 /\ Chiffres[w] = Chiffres[d + 1]
  BY <1>1, ChiffresDistincts
<1>3. Valeur(Chiffres[d + 1]) = w - 1
  BY DEF Valeur
<1> HIDE DEF w
<1>4. w = d + 1
  BY <1>1, <1>2, ChiffresDistincts
<1>5. QED
  BY <1>3, <1>4

\* Neither a blank nor the x of a prefix is a digit; 0 is one.
LEMMA PasUnChiffre ==
  ASSUME NEW b \in {8, 10, 16}
  PROVE  /\ Espace \notin ChiffresDe(b) /\ "x" \notin ChiffresDe(b)
         /\ "0" \in ChiffresDe(b) /\ Espace # "0" /\ Espace # "x"
         /\ Valeur("0") = 0
         /\ \A i \in 1 .. b : Chiffres[i] \in ChiffresDe(b)
<1>1. \A i \in 1 .. 16 : Chiffres[i] # Espace /\ Chiffres[i] # "x"
  BY DEF Chiffres, Espace
<1>2. Chiffres[1] = "0"
  BY DEF Chiffres
<1>3. Valeur("0") = 0
  <2>1. Valeur(Chiffres[0 + 1]) = 0
    BY ValeurVaut
  <2>2. QED
    BY <1>2, <2>1
<1>4. \A i \in 1 .. b : i \in 1 .. 16
  OBVIOUS
<1>5. QED
  BY <1>1, <1>2, <1>3, <1>4 DEF ChiffresDe, Espace

LEMMA ResteDuPetit ==
  ASSUME NEW w \in Nat \ {0}, NEW e \in 0 .. w - 1
  PROVE  e % w = e
<1>1. e = 0 * w + e /\ 0 \in Int /\ e \in Int
  OBVIOUS
<1>2. QED
  BY <1>1, DivisionUnique

\* z zeros, then c digits: the remainders of the quotients of g[c] by b.
Lisible(s, b, z, c, g) ==
  /\ b \in {8, 10, 16}
  /\ Len(s) \in Nat /\ z \in Nat /\ c \in Nat /\ z + c <= Len(s)
  /\ g \in [0 .. c -> Nat] /\ g[0] = 0
  /\ \A i \in 0 .. c : g[i] < NbLongs
  /\ \A i \in 1 .. c : /\ g[i - 1] = g[i] \div b
                     /\ s[z + i] = Chiffres[(g[i] % b) + 1]
  /\ \A i \in 1 .. z : s[i] = "0"
  /\ z + c = Len(s) \/ s[z + c + 1] = Espace

\* The loop of strtoul goes through the quotients of print_num, backwards.
LEMMA LectureChiffres ==
  ASSUME NEW s, NEW b, NEW z, NEW c, NEW g, Lisible(s, b, z, c, g)
  PROVE  Lecture(s, b, Marche(s, ChiffresDe(b))) = g[c]
<1> USE DEF Lisible
<1>1. Marche(s, ChiffresDe(b)) = z + c
  <2>1. ASSUME NEW i \in 1 .. z + c
        PROVE  s[i] \in ChiffresDe(b)
    <3>1. CASE i \in 1 .. z
      BY <3>1, PasUnChiffre
    <3>2. CASE i \notin 1 .. z
      <4>1. PICK h \in 1 .. c : i = z + h
        <5>1. i - z \in 1 .. c /\ i = z + (i - z)
          BY <3>2
        <5>2. QED
          BY <5>1
      <4>2. PICK e \in Nat : e = g[h]
        OBVIOUS
      <4>3. (e % b) + 1 \in 1 .. b
        OBVIOUS
      <4>4. s[i] = Chiffres[(e % b) + 1]
        BY <4>1, <4>2
      <4>5. QED
        BY <4>3, <4>4, PasUnChiffre
    <3>3. QED
      BY <3>1, <3>2
  <2>2. z + c \in 0 .. Len(s)
    OBVIOUS
  <2>3. z + c = Len(s) \/ s[z + c + 1] \notin ChiffresDe(b)
    BY PasUnChiffre
  <2>4. QED
    BY <2>1, <2>2, <2>3, MarcheVaut
<1> DEFINE f == [i \in 0 .. z + c |-> IF i <= z THEN 0 ELSE g[i - z]]
           Tour(i) == IF i = 0 THEN 0
                      ELSE (f[i - 1] * b + Valeur(s[i])) % NbLongs
<1>2. ASSUME NEW i \in 0 .. z + c
      PROVE  f[i] = Tour(i)
  <2>1. CASE i = 0
    BY <2>1
  <2>2. CASE i \in 1 .. z
    <3>1. f[i] = 0 /\ f[i - 1] = 0 /\ i # 0
      BY <2>2
    <3>2. Valeur(s[i]) = 0
      BY <2>2, PasUnChiffre
    <3> HIDE DEF f
    <3>3. (0 * b + 0) % NbLongs = 0
      BY LongsOK
    <3>4. QED
      BY <3>1, <3>2, <3>3
  <2>3. CASE i \in z + 1 .. z + c
    <3>1. PICK h \in 1 .. c : i = z + h
      <4>1. i - z \in 1 .. c /\ i = z + (i - z)
        BY <2>3
      <4>2. QED
        BY <4>1
    <3>2. PICK e \in Nat : e = g[h]
      OBVIOUS
    <3>3. e < NbLongs
      BY <3>2
    <3>4. f[i] = e
      BY <3>1, <3>2
    <3>5. f[i - 1] = e \div b
      <4>1. g[h - 1] = e \div b
        BY <3>2
      <4>2. CASE h = 1
        BY <3>1, <4>1, <4>2
      <4>3. CASE h # 1
        <5>1. ~(i - 1 <= z) /\ i - 1 - z = h - 1 /\ i - 1 \in 0 .. z + c
          BY <3>1, <4>3
        <5>2. QED
          BY <4>1, <5>1
      <4>4. QED
        BY <4>2, <4>3
    <3>6. PICK d \in 0 .. 15 : d = e % b
      <4>1. e % b \in 0 .. 15
        OBVIOUS
      <4>2. QED
        BY <4>1
    <3>7. s[i] = Chiffres[d + 1]
      BY <3>1, <3>2, <3>6
    <3>8. Valeur(s[i]) = d
      BY <3>7, ValeurVaut
    <3>9. (e \div b) * b + d = e
      BY <3>6
    <3>10. e % NbLongs = e
      <4>1. NbLongs \in Nat \ {0} /\ e \in 0 .. NbLongs - 1
        BY <3>3, LongsOK
      <4>2. QED
        BY <4>1, ResteDuPetit
    <3> HIDE DEF f
    <3>11. i # 0
      BY <2>3
    <3>12. (f[i - 1] * b + Valeur(s[i])) % NbLongs = e
      BY <3>5, <3>8, <3>9, <3>10
    <3>13. QED
      BY <3>4, <3>11, <3>12
  <2>4. i = 0 \/ i \in 1 .. z \/ i \in z + 1 .. z + c
    OBVIOUS
  <2>5. QED
    BY <2>1, <2>2, <2>3, <2>4
<1>3. f = [i \in 0 .. z + c |-> Tour(i)]
  <2>1. /\ f = [i \in 0 .. z + c |-> f[i]]
        /\ \A i \in 0 .. z + c : f[i] = Tour(i)
    BY <1>2
  <2> HIDE DEF f, Tour
  <2>2. QED
    BY <2>1
<1>4. f[z + c] = g[c]
  <2>1. CASE c = 0
    BY <2>1
  <2>2. CASE c # 0
    BY <2>2
  <2>3. QED
    BY <2>1, <2>2
<1>5. Lecture(s, b, z + c) = f[z + c]
  <2> HIDE DEF f
  <2>1. QED
    BY <1>3, LectureVaut
<1>6. QED
  BY <1>1, <1>4, <1>5

\* s is blanks blancs, a prefix 0x or none, zeros zeros, the digits and
\* blanks again.
Disposition(s, blancs, hexa, zeros) ==
  LET tete == blancs + (IF hexa THEN 2 ELSE 0) + zeros
      c == Len(chiffres)
  IN  /\ Len(s) \in Nat /\ tete + c <= Len(s)
      /\ \E S : s \in Seq(S)
      /\ \A i \in 1 .. blancs : s[i] = Espace
      /\ hexa => s[blancs + 1] = "0" /\ s[blancs + 2] = "x"
      /\ \A i \in tete - zeros + 1 .. tete : s[i] = "0"
      /\ \A i \in 1 .. c : s[tete + i] = chiffres[i]
      /\ tete + c = Len(s) \/ s[tete + c + 1] = Espace

\* The digits are the remainders of the quotients of v: g[c] is the number,
\* g[0] what is left of it.
Deroule(g, v) ==
  LET c == Len(chiffres)
      b == Base[conv]
  IN  /\ c \in Nat
      /\ g \in [0 .. c -> Nat] /\ g[c] = v
      /\ \A i \in 0 .. c : g[i] <= v
      /\ \A i \in 1 .. c : /\ g[i - 1] = g[i] \div b
                         /\ chiffres[i] = Chiffres[(g[i] % b) + 1]

\* The rest of a text.
LEMMA ApresVaut ==
  ASSUME NEW S, NEW s \in Seq(S), NEW h \in 0 .. Len(s)
  PROVE  /\ Apres(s, h) \in Seq(S) /\ Len(Apres(s, h)) = Len(s) - h
         /\ \A i \in 1 .. Len(s) - h : Apres(s, h)[i] = s[h + i]
<1>1. Apres(s, h) = SubSeq(s, h + 1, Len(s))
  BY DEF Apres
<1>2. QED
  BY <1>1

LEMMA StrtoulVaut ==
  ASSUME NEW s, NEW blancs \in Nat, NEW hexa \in BOOLEAN, NEW zeros \in Nat,
         Disposition(s, blancs, hexa, zeros), chiffres # <<>>,
         conv \in DOMAIN Base, NEW g, Deroule(g, mot), g[0] = 0,
         mot < NbLongs, Len(chiffres) # 0, mot \in Nat,
         hexa => Base[conv] = 16,
         NEW base \in {0, Base[conv]},
         base = 0 => \/ hexa
                     \/ Base[conv] = 8 /\ zeros # 0
                     \/ Base[conv] = 10 /\ zeros = 0 /\ chiffres[1] # "0"
  PROVE  Strtoul(s, base) = mot
<1> DEFINE c == Len(chiffres)
           t == Apres(s, blancs)
           lt == Len(s) - blancs
           debut == IF hexa THEN 2 ELSE 0
           b == Base[conv]
<1>1. /\ c \in Nat \ {0} /\ b \in {8, 10, 16}
      /\ \A i \in 1 .. c : chiffres[i] \in ChiffresDe(b)
  <2>1. c \in Nat \ {0}
    BY DEF Deroule
  <2>2. b \in {8, 10, 16}
    BY DEF Base
  <2>3. ASSUME NEW i \in 1 .. c
        PROVE  chiffres[i] \in ChiffresDe(b)
    <3>1. g[i] \in Nat /\ chiffres[i] = Chiffres[(g[i] % b) + 1]
      BY <2>1 DEF Deroule
    <3> HIDE DEF b
    <3>2. PICK e \in 1 .. b : chiffres[i] = Chiffres[e]
      <4>1. (g[i] % b) + 1 \in 1 .. b
        BY <2>2, <3>1
      <4>2. QED
        BY <3>1, <4>1
    <3>3. QED
      BY <2>2, <3>2, PasUnChiffre
  <2>4. QED
    BY <2>1, <2>2, <2>3
<1>2. /\ Len(s) \in Nat /\ blancs + debut + zeros + c <= Len(s)
      /\ \E S : s \in Seq(S)
      /\ \A i \in 1 .. blancs : s[i] = Espace
      /\ hexa => s[blancs + 1] = "0" /\ s[blancs + 2] = "x"
      /\ \A i \in blancs + debut + 1 .. blancs + debut + zeros : s[i] = "0"
      /\ \A i \in 1 .. c : s[blancs + debut + zeros + i] = chiffres[i]
      /\ \/ blancs + debut + zeros + c = Len(s)
         \/ s[blancs + debut + zeros + c + 1] = Espace
  BY <1>1 DEF Disposition
<1>3. debut \in {0, 2}
  OBVIOUS
<1> HIDE DEF c, b
<1> HIDE DEF debut
<1>4. /\ lt \in Nat /\ Len(t) = lt /\ debut + zeros + c <= lt
      /\ \A i \in 1 .. lt : t[i] = s[blancs + i]
      /\ \E S : t \in Seq(S)
  <2>1. PICK S : s \in Seq(S)
    BY <1>2
  <2>2. blancs \in 0 .. Len(s) /\ debut + zeros + c <= lt /\ lt \in Nat
    BY <1>1, <1>2, <1>3
  <2>3. /\ t \in Seq(S) /\ Len(t) = lt
        /\ \A i \in 1 .. lt : t[i] = s[blancs + i]
    BY <2>1, <2>2, ApresVaut
  <2>4. QED
    BY <2>2, <2>3
<1> HIDE DEF t, lt
<1>5. /\ hexa => t[1] = "0" /\ t[2] = "x"
      /\ \A i \in 1 .. zeros : t[debut + i] = "0"
      /\ \A i \in 1 .. c : t[debut + zeros + i] = chiffres[i]
      /\ debut + zeros + c = lt \/ t[debut + zeros + c + 1] = Espace
  <2> lt \in Nat /\ debut + zeros + c <= lt /\ c \in Nat \ {0}
    BY <1>1, <1>4
  <2>1. hexa => t[1] = "0" /\ t[2] = "x"
    <3>1. hexa => 1 \in 1 .. lt /\ 2 \in 1 .. lt
      BY DEF debut
    <3>2. QED
      BY <1>2, <1>4, <3>1
  <2>2. ASSUME NEW i \in 1 .. zeros PROVE t[debut + i] = "0"
    <3>1. blancs + debut + i \in blancs + debut + 1 .. blancs + debut + zeros
      BY <1>3
    <3>2. s[blancs + debut + i] = "0"
      BY <1>2, <3>1
    <3>3. debut + i \in 1 .. lt /\ blancs + (debut + i) = blancs + debut + i
      BY <1>3
    <3>4. QED
      BY <1>4, <3>2, <3>3
  <2>3. ASSUME NEW i \in 1 .. c PROVE t[debut + zeros + i] = chiffres[i]
    <3>1. /\ debut + zeros + i \in 1 .. lt
          /\ blancs + (debut + zeros + i) = blancs + debut + zeros + i
      BY <1>3
    <3>2. QED
      BY <1>2, <1>4, <3>1
  <2>4. debut + zeros + c = lt \/ t[debut + zeros + c + 1] = Espace
    <3>1. CASE blancs + debut + zeros + c = Len(s)
      BY <1>1, <1>2, <1>3, <3>1 DEF lt
    <3>2. CASE /\ debut + zeros + c # lt
               /\ s[blancs + debut + zeros + c + 1] = Espace
      <4>1. /\ debut + zeros + c + 1 \in 1 .. lt
            /\ blancs + (debut + zeros + c + 1)
                 = blancs + debut + zeros + c + 1
        BY <1>1, <1>3, <1>4, <3>2
      <4>2. QED
        BY <1>4, <3>2, <4>1
    <3>3. QED
      BY <1>2, <3>1, <3>2
  <2>5. QED
    BY <2>1, <2>2, <2>3, <2>4
<1>6. t[1] = IF hexa \/ zeros # 0 THEN "0" ELSE chiffres[1]
  <2>1. hexa \/ (~hexa /\ debut = 0 /\ zeros # 0)
          \/ (~hexa /\ debut = 0 /\ zeros = 0)
    BY DEF debut
  <2>2. CASE hexa
    BY <1>5, <2>2
  <2>3. CASE ~hexa /\ debut = 0 /\ zeros # 0
    <3>1. 1 \in 1 .. zeros /\ debut + 1 = 1
      BY <2>3
    <3>2. QED
      BY <1>5, <2>3, <3>1
  <2>4. CASE ~hexa /\ debut = 0 /\ zeros = 0
    <3>1. 1 \in 1 .. c /\ debut + zeros + 1 = 1
      BY <1>1, <2>4
    <3>2. QED
      BY <1>5, <2>4, <3>1
  <2>5. QED
    BY <2>1, <2>2, <2>3, <2>4
<1>7. t[1] # Espace
  <2>1. 1 \in 1 .. c
    BY <1>1
  <2>2. chiffres[1] # Espace
    BY <1>1, <2>1, PasUnChiffre
  <2>3. QED
    BY <1>1, <1>6, <2>2, PasUnChiffre
<1>8. ~hexa /\ lt >= 2 => t[2] # "x"
  <2>1. SUFFICES ASSUME ~hexa, lt >= 2 PROVE t[2] # "x"
    OBVIOUS
  <2>2. debut = 0
    BY <2>1 DEF debut
  <2>3. CASE zeros >= 2
    <3>1. 2 \in 1 .. zeros /\ debut + 2 = 2
      BY <2>2, <2>3
    <3>2. t[2] = "0"
      BY <1>5, <3>1
    <3>3. QED
      BY <3>2
  <2>4. CASE zeros < 2
    <3>1. PICK h \in {1, 2} : debut + zeros + h = 2
      BY <2>2, <2>4
    <3>2. CASE h \in 1 .. c
      <4>1. t[2] = chiffres[h]
        BY <1>5, <3>1, <3>2
      <4>2. QED
        BY <1>1, <3>2, <4>1, PasUnChiffre
    <3>3. CASE h \notin 1 .. c
      <4>1. debut + zeros + c # lt /\ debut + zeros + c + 1 = 2
        BY <1>1, <2>1, <2>2, <2>4, <3>1, <3>3
      <4>2. t[2] = Espace
        BY <1>5, <4>1
      <4>3. QED
        BY <1>1, <4>2, PasUnChiffre
    <3>4. QED
      BY <3>2, <3>3
  <2>5. QED
    BY <2>3, <2>4
<1>9. Marche(s, {Espace}) = blancs
  <2>1. 1 \in 1 .. lt
    BY <1>1, <1>3, <1>4
  <2>2. s[blancs + 1] = t[1]
    BY <1>4, <2>1
  <2>3. s[blancs + 1] \notin {Espace} /\ blancs \in 0 .. Len(s)
    BY <1>1, <1>2, <1>3, <1>7, <2>2
  <2>4. \A i \in 1 .. blancs : s[i] \in {Espace}
    BY <1>2
  <2>5. QED
    BY <1>2, <2>3, <2>4, MarcheVaut
<1> DEFINE test == /\ base \in {0, 16}
                   /\ Len(t) >= 2 /\ t[1] = "0" /\ t[2] = "x"
           r == IF test THEN Apres(t, 2) ELSE t
           trouvee == IF test THEN 16
                      ELSE IF base # 0 THEN base
                      ELSE IF t # <<>> /\ t[1] = "0" THEN 8 ELSE 10
<1>10. test <=> hexa
  <2>1. hexa => debut = 2 /\ b = 16
    BY DEF debut, b
  <2>2. base \in {0, b}
    BY DEF b
  <2>3. QED
    BY <1>1, <1>4, <1>5, <1>8, <2>1, <2>2
<1>11. trouvee = b
  <2>1. base \in {0, b} /\ (hexa => b = 16)
    BY DEF b
  <2>2. t # <<>>
    <3>1. Len(t) # 0
      BY <1>1, <1>3, <1>4
    <3>2. QED
      BY <3>1
  <2>3. base = 0 /\ ~hexa => \/ b = 8 /\ t[1] = "0"
                             \/ b = 10 /\ t[1] # "0"
    BY <1>6 DEF b
  <2> HIDE DEF test
  <2>4. QED
    BY <1>10, <2>1, <2>2, <2>3
<1>12. Len(r) = lt - debut /\ \A i \in 1 .. lt - debut : r[i] = t[debut + i]
  <2> HIDE DEF test
  <2>1. CASE hexa
    <3>1. r = Apres(t, 2) /\ debut = 2
      BY <1>10, <2>1 DEF debut
    <3>2. PICK S : t \in Seq(S)
      BY <1>4
    <3>3. 2 \in 0 .. Len(t)
      BY <1>1, <1>4, <3>1
    <3>4. /\ Len(Apres(t, 2)) = Len(t) - 2
          /\ \A i \in 1 .. Len(t) - 2 : Apres(t, 2)[i] = t[2 + i]
      BY <3>2, <3>3, ApresVaut
    <3> HIDE DEF r
    <3>5. QED
      BY <1>4, <3>1, <3>4
  <2>2. CASE ~hexa
    <3>1. r = t /\ debut = 0
      BY <1>10, <2>2 DEF debut
    <3> HIDE DEF r
    <3>2. QED
      BY <1>4, <3>1
  <2>3. QED
    BY <2>1, <2>2
<1>13. Strtoul(s, base) = Lecture(r, trouvee, Marche(r, ChiffresDe(trouvee)))
  BY <1>9, Zenon DEF Strtoul, t
<1> HIDE DEF test, r, trouvee, debut
<1>14. Lecture(r, b, Marche(r, ChiffresDe(b))) = g[c]
  <2>0. /\ lt \in Nat /\ debut \in {0, 2} /\ c \in Nat \ {0}
        /\ debut + zeros + c <= lt
    BY <1>1, <1>3, <1>4
  <2>1. /\ g \in [0 .. c -> Nat] /\ g[c] = mot
        /\ \A i \in 0 .. c : g[i] <= mot
        /\ \A i \in 1 .. c : /\ g[i - 1] = g[i] \div b
                           /\ chiffres[i] = Chiffres[(g[i] % b) + 1]
    BY DEF Deroule, c, b
  <2>2. \A i \in 0 .. c : g[i] < NbLongs
    <3>1. ASSUME NEW i \in 0 .. c PROVE g[i] < NbLongs
      <4>1. g[i] \in Nat /\ g[i] <= mot
        BY <2>1
      <4>2. QED
        BY <4>1, LongsOK
    <3>2. QED
      BY <3>1
  <2>3. Len(r) \in Nat /\ zeros + c <= Len(r)
    BY <1>12, <2>0
  <2>4. \A i \in 1 .. zeros : r[i] = "0"
    <3>1. \A i \in 1 .. zeros : i \in 1 .. lt - debut
      BY <2>0
    <3>2. QED
      BY <1>5, <1>12, <3>1
  <2>5. \A i \in 1 .. c : r[zeros + i] = chiffres[i]
    <3>1. ASSUME NEW i \in 1 .. c PROVE r[zeros + i] = chiffres[i]
      <4>1. /\ zeros + i \in 1 .. lt - debut
            /\ debut + (zeros + i) = debut + zeros + i
        BY <2>0
      <4>2. QED
        BY <1>5, <1>12, <4>1
    <3>2. QED
      BY <3>1
  <2>6. zeros + c = Len(r) \/ r[zeros + c + 1] = Espace
    <3>1. CASE debut + zeros + c = lt
      BY <1>12, <2>0, <3>1
    <3>2. CASE debut + zeros + c # lt
      <4>1. /\ zeros + c + 1 \in 1 .. lt - debut
            /\ debut + (zeros + c + 1) = debut + zeros + c + 1
        BY <2>0, <3>2
      <4>2. QED
        BY <1>5, <1>12, <3>2, <4>1
    <3>3. QED
      BY <3>1, <3>2
  <2>7. /\ g[0] = 0 /\ b \in {8, 10, 16} /\ c \in Nat
        /\ \A i \in 1 .. c : /\ g[i - 1] = g[i] \div b
                           /\ r[zeros + i] = Chiffres[(g[i] % b) + 1]
    BY <1>1, <2>1, <2>5
  <2>8. QED
    <3>1. Lisible(r, b, zeros, c, g)
      BY <2>1, <2>2, <2>3, <2>4, <2>6, <2>7 DEF Lisible
    <3>2. QED
      BY <3>1, LectureChiffres
<1>15. g[c] = mot
  BY DEF Deroule, c
<1>16. QED
  BY <1>11, <1>13, <1>14, <1>15

\* The invariant: while the digits are stored, their quotients end at u; the
\* first digit of a number other than 0 is not a zero.
RelectureEnCours ==
  /\ LargeurEnCours
  /\ mot \in 0 .. NbLongs - 1 /\ conv \in DOMAIN Base
  /\ etape = "argument" => chiffres = <<>>
  /\ Signe = <<>> /\ etape = "chiffres" =>
       /\ \E g : Deroule(g, mot) /\ g[0] = u
       /\ u = 0 => Len(chiffres) = 0
  /\ Signe = <<>> /\ etape \in {"emission", "fini"} =>
       /\ \E g : Deroule(g, mot) /\ g[0] = 0
       /\ Len(chiffres) # 0
       /\ mot # 0 => chiffres[1] # "0"
  /\ RelectureExacte

LEMMA Prolonge ==
  ASSUME NEW S, NEW s \in Seq(S), NEW t \in Seq(S)
  PROVE  /\ s \o t \in Seq(S) /\ Len(s \o t) = Len(s) + Len(t)
         /\ Len(s) \in Nat /\ Len(t) \in Nat
         /\ \A i \in 1 .. Len(s) : (s \o t)[i] = s[i]
         /\ \A i \in 1 .. Len(t) : (s \o t)[Len(s) + i] = t[i]
  OBVIOUS

\* v stands in e behind its first h characters.
Contient(e, h, v) ==
  /\ h \in Nat /\ h + Len(v) <= Len(e)
  /\ \A i \in 1 .. Len(v) : e[h + i] = v[i]

LEMMA ContientSuite ==
  ASSUME NEW S, NEW s \in Seq(S), NEW t \in Seq(S)
  PROVE  /\ s \o t \in Seq(S) /\ Len(s \o t) = Len(s) + Len(t)
         /\ Contient(s \o t, Len(s), t)
         /\ \A h : \A v \in Seq(S) :
              Contient(s, h, v) => Contient(s \o t, h, v)
<1>1. /\ s \o t \in Seq(S) /\ Len(s \o t) = Len(s) + Len(t)
      /\ Len(s) \in Nat /\ Len(t) \in Nat
      /\ \A i \in 1 .. Len(s) : (s \o t)[i] = s[i]
      /\ \A i \in 1 .. Len(t) : (s \o t)[Len(s) + i] = t[i]
  BY Prolonge
<1>2. Contient(s \o t, Len(s), t)
  BY <1>1 DEF Contient
<1>3. ASSUME NEW h, NEW v \in Seq(S), Contient(s, h, v)
      PROVE  Contient(s \o t, h, v)
  <2>1. PICK ls \in Nat, lt \in Nat, lv \in Nat :
          ls = Len(s) /\ lt = Len(t) /\ lv = Len(v)
    BY <1>1, LenProperties
  <2>2. /\ h \in Nat /\ h + lv <= ls
        /\ \A i \in 1 .. lv : s[h + i] = v[i]
    BY <1>3, <2>1 DEF Contient
  <2>3. ASSUME NEW i \in 1 .. lv
        PROVE  (s \o t)[h + i] = v[i]
    <3>1. h + i \in 1 .. ls
      BY <2>2
    <3>2. h + i \in 1 .. Len(s)
      BY <2>1, <3>1
    <3>3. (s \o t)[h + i] = s[h + i]
      BY <1>1, <3>2
    <3>4. QED
      BY <2>2, <3>3
  <2>4. h + lv <= ls + lt
    BY <2>2
  <2>5. QED
    BY <1>1, <2>1, <2>2, <2>3, <2>4 DEF Contient
<1>4. QED
  BY <1>1, <1>2, <1>3

\* Six texts and the lengths of the first of them.
Mesures(S, a, o, z, w, c, d, la, lo, lz, lw, lc) ==
  /\ a \in Seq(S) /\ o \in Seq(S) /\ z \in Seq(S)
  /\ w \in Seq(S) /\ c \in Seq(S) /\ d \in Seq(S)
  /\ la \in Nat /\ lo \in Nat /\ lz \in Nat /\ lw \in Nat /\ lc \in Nat
  /\ Len(a) = la /\ Len(o) = lo /\ Len(z) = lz /\ Len(w) = lw /\ Len(c) = lc

LEMMA Assemblage ==
  ASSUME NEW S, NEW a, NEW o, NEW z, NEW w, NEW c, NEW d,
         NEW la, NEW lo, NEW lz, NEW lw, NEW lc,
         Mesures(S, a, o, z, w, c, d, la, lo, lz, lw, lc)
  PROVE  LET e == a \o o \o z \o w \o c \o d
         IN  /\ e \in Seq(S)
             /\ Len(e) = la + lo + lz + lw + lc + Len(d)
             /\ Contient(e, 0, a) /\ Contient(e, la, o)
             /\ Contient(e, la + lo, z) /\ Contient(e, la + lo + lz, w)
             /\ Contient(e, la + lo + lz + lw, c)
             /\ Contient(e, la + lo + lz + lw + lc, d)
<1> DEFINE r == a \o o
           s == r \o z
           t == s \o w
           v == t \o c
           e == v \o d
<1> USE DEF Mesures
<1>1. Contient(a, 0, a)
  BY DEF Contient
<1>2. /\ r \in Seq(S) /\ Len(r) = la + lo /\ Contient(r, la, o)
      /\ Contient(r, 0, a)
  BY <1>1, ContientSuite
<1> HIDE DEF r
<1>3. /\ s \in Seq(S) /\ Len(s) = la + lo + lz /\ Contient(s, la + lo, z)
      /\ Contient(s, la, o) /\ Contient(s, 0, a)
  <2>1. /\ s \in Seq(S) /\ Len(s) = Len(r) + Len(z)
        /\ Contient(s, Len(r), z)
        /\ \A h : \A g \in Seq(S) : Contient(r, h, g) => Contient(s, h, g)
    BY <1>2, ContientSuite
  <2> HIDE DEF s
  <2>2. QED
    BY <1>2, <2>1
<1> HIDE DEF s
<1>4. /\ t \in Seq(S) /\ Len(t) = la + lo + lz + lw
      /\ Contient(t, la + lo + lz, w)
      /\ Contient(t, la + lo, z) /\ Contient(t, la, o) /\ Contient(t, 0, a)
  BY <1>3, ContientSuite
<1> HIDE DEF t
<1>5. /\ v \in Seq(S) /\ Len(v) = la + lo + lz + lw + lc
      /\ Contient(v, la + lo + lz + lw, c) /\ Contient(v, la + lo + lz, w)
      /\ Contient(v, la + lo, z) /\ Contient(v, la, o) /\ Contient(v, 0, a)
  BY <1>4, ContientSuite
<1> HIDE DEF v
<1>6. /\ e \in Seq(S) /\ Len(e) = la + lo + lz + lw + lc + Len(d)
      /\ Contient(e, la + lo + lz + lw + lc, d)
      /\ Contient(e, la + lo + lz + lw, c) /\ Contient(e, la + lo + lz, w)
      /\ Contient(e, la + lo, z) /\ Contient(e, la, o) /\ Contient(e, 0, a)
  BY <1>5, ContientSuite
<1>7. QED
  BY <1>6 DEF r, s, t, v

LEMMA SigneVide ==
  ASSUME Signe = <<>>
  PROVE  ~(Signee(conv) /\ EnSigne(mot) < 0)
<1>1. SUFFICES ASSUME Signee(conv), EnSigne(mot) < 0 PROVE FALSE
  OBVIOUS
<1>2. Signe = <<"-">>
  BY <1>1 DEF Signe
<1>3. QED
  BY <1>2

LEMMA RelectureInitiale == InitN => RelectureEnCours
<1> SUFFICES ASSUME InitN PROVE RelectureEnCours
  OBVIOUS
<1>1. LargeurEnCours
  BY LargeurInitiale
<1>2. QED
  BY <1>1 DEF InitN, RelectureEnCours, RelectureExacte

LEMMA ArgumentSuit ==
  ASSUME RelectureEnCours, Argument PROVE RelectureEnCours'
<1>1. LargeurEnCours'
  BY LargeurInductive DEF RelectureEnCours, NextN
<1>2. /\ mot' = mot /\ conv' = conv /\ options' = options
      /\ chiffres' = <<>> /\ etape' = "chiffres"
      /\ mot \in 0 .. NbLongs - 1 /\ conv \in DOMAIN Base
  BY DEF RelectureEnCours, Argument
<1>3. ASSUME Signe' = <<>>
      PROVE  \E g : Deroule(g, mot)' /\ g[0] = u'
  <2>1. Signe = <<>>
    BY <1>2, <1>3 DEF Signe, EnSigne
  <2>2. u' = mot
    BY <2>1, SigneVide DEF Argument
  <2> PICK f : f = [i \in 0 .. 0 |-> mot]
    OBVIOUS
  <2>3. Deroule(f, mot)' /\ f[0] = mot
    <3>1. Len(chiffres') = 0
      BY <1>2
    <3>2. f \in [0 .. 0 -> Nat] /\ f[0] = mot /\ mot' = mot
          /\ \A i \in 0 .. 0 : f[i] <= mot
      BY <1>2, LongsOK
    <3>3. QED
      BY <3>1, <3>2 DEF Deroule
  <2>4. QED
    BY <2>2, <2>3
<1>4. Len(chiffres') = 0
  BY <1>2
<1>5. QED
  BY <1>1, <1>2, <1>3, <1>4 DEF RelectureEnCours, RelectureExacte

LEMMA ChiffreSuit ==
  ASSUME RelectureEnCours, Chiffre PROVE RelectureEnCours'
<1> DEFINE b == Base[conv]
           c == Len(chiffres)
<1>1. LargeurEnCours'
  BY LargeurInductive DEF RelectureEnCours, NextN
<1>2. /\ mot' = mot /\ conv' = conv /\ options' = options
      /\ chiffres' = <<Chiffres[(u % b) + 1]>> \o chiffres
      /\ u' = u \div b /\ etape = "chiffres"
      /\ etape' = IF u' = 0 THEN "emission" ELSE "chiffres"
      /\ mot \in 0 .. NbLongs - 1 /\ conv \in DOMAIN Base
  BY DEF RelectureEnCours, Chiffre
<1>3. b \in {8, 10, 16}
  BY <1>2 DEF Base
<1>4. ASSUME Signe' = <<>>
      PROVE  /\ \E g : Deroule(g, mot)' /\ g[0] = u'
             /\ Len(chiffres') # 0
             /\ u' = 0 /\ mot # 0 => chiffres'[1] # "0"
  <2>1. Signe = <<>>
    BY <1>2, <1>4 DEF Signe, EnSigne
  <2>2. PICK g : Deroule(g, mot) /\ g[0] = u
    BY <1>2, <2>1 DEF RelectureEnCours
  <2>3. /\ c \in Nat /\ g \in [0 .. c -> Nat] /\ g[c] = mot
        /\ \A i \in 0 .. c : g[i] <= mot
        /\ \A i \in 1 .. c : /\ g[i - 1] = g[i] \div b
                           /\ chiffres[i] = Chiffres[(g[i] % b) + 1]
    BY <2>2 DEF Deroule
  <2>4. u \in Nat /\ u <= mot /\ u \div b \in Nat /\ u \div b <= mot
    <3>1. u \in Nat /\ u <= mot /\ mot \in Nat
      BY <1>2, <2>2, <2>3, LongsOK
    <3> HIDE DEF b
    <3>2. QED
      BY <1>3, <3>1
  <2>5. PICK S : chiffres \in Seq(S)
    BY DEF RelectureEnCours, LargeurEnCours
  <2> DEFINE e == Chiffres[(u % b) + 1]
  <2>6. /\ Len(chiffres') = c + 1 /\ chiffres'[1] = e
        /\ \A i \in 1 .. c : chiffres'[1 + i] = chiffres[i]
    <3> DEFINE T == S \cup {e}
    <3>1. /\ <<e>> \in Seq(T) /\ chiffres \in Seq(T)
          /\ chiffres' = <<e>> \o chiffres
      BY <1>2, <2>5, SeqMonotonic
    <3>2. Len(<<e>>) = 1 /\ <<e>>[1] = e
      OBVIOUS
    <3> HIDE DEF T, e
    <3>3. QED
      BY <3>1, <3>2, Prolonge
  <2> PICK f : f = [i \in 0 .. c + 1 |-> IF i = 0 THEN u \div b ELSE g[i - 1]]
    OBVIOUS
  <2>7. /\ f \in [0 .. c + 1 -> Nat] /\ f[c + 1] = mot /\ f[0] = u \div b
        /\ \A i \in 0 .. c + 1 : f[i] <= mot
    <3> HIDE DEF b, c
    <3>1. QED
      BY <2>3, <2>4
  <2>8. ASSUME NEW i \in 1 .. c + 1
        PROVE  /\ f[i - 1] = f[i] \div b
               /\ chiffres'[i] = Chiffres[(f[i] % b) + 1]
    <3> HIDE DEF b, c
    <3>1. CASE i = 1
      <4>1. f[1] = u /\ f[0] = u \div b
        BY <2>2, <2>3
      <4>2. QED
        BY <2>6, <3>1, <4>1
    <3>2. CASE i # 1
      <4>1. PICK h \in 1 .. c : i = 1 + h
        <5>1. i - 1 \in 1 .. c /\ i = 1 + (i - 1)
          BY <2>3, <3>2
        <5>2. QED
          BY <5>1
      <4>2. f[1 + h] = g[h] /\ f[(1 + h) - 1] = g[h - 1]
        BY <2>3
      <4> HIDE DEF e
      <4>3. chiffres'[1 + h] = chiffres[h]
        BY <2>6
      <4>4. QED
        BY <2>3, <4>1, <4>2, <4>3
    <3>3. QED
      BY <3>1, <3>2
  <2>9. Deroule(f, mot)'
    <3>1. /\ Base[conv'] = b /\ mot' = mot /\ Len(chiffres') = c + 1
          /\ c + 1 \in Nat
      BY <1>2, <2>3, <2>6
    <3> HIDE DEF b, c
    <3>2. QED
      BY <2>7, <2>8, <3>1 DEF Deroule
  <2>10. u' = 0 /\ mot # 0 => chiffres'[1] # "0"
    <3>1. SUFFICES ASSUME u' = 0, mot # 0 PROVE chiffres'[1] # "0"
      OBVIOUS
    <3>2. u # 0
      <4>1. SUFFICES ASSUME u = 0 PROVE FALSE
        OBVIOUS
      <4>2. c = 0
        BY <1>2, <2>1, <4>1 DEF RelectureEnCours
      <4>3. QED
        BY <2>2, <2>3, <3>1, <4>1, <4>2
    <3>3. u % b # 0 /\ u % b \in 0 .. 15
      <4>1. u \div b = 0
        BY <1>2, <3>1
      <4> HIDE DEF b
      <4>2. QED
        BY <1>3, <2>4, <3>2, <4>1
    <3>4. PICK d \in 1 .. 15 : d = u % b
      BY <3>3
    <3>5. e = Chiffres[d + 1] /\ d + 1 \in 1 .. 16 /\ d + 1 # 1
      BY <3>4
    <3>6. Chiffres[1] = "0"
      BY DEF Chiffres
    <3>7. e # "0"
      BY <3>5, <3>6, ChiffresDistincts
    <3>8. QED
      BY <2>6, <3>7
  <2>11. Len(chiffres') # 0
    BY <2>3, <2>6
  <2>12. QED
    BY <1>2, <2>7, <2>9, <2>10, <2>11
<1>5. QED
  BY <1>1, <1>2, <1>4 DEF RelectureEnCours, RelectureExacte

\* What is in front of the digits: 0x, or zeros alone.
LEMMA TetePas ==
  ASSUME RelectureEnCours, Emission, Signe = <<>>
  PROVE  \E blancs \in Nat, hexa \in BOOLEAN, zeros \in Nat :
           /\ Disposition(emis', blancs, hexa, zeros)
           /\ hexa <=> mot # 0 /\ options.altfmt /\ Base[conv] = 16
           /\ mot # 0 /\ options.altfmt /\ Base[conv] = 8 => zeros # 0
           /\ Base[conv] = 10 /\ ~options.zero /\ precision <= 1 => zeros = 0
<1> DEFINE vide == longueur - Len(chiffres) - Len(Signe) - Len(Prefixe)
                     - Positif(Zeros)
           f1 == IF options.zero \/ options.ladjust THEN 0 ELSE vide
           f2 == IF options.zero THEN vide ELSE 0
           f3 == IF options.ladjust /\ ~options.zero THEN vide ELSE 0
<1>1. emis' = Fois(f1, Espace) \o Signe \o Prefixe \o Fois(Zeros, "0")
                \o Fois(f2, "0") \o chiffres \o Fois(f3, Espace)
  BY DEF Emission, Ecrit
<1>2. /\ longueur \in Nat /\ precision \in Int /\ options \in Options
      /\ options.zero \in BOOLEAN /\ options.altfmt \in BOOLEAN
      /\ conv \in DOMAIN Base /\ Len(chiffres) # 0
  BY DEF RelectureEnCours, LargeurEnCours, Options, Emission, Ecrit
<1>3. PICK S : chiffres \in Seq(S)
  BY DEF RelectureEnCours, LargeurEnCours
<1> DEFINE T == S \cup Ornements
<1>4. /\ S \subseteq T /\ Ornements \subseteq T
      /\ Espace \in T /\ "0" \in T
  BY DEF Ornements
<1> HIDE DEF T
<1>5. Signe \in Seq(T) /\ Prefixe \in Seq(T) /\ chiffres \in Seq(T)
  <2>1. Signe \in Seq(Ornements) /\ Prefixe \in Seq(Ornements)
    BY <1>2, OrnementsType
  <2>2. QED
    BY <1>3, <1>4, <2>1, SeqMonotonic
<1>6. Len(chiffres) \in Nat /\ Len(Signe) \in Nat /\ Len(Prefixe) \in Nat
  BY <1>5, LenProperties
<1>7. Zeros \in Int /\ Positif(Zeros) \in Nat /\ vide \in Int
  BY <1>2, <1>6 DEF Zeros, Positif
<1>8. f1 \in Int /\ f2 \in Int /\ f3 \in Int
  <2> HIDE DEF vide
  <2>1. QED
    BY <1>7
<1>9. PICK a \in Seq(T), o \in Seq(T), z \in Seq(T), w \in Seq(T),
           c \in Seq(T), d \in Seq(T) :
        /\ a = Fois(f1, Espace) /\ o = Prefixe /\ z = Fois(Zeros, "0")
        /\ w = Fois(f2, "0") /\ c = chiffres /\ d = Fois(f3, Espace)
  <2> HIDE DEF f1, f2, f3
  <2>1. QED
    BY <1>4, <1>5, <1>7, <1>8, FoisVaut
<1>10. /\ \A i \in 1 .. Len(a) : a[i] = Espace
       /\ \A i \in 1 .. Len(z) : z[i] = "0"
       /\ \A i \in 1 .. Len(w) : w[i] = "0"
       /\ \A i \in 1 .. Len(d) : d[i] = Espace
       /\ Len(z) = Positif(Zeros) /\ Len(w) = Positif(f2)
  <2> HIDE DEF f1, f2, f3
  <2>1. QED
    BY <1>4, <1>7, <1>8, <1>9, FoisVaut
<1>11. emis' = a \o o \o z \o w \o c \o d
  <2>1. a \o <<>> = a
    BY ConcatEmptySeq
  <2> HIDE DEF f1, f2, f3
  <2>2. QED
    BY <1>1, <1>9, <2>1
<1>12. Base[conv] \in {8, 10, 16}
  BY <1>2 DEF Base
<1>13. o = IF mot # 0 /\ options.altfmt /\ Base[conv] = 8 THEN <<"0">>
           ELSE IF mot # 0 /\ options.altfmt /\ Base[conv] = 16
                THEN <<"0", "x">> ELSE <<>>
  BY <1>9 DEF Prefixe
<1> DEFINE hexa == mot # 0 /\ options.altfmt /\ Base[conv] = 16
           octal == mot # 0 /\ options.altfmt /\ Base[conv] = 8
<1>L. PICK la \in Nat, lo \in Nat, lz \in Nat, lw \in Nat, lc \in Nat,
           ld \in Nat :
        /\ la = Len(a) /\ lo = Len(o) /\ lz = Len(z) /\ lw = Len(w)
        /\ lc = Len(c) /\ ld = Len(d)
  <2>1. /\ Len(a) \in Nat /\ Len(o) \in Nat /\ Len(z) \in Nat
        /\ Len(w) \in Nat /\ Len(c) \in Nat /\ Len(d) \in Nat
    BY LenProperties
  <2>2. QED
    BY <2>1
<1>14. PICK zeros \in Nat :
         zeros = (IF octal THEN 1 ELSE 0) + lz + lw
  OBVIOUS
<1>15. PICK tete \in Nat : tete = IF hexa THEN 2 ELSE 0
  OBVIOUS
<1>16. /\ lo + lz + lw = tete + zeros
       /\ hexa => o[1] = "0" /\ o[2] = "x" /\ lo = 2
       /\ octal => o[1] = "0" /\ lo = 1
       /\ ~hexa /\ ~octal => lo = 0
  <2>1. CASE hexa
    <3>1. o = <<"0", "x">> /\ ~octal
      BY <1>13, <2>1
    <3>2. lo = 2 /\ o[1] = "0" /\ o[2] = "x"
      BY <1>L, <3>1
    <3> HIDE DEF hexa, octal
    <3>3. QED
      BY <1>14, <1>15, <2>1, <3>1, <3>2
  <2>2. CASE octal
    <3>1. o = <<"0">> /\ ~hexa
      BY <1>13, <2>2
    <3>2. lo = 1 /\ o[1] = "0"
      BY <1>L, <3>1
    <3> HIDE DEF hexa, octal
    <3>3. QED
      BY <1>14, <1>15, <2>2, <3>1, <3>2
  <2>3. CASE ~hexa /\ ~octal
    <3>1. o = <<>>
      BY <1>13, <2>3
    <3>2. lo = 0
      BY <1>L, <3>1
    <3> HIDE DEF hexa, octal
    <3>3. QED
      BY <1>14, <1>15, <2>3, <3>2
  <2>4. QED
    BY <2>1, <2>2, <2>3
<1> HIDE DEF hexa, octal, f2
<1>17. /\ Len(emis') = la + tete + zeros + lc + ld
       /\ emis' \in Seq(T)
       /\ \A i \in 1 .. la : emis'[i] = Espace
       /\ \A i \in 1 .. lo : emis'[la + i] = o[i]
       /\ \A i \in 1 .. lz : emis'[la + lo + i] = "0"
       /\ \A i \in 1 .. lw : emis'[la + lo + lz + i] = "0"
       /\ \A i \in 1 .. lc : emis'[la + tete + zeros + i] = chiffres[i]
       /\ \A i \in 1 .. ld : emis'[la + tete + zeros + lc + i] = Espace
  <2> HIDE DEF f1, f2, f3, vide
  <2>1. /\ emis' \in Seq(T)
        /\ Len(emis') = la + lo + lz + lw + lc + ld
        /\ Contient(emis', 0, a) /\ Contient(emis', la, o)
        /\ Contient(emis', la + lo, z) /\ Contient(emis', la + lo + lz, w)
        /\ Contient(emis', la + lo + lz + lw, c)
        /\ Contient(emis', la + lo + lz + lw + lc, d)
    <3> DEFINE e == a \o o \o z \o w \o c \o d
    <3>1. /\ e \in Seq(T)
          /\ Len(e) = la + lo + lz + lw + lc + Len(d)
          /\ Contient(e, 0, a) /\ Contient(e, la, o)
          /\ Contient(e, la + lo, z) /\ Contient(e, la + lo + lz, w)
          /\ Contient(e, la + lo + lz + lw, c)
          /\ Contient(e, la + lo + lz + lw + lc, d)
      <4>1. Mesures(T, a, o, z, w, c, d, la, lo, lz, lw, lc)
        BY <1>L DEF Mesures
      <4>2. Len(d) = ld
        BY <1>L
      <4> HIDE DEF e
      <4>3. QED
        BY <4>1, Assemblage DEF e
    <3>2. emis' = e
      BY <1>11
    <3> HIDE DEF e
    <3>3. QED
      BY <1>L, <3>1, <3>2
  <2>2. lo + lz + lw = tete + zeros
    BY <1>16
  <2>3. la + lo + lz + lw = la + tete + zeros
    BY <2>2
  <2>4. \A i \in 1 .. la : emis'[0 + i] = Espace
    <3>1. \A i \in 1 .. la : emis'[0 + i] = a[i] /\ a[i] = Espace
      BY <1>10, <1>L, <2>1 DEF Contient
    <3>2. QED
      BY <3>1
  <2>5. \A i \in 1 .. lo : emis'[la + i] = o[i]
    BY <1>L, <2>1 DEF Contient
  <2>6. \A i \in 1 .. lz : emis'[la + lo + i] = "0"
    <3>1. \A i \in 1 .. lz : z[i] = "0"
      BY <1>10, <1>L
    <3>2. \A i \in 1 .. lz : emis'[la + lo + i] = z[i]
      BY <1>L, <2>1 DEF Contient
    <3>3. QED
      BY <3>1, <3>2
  <2>7. \A i \in 1 .. lw : emis'[la + lo + lz + i] = "0"
    <3>1. \A i \in 1 .. lw : w[i] = "0"
      BY <1>10, <1>L
    <3>2. \A i \in 1 .. lw : emis'[la + lo + lz + i] = w[i]
      BY <1>L, <2>1 DEF Contient
    <3>3. QED
      BY <3>1, <3>2
  <2>8. \A i \in 1 .. lc : emis'[la + lo + lz + lw + i] = chiffres[i]
    BY <1>9, <1>L, <2>1 DEF Contient
  <2>9. \A i \in 1 .. ld : emis'[la + lo + lz + lw + lc + i] = Espace
    <3>1. \A i \in 1 .. ld : d[i] = Espace
      BY <1>10, <1>L
    <3>2. \A i \in 1 .. ld : emis'[la + lo + lz + lw + lc + i] = d[i]
      BY <1>L, <2>1 DEF Contient
    <3>3. QED
      BY <3>1, <3>2
  <2>10. \A i \in 1 .. la : emis'[i] = Espace
    BY <2>4
  <2>11. ASSUME NEW i \in 1 .. lc
         PROVE  emis'[la + tete + zeros + i] = chiffres[i]
    <3>1. la + tete + zeros + i = la + lo + lz + lw + i
      BY <2>3
    <3>2. QED
      BY <2>8, <3>1
  <2>12. ASSUME NEW i \in 1 .. ld
         PROVE  emis'[la + tete + zeros + lc + i] = Espace
    <3>1. la + tete + zeros + lc + i = la + lo + lz + lw + lc + i
      BY <2>3
    <3>2. QED
      BY <2>9, <3>1
  <2>13. Len(emis') = la + tete + zeros + lc + ld
    BY <2>1, <2>3
  <2>14. QED
    BY <2>1, <2>5, <2>6, <2>7, <2>10, <2>11, <2>12, <2>13
<1>18. ASSUME NEW i \in 1 .. zeros
       PROVE  emis'[la + tete + i] = "0"
  <2> DEFINE avant == lo - tete
  <2>1. avant \in {0, 1} /\ (avant = 1 => octal)
    BY <1>15, <1>16 DEF hexa, octal
  <2>2. CASE i \in 1 .. avant
    <3>1. octal /\ lo = 1 /\ tete = 0 /\ i = 1 /\ 1 \in 1 .. lo
      BY <1>15, <1>16, <2>1, <2>2 DEF hexa, octal
    <3>2. emis'[la + 1] = o[1]
      BY <1>17, <3>1
    <3>3. la + tete + i = la + 1
      BY <3>1
    <3>4. QED
      BY <1>16, <3>1, <3>2, <3>3
  <2>3. CASE i \in avant + 1 .. avant + lz
    <3>1. PICK h \in 1 .. lz : i = avant + h
      <4>1. i - avant \in 1 .. lz /\ i = avant + (i - avant)
        BY <2>1, <2>3
      <4>2. QED
        BY <4>1
    <3>2. la + tete + i = la + lo + h
      BY <3>1
    <3>3. emis'[la + lo + h] = "0"
      BY <1>17
    <3>4. QED
      BY <3>2, <3>3
  <2>4. CASE i \in avant + lz + 1 .. zeros
    <3>1. avant + lz + lw = zeros
      BY <1>16
    <3>2. PICK h \in 1 .. lw : i = avant + lz + h
      <4>1. /\ i - (avant + lz) \in 1 .. lw
            /\ i = avant + lz + (i - (avant + lz))
        BY <2>1, <2>4, <3>1
      <4>2. QED
        BY <4>1
    <3>3. la + tete + i = la + lo + lz + h
      BY <3>2
    <3>4. emis'[la + lo + lz + h] = "0"
      BY <1>17
    <3>5. QED
      BY <3>3, <3>4
  <2>5. \/ i \in 1 .. avant \/ i \in avant + 1 .. avant + lz
        \/ i \in avant + lz + 1 .. zeros
    <3> HIDE DEF avant
    <3>1. lz \in Nat
      OBVIOUS
    <3>2. QED
      BY <2>1, <3>1
  <2>6. QED
    BY <2>2, <2>3, <2>4, <2>5
<1>19. Disposition(emis', la, hexa, zeros)
  <2> DEFINE place == la + (IF hexa THEN 2 ELSE 0) + zeros
  <2>1. place = la + tete + zeros /\ place \in Nat
    BY <1>15
  <2>2. /\ Len(emis') = place + lc + ld /\ emis' \in Seq(T)
        /\ Len(chiffres) = lc
    BY <1>9, <1>L, <1>17, <2>1
  <2>3. /\ \A i \in 1 .. la : emis'[i] = Espace
        /\ \A i \in 1 .. lc : emis'[place + i] = chiffres[i]
    BY <1>17, <2>1
  <2>4. hexa => emis'[la + 1] = "0" /\ emis'[la + 2] = "x"
    <3>1. SUFFICES ASSUME hexa
                   PROVE  emis'[la + 1] = "0" /\ emis'[la + 2] = "x"
      OBVIOUS
    <3>2. 1 \in 1 .. lo /\ 2 \in 1 .. lo
      BY <1>16, <3>1
    <3>3. QED
      BY <1>16, <1>17, <3>1, <3>2
  <2>5. ASSUME NEW i \in place - zeros + 1 .. place
        PROVE  emis'[i] = "0"
    <3> HIDE DEF place
    <3>1. PICK h \in 1 .. zeros : i = la + tete + h
      <4>1. /\ i - (la + tete) \in 1 .. zeros
            /\ i = la + tete + (i - (la + tete))
        BY <2>1
      <4>2. QED
        BY <4>1
    <3>2. QED
      BY <1>18, <3>1
  <2>6. \/ place + lc = Len(emis')
        \/ emis'[place + lc + 1] = Espace
    <3>1. CASE ld = 0
      BY <2>1, <2>2, <3>1
    <3>2. CASE ld # 0
      <4>1. 1 \in 1 .. ld
        BY <3>2
      <4>2. emis'[la + tete + zeros + lc + 1] = Espace
        BY <1>17, <4>1
      <4>3. QED
        BY <2>1, <4>2
    <3>3. QED
      BY <3>1, <3>2
  <2>7. Len(emis') \in Nat /\ place + lc <= Len(emis')
    BY <2>1, <2>2
  <2>8. \E S1 : emis' \in Seq(S1)
    BY <2>2
  <2> HIDE DEF hexa, T
  <2>9. QED
    BY <2>2, <2>3, <2>4, <2>5, <2>6, <2>7, <2>8 DEF Disposition
<1>20. Base[conv] = 10 /\ ~options.zero /\ precision <= 1 => zeros = 0
  <2>1. SUFFICES ASSUME Base[conv] = 10, ~options.zero, precision <= 1
                 PROVE  zeros = 0
    OBVIOUS
  <2>2. f2 = 0 /\ Positif(f2) = 0
    BY <2>1 DEF f2, Positif
  <2>3. Positif(Zeros) = 0
    BY <1>2, <1>6, <2>1 DEF Zeros, Positif
  <2>4. QED
    <3>1. lz = 0 /\ lw = 0
      BY <1>10, <1>L, <2>2, <2>3
    <3>2. ~octal
      BY <2>1 DEF octal
    <3>3. QED
      BY <1>14, <3>1, <3>2
<1>21. octal => zeros # 0
  BY <1>14
<1>22. hexa \in BOOLEAN
  BY DEF hexa
<1>23. la \in Nat
  OBVIOUS
<1>24. QED
  BY <1>19, <1>20, <1>21, <1>22, <1>23 DEF hexa, octal

LEMMA EmissionRelue ==
  ASSUME RelectureEnCours, Emission PROVE RelectureEnCours'
<1>1. LargeurEnCours'
  BY LargeurInductive DEF RelectureEnCours, NextN
<1>2. /\ mot' = mot /\ conv' = conv /\ options' = options
      /\ chiffres' = chiffres /\ precision' = precision
      /\ etape = "emission" /\ etape' = "fini"
      /\ mot \in 0 .. NbLongs - 1 /\ conv \in DOMAIN Base
  BY DEF RelectureEnCours, Emission, Ecrit
<1>3. Signe' = Signe
  BY <1>2 DEF Signe, EnSigne
<1>4. ASSUME Signe = <<>>
      PROVE  /\ \E g : Deroule(g, mot)' /\ g[0] = 0
             /\ Len(chiffres) # 0
             /\ mot # 0 => chiffres[1] # "0"
             /\ Strtoul(emis', Base[conv]) = mot
             /\ options.altfmt
                  /\ ~(Base[conv] = 10 /\ (options.zero \/ precision > 1))
                 => (mot = 0 \/ Strtoul(emis', 0) = mot)
  <2>1. /\ Len(chiffres) # 0 /\ (mot # 0 => chiffres[1] # "0")
        /\ \E g : Deroule(g, mot) /\ g[0] = 0
    BY <1>2, <1>4 DEF RelectureEnCours
  <2>2. PICK g : Deroule(g, mot) /\ g[0] = 0
    BY <2>1
  <2>3. Deroule(g, mot)'
    BY <1>2, <2>2 DEF Deroule
  <2>4. PICK blancs \in Nat, hexa \in BOOLEAN, zeros \in Nat :
          /\ Disposition(emis', blancs, hexa, zeros)
          /\ hexa <=> mot # 0 /\ options.altfmt /\ Base[conv] = 16
          /\ mot # 0 /\ options.altfmt /\ Base[conv] = 8 => zeros # 0
          /\ Base[conv] = 10 /\ ~options.zero /\ precision <= 1 => zeros = 0
    BY <1>4, TetePas
  <2>5. mot \in Nat /\ mot < NbLongs /\ chiffres # <<>>
    <3>1. Len(<<>>) = 0
      OBVIOUS
    <3>2. QED
      BY <1>2, <2>1, <3>1, LongsOK
  <2>6. Base[conv] \in {8, 10, 16}
    BY <1>2 DEF Base
  <2>7. Strtoul(emis', Base[conv]) = mot
    <3>1. Base[conv] \in {0, Base[conv]} /\ Base[conv] # 0
      BY <2>6
    <3>2. QED
      BY <1>2, <2>1, <2>2, <2>4, <2>5, <3>1, StrtoulVaut
  <2>8. options.altfmt /\ mot # 0
          /\ ~(Base[conv] = 10 /\ (options.zero \/ precision > 1))
          => Strtoul(emis', 0) = mot
    <3>1. SUFFICES ASSUME options.altfmt, mot # 0,
                          ~(Base[conv] = 10
                              /\ (options.zero \/ precision > 1))
                   PROVE  Strtoul(emis', 0) = mot
      OBVIOUS
    <3>2. precision \in Int
      BY DEF RelectureEnCours, LargeurEnCours
    <3>3. \/ hexa
          \/ Base[conv] = 8 /\ zeros # 0
          \/ Base[conv] = 10 /\ zeros = 0 /\ chiffres[1] # "0"
      BY <2>1, <2>4, <2>6, <3>1, <3>2
    <3>4. 0 \in {0, Base[conv]}
      OBVIOUS
    <3>5. QED
      BY <1>2, <2>1, <2>2, <2>4, <2>5, <3>3, <3>4, StrtoulVaut
  <2>9. QED
    BY <2>1, <2>2, <2>3, <2>7, <2>8
<1>5. RelectureExacte'
  BY <1>2, <1>3, <1>4 DEF RelectureExacte
<1>6. QED
  BY <1>1, <1>2, <1>3, <1>4, <1>5 DEF RelectureEnCours

LEMMA RelectureInductive ==
  RelectureEnCours /\ [NextN]_varsN => RelectureEnCours'
<1> SUFFICES ASSUME RelectureEnCours, [NextN]_varsN PROVE RelectureEnCours'
  OBVIOUS
<1>1. CASE UNCHANGED varsN
  <2>1. LargeurEnCours'
    BY LargeurInductive DEF RelectureEnCours
  <2>2. QED
    BY <1>1, <2>1 DEF varsN, RelectureEnCours, RelectureExacte, Signe, EnSigne,
                      Deroule
<1>2. QED
  BY <1>1, ArgumentSuit, ChiffreSuit, EmissionRelue DEF NextN

\* The conversions and strtoul are inverse to each other: whatever word is
\* printed without a sign, with whatever flags, width and precision, strtoul
\* reads it back, and with base 0 too when the format shows the base.
THEOREM RelectureExacteTheoreme == SpecN => []RelectureExacte
<1>1. RelectureEnCours => RelectureExacte
  BY DEF RelectureEnCours
<1>2. QED
  BY <1>1, RelectureInitiale, RelectureInductive, PTL DEF SpecN

-----------------------------------------------------------------------------
(* One call.                                                               *)

LEMMA UnSeulAppel ==
  ASSUME [NextB]_varsB
  PROVE  /\ [NextM]_varsM /\ [NextC]_varsC /\ [NextR]_varsR /\ [NextI]_varsI
         /\ [NextN]_varsN /\ [NextF]_varsF /\ [NextA]_varsA
<1>1. CASE UNCHANGED varsB
  BY <1>1 DEF varsB
<1>2. CASE NextB
  BY <1>2 DEF NextB
<1>3. QED
  BY <1>1, <1>2

\* A call of one function of the library is, for every module of it, a
\* behaviour of that module: the theorems above hold of the specification
\* that the runs check.
THEOREM AppelTheoreme ==
  SpecB => /\ SpecM /\ SpecC /\ SpecR /\ SpecI /\ SpecN /\ SpecF /\ SpecA
<1>1. InitB => /\ InitM /\ InitC /\ InitR /\ InitI /\ InitN /\ InitF /\ InitA
  BY DEF InitB, ReposM, ReposC, ReposR, ReposI, ReposN, ReposF, ReposA
<1>2. QED
  BY <1>1, UnSeulAppel, PTL
     DEF SpecB, SpecM, SpecC, SpecR, SpecI, SpecN, SpecF, SpecA
=============================================================================
