----------------------------- MODULE IdlePreuves -----------------------------
(***************************************************************************)
(* The timer, then idle under it.                                          *)
(*                                                                         *)
(* For every period, every number of ticks in a second and every initial   *)
(* mtimecmp, no tick comes before mtvec or within the first period, the    *)
(* clock is never ahead of real time, and the next tick is never far.  The *)
(* argument follows the date of the next interrupt: while ou is "code",    *)
(* mtimecmp is at least nb_interruptions + 1 periods after depart, so that *)
(* a trap, which waits for mtimecmp, finds that much time gone.            *)
(*                                                                         *)
(* Idle under its timer is a behaviour of the timer and a behaviour of the *)
(* console, so that what is proved of each of the two holds of their       *)
(* composition.                                                            *)
(***************************************************************************)
EXTENDS Idle, SerieConsolePreuves, TLAPS

-----------------------------------------------------------------------------
(* The timer.                                                              *)

Demarrage == {"lit", "ecrit", "arme", "ouvre", "vecteur", "table"}
Service == {"trappe", "reprogramme", "ordonnance"}

TypeH ==
  /\ mtime \in Nat /\ mtimecmp \in Nat /\ timer \in Nat /\ depart \in Nat
  /\ nb_interruptions \in Nat /\ nb_secondes \in Nat
  /\ mtie \in BOOLEAN /\ mie \in BOOLEAN /\ mtvec \in BOOLEAN
  /\ table \in BOOLEAN
  /\ ou \in Demarrage \cup Service \cup {"code"}

\* Before the table exists: the interrupt cannot have been taken.
Amorce ==
  ou \in Demarrage =>
    /\ nb_interruptions = 0 /\ nb_secondes = 0
    /\ depart <= mtime
    /\ ou = "lit" => depart = 0
    /\ ou # "lit" => timer = depart
    /\ ou \in {"ecrit", "arme", "ouvre", "vecteur"}
         => mtime <= depart + AMORCAGE
    /\ ou \in {"lit", "ecrit", "arme"} => ~mtie
    /\ ou \in {"lit", "ecrit", "arme", "ouvre"} => ~mie
    /\ ou \notin {"lit", "ecrit"} => mtimecmp = depart + PERIODE
    /\ ou \in {"ouvre", "vecteur", "table"} => mtie
    /\ ou \in {"vecteur", "table"} => mie
    /\ ou = "table" => mtvec

\* The date of the next interrupt, and of the one in service.
Echeances ==
  /\ ou \in Service \cup {"code"} =>
       /\ mtie /\ mtvec /\ (table \/ egare)
       /\ depart + nb_interruptions * PERIODE <= mtime
       /\ timer <= mtime
       /\ mie <=> ou = "code"
  /\ ou = "code" =>
       /\ depart + (nb_interruptions + 1) * PERIODE <= mtimecmp
       /\ mtimecmp <= mtime + PERIODE
  /\ ou = "trappe" => depart + (nb_interruptions + 1) * PERIODE <= mtime
  /\ ou = "reprogramme" => depart + (nb_interruptions + 1) * PERIODE <= timer
  /\ ou = "ordonnance" =>
       /\ depart + (nb_interruptions + 1) * PERIODE <= mtimecmp
       /\ mtimecmp <= mtime + PERIODE

\* A second is counted on the tick that completes it.
Secondes ==
  /\ IT_FREQ * nb_secondes <= nb_interruptions
  /\ ou = "ordonnance" => IT_FREQ * nb_secondes < nb_interruptions

\* A trap that is lost stays where it is taken.
Perdu == egare => ou = "trappe" /\ mtvec /\ mtime >= depart + PERIODE

IInvH == TypeH /\ Perdu /\ Amorce /\ Echeances /\ Secondes

-----------------------------------------------------------------------------

\* One more period.
LEMMA UnePeriode ==
  \A n \in Nat : /\ n * PERIODE \in Nat
                 /\ (n + 1) * PERIODE = n * PERIODE + PERIODE
  BY MinuterieOK

\* The next multiple of IT_FREQ.
LEMMA MultipleSuivant ==
  ASSUME NEW s \in Nat, NEW n \in Nat, IT_FREQ * s < n, n % IT_FREQ = 0
  PROVE  IT_FREQ * (s + 1) <= n
<1> DEFINE q == n \div IT_FREQ
<1>1. q \in Int /\ n = IT_FREQ * q
  BY MinuterieOK
<1> HIDE DEF q
<1>2. s < q
  <2>1. SUFFICES ASSUME q <= s PROVE FALSE
    BY <1>1
  <2>2. IT_FREQ * q <= IT_FREQ * s
    BY <1>1, <2>1, MinuterieOK
  <2>3. QED
    BY <1>1, <2>2, MinuterieOK
<1>3. IT_FREQ * (s + 1) <= IT_FREQ * q
  BY <1>1, <1>2, MinuterieOK
<1>4. QED
  BY <1>1, <1>3

LEMMA InitIInvH == InitH => IInvH
<1> SUFFICES ASSUME InitH PROVE IInvH
  OBVIOUS
<1>1. TypeH /\ Perdu
  BY MinuterieOK DEF InitH, TypeH, Demarrage, Service, Perdu
<1>0. Amorce
  BY MinuterieOK DEF InitH, Amorce
<1>2. Echeances /\ Secondes
  BY MinuterieOK DEF InitH, Echeances, Secondes, Service
<1>3. QED
  BY <1>0, <1>1, <1>2 DEF IInvH

LEMMA NextIInvH == IInvH /\ [NextH]_varsH => IInvH'
<1> SUFFICES ASSUME IInvH, [NextH]_varsH PROVE IInvH'
  OBVIOUS
<1> USE MinuterieOK, AmorcageCourt DEF IInvH
<1>1. /\ nb_interruptions * PERIODE \in Nat
      /\ (nb_interruptions + 1) * PERIODE
           = nb_interruptions * PERIODE + PERIODE
      /\ ((nb_interruptions + 1) + 1) * PERIODE
           = nb_interruptions * PERIODE + PERIODE + PERIODE
  BY UnePeriode DEF TypeH
<1>2. CASE Temps
  <2>1. TypeH' /\ Perdu'
    BY <1>2 DEF Temps, TypeH, Perdu, controle, compteurs
  <2>2. Amorce'
    BY <1>2 DEF Temps, TypeH, Amorce, Demarrage, controle, compteurs
  <2>3. Echeances' /\ Secondes'
    BY <1>2, <1>1 DEF Temps, TypeH, Echeances, Secondes, Service, controle,
                      compteurs
  <2>4. QED
    BY <2>1, <2>2, <2>3
<1>3. CASE LitTimer \/ EcritCmp \/ Arme \/ Ouvre \/ InitTraitantTimer
  <2>0. Perdu'
    BY <1>3 DEF LitTimer, EcritCmp, Arme, Ouvre, InitTraitantTimer, controle,
                Perdu
  <2>1. TypeH'
    <3>1. CASE LitTimer \/ EcritCmp
      BY <3>1 DEF TypeH, Demarrage, LitTimer, EcritCmp, controle, compteurs
    <3>2. CASE Arme \/ Ouvre \/ InitTraitantTimer
      BY <3>2 DEF TypeH, Demarrage, Arme, Ouvre, InitTraitantTimer, compteurs
    <3>3. QED
      BY <1>3, <3>1, <3>2
  <2>2. Amorce'
    BY <1>3 DEF TypeH, Amorce, Demarrage, LitTimer, EcritCmp, Arme, Ouvre,
                InitTraitantTimer, controle, compteurs
  <2>3. ou' \notin Service \cup {"code"}
    BY <1>3 DEF Service, LitTimer, EcritCmp, Arme, Ouvre, InitTraitantTimer
  <2>4. Echeances' /\ Secondes'
    BY <1>3, <2>3 DEF Echeances, Secondes, Service, LitTimer, EcritCmp, Arme,
                      Ouvre, InitTraitantTimer, controle, compteurs
  <2>5. QED
    BY <2>0, <2>1, <2>2, <2>4
<1>4. CASE InitProc
  <2>1. TypeH' /\ Perdu' /\ Amorce'
    BY <1>4 DEF InitProc, TypeH, Perdu, Amorce, Demarrage, compteurs
  <2>2. Echeances'
    BY <1>4, <1>1 DEF InitProc, TypeH, Amorce, Demarrage, Echeances, Service,
                      compteurs
  <2>3. Secondes'
    BY <1>4 DEF InitProc, Secondes, compteurs
  <2>4. QED
    BY <2>1, <2>2, <2>3
<1>5. CASE Trappe
  <2>1. ou \in {"table", "code"}
    BY <1>5 DEF Trappe, Ouverte, TypeH, Amorce, Echeances, Demarrage, Service
  <2>2. ou = "table" => mtime >= depart + PERIODE /\ mtvec
    BY <1>5 DEF Trappe, Ouverte, TypeH, Amorce, Demarrage
  <2>3. ou = "code" => mtvec /\ table
    BY <1>5 DEF Trappe, Echeances
  <2>4. TypeH' /\ Perdu' /\ Amorce'
    BY <1>5, <2>1, <2>2, <2>3 DEF Trappe, TypeH, Perdu, Amorce, Demarrage,
                                  Service, compteurs
  <2>5. Echeances' /\ Secondes'
    <3>1. /\ mtie /\ mtvec /\ timer <= mtime
          /\ depart + (nb_interruptions + 1) * PERIODE <= mtime
          /\ IT_FREQ * nb_secondes <= nb_interruptions
      <4>1. CASE ou = "table"
        BY <2>2, <4>1, <1>1 DEF TypeH, Amorce, Demarrage
      <4>2. CASE ou = "code"
        BY <1>5, <4>2 DEF Trappe, Ouverte, TypeH, Echeances, Secondes
      <4>3. QED
        BY <2>1, <4>1, <4>2
    <3>2. /\ ou' = "trappe" /\ mie' = FALSE
          /\ table' = table /\ (egare' <=> ~(mtvec /\ table))
          /\ mtime' = mtime /\ mtie' = mtie /\ mtvec' = mtvec
          /\ timer' = timer /\ depart' = depart
          /\ nb_interruptions' = nb_interruptions
          /\ nb_secondes' = nb_secondes
      BY <1>5 DEF Trappe, compteurs
    <3>3. table' \/ egare'
      BY <3>2
    <3>4. Echeances'
      <4>1. /\ ou' # "code" /\ ou' # "reprogramme" /\ ou' # "ordonnance"
            /\ mie' <=> ou' = "code"
        BY <3>2
      <4>2. depart + nb_interruptions * PERIODE <= mtime
        BY <1>1, <3>1 DEF TypeH
      <4>3. QED
        BY <4>1, <4>2, <3>1, <3>2, <3>3 DEF Echeances
    <3>5. Secondes'
      BY <3>1, <3>2 DEF Secondes
    <3>6. QED
      BY <3>4, <3>5
  <2>6. QED
    BY <2>4, <2>5
<1>6. CASE RelitTimer
  <2>1. TypeH' /\ Perdu' /\ Amorce'
    BY <1>6 DEF RelitTimer, TypeH, Perdu, Amorce, Demarrage, Service,
                controle, compteurs
  <2>2. Echeances' /\ Secondes'
    BY <1>6, <1>1 DEF RelitTimer, TypeH, Echeances, Secondes, Service,
                      controle, compteurs
  <2>3. QED
    BY <2>1, <2>2
<1>7. CASE Reprogramme
  <2>1. TypeH' /\ Perdu' /\ Amorce'
    BY <1>7 DEF Reprogramme, TypeH, Perdu, Amorce, Demarrage, Service,
                controle
  <2>2. Echeances'
    BY <1>7, <1>1 DEF Reprogramme, TypeH, Echeances, Service, controle
  <2>3. Secondes'
    BY <1>7 DEF Reprogramme, TypeH, Secondes
  <2>4. QED
    BY <2>1, <2>2, <2>3
<1>8. CASE FinTraitant
  <2>1. TypeH' /\ Perdu' /\ Amorce'
    BY <1>8 DEF FinTraitant, TypeH, Perdu, Amorce, Demarrage, Service
  <2>2. Echeances'
    BY <1>8, <1>1 DEF FinTraitant, TypeH, Echeances, Service
  <2>3. Secondes'
    <3>1. /\ nb_secondes \in Nat /\ nb_interruptions \in Nat
          /\ IT_FREQ * nb_secondes < nb_interruptions
      BY <1>8 DEF FinTraitant, TypeH, Secondes
    <3>2. nb_interruptions % IT_FREQ = 0
            => IT_FREQ * (nb_secondes + 1) <= nb_interruptions
      BY <3>1, MultipleSuivant
    <3>3. QED
      BY <1>8, <3>1, <3>2 DEF FinTraitant, Secondes
  <2>4. QED
    BY <2>1, <2>2, <2>3
<1>9. CASE UNCHANGED varsH
  BY <1>9 DEF varsH, controle, compteurs, TypeH, Perdu, Amorce, Echeances,
              Secondes
<1>10. QED
  BY <1>2, <1>3, <1>4, <1>5, <1>6, <1>7, <1>8, <1>9 DEF NextH

LEMMA Invariant == SpecH => []IInvH
  BY InitIInvH, NextIInvH, PTL DEF SpecH

-----------------------------------------------------------------------------

\* No trap is taken before mtvec is set, and none before the table is unless
\* the first period is over.  AmorcageCourt bounds enable_timer and
\* init_traitant_timer, and nothing is assumed of init_proc.
THEOREM PremierTickPretTheoreme == SpecH => []PremierTickPret
<1>1. IInvH => PremierTickPret
  BY DEF IInvH, Perdu, PremierTickPret
<1>2. QED
  BY <1>1, Invariant, PTL

\* The clock never runs ahead of real time, whatever the delays of the
\* interrupts.
THEOREM HorlogeTheoreme == SpecH => []HorlogeJamaisEnAvance
<1>1. IInvH => HorlogeJamaisEnAvance
  <2> SUFFICES ASSUME IInvH PROVE HorlogeJamaisEnAvance
    OBVIOUS
  <2>1. /\ nb_interruptions \in Nat /\ nb_secondes \in Nat
        /\ mtime \in Nat /\ depart \in Nat
        /\ IT_FREQ * nb_secondes <= nb_interruptions
    BY DEF IInvH, TypeH, Secondes
  <2>2. nb_interruptions * PERIODE <= mtime - depart
    <3>1. CASE ou \in Demarrage
      BY <2>1, <3>1, MinuterieOK DEF IInvH, Amorce
    <3>2. CASE ou \in Service \cup {"code"}
      BY <2>1, <3>2, UnePeriode DEF IInvH, Echeances
    <3>3. QED
      BY <3>1, <3>2 DEF IInvH, TypeH
  <2>3. (IT_FREQ * nb_secondes) * PERIODE <= nb_interruptions * PERIODE
    BY <2>1, MinuterieOK
  <2>4. nb_secondes * (IT_FREQ * PERIODE) = (IT_FREQ * nb_secondes) * PERIODE
    BY <2>1, MinuterieOK
  <2>5. nb_interruptions * PERIODE \in Nat
    BY <2>1, UnePeriode
  <2>6. (IT_FREQ * nb_secondes) * PERIODE \in Nat
    BY <2>1, MinuterieOK
  <2>7. QED
    BY <2>1, <2>2, <2>3, <2>4, <2>5, <2>6 DEF HorlogeJamaisEnAvance
<1>2. QED
  BY <1>1, Invariant, PTL

\* Whenever idle may reach wfi, an interrupt is at most a period away.
THEOREM AttenteTheoreme == SpecH => []AttenteBornee
<1>1. IInvH => AttenteBornee
  BY DEF IInvH, AttenteBornee, Echeances
<1>2. QED
  BY <1>1, Invariant, PTL

-----------------------------------------------------------------------------
(* Idle.                                                                   *)

\* While idle or a process prints, the timer stutters; every other step is
\* one of the timer's own.
THEOREM IdleSuitMinuterie == SpecI => SpecH
<1>1. InitI => InitH
  BY DEF InitI
<1>2. [NextI]_varsI => [NextH]_varsH
  <2> SUFFICES ASSUME [NextI]_varsI PROVE [NextH]_varsH
    OBVIOUS
  <2>1. CASE Materiel
    BY <2>1 DEF Materiel, NextH
  <2>2. CASE RetourIdle
    BY <2>2 DEF RetourIdle, NextH
  <2>3. CASE IdleAvance \/ ProcessusAvance \/ UNCHANGED varsI
    BY <2>3 DEF IdleAvance, ProcessusAvance, varsI
  <2>4. QED
    BY <2>1, <2>2, <2>3 DEF NextI
<1>3. QED
  BY <1>1, <1>2, PTL DEF SpecI, SpecH

\* Wherever the timer interrupts it, the console takes one of its own steps or
\* none.
THEOREM IdleSuitConsole == SpecI => SpecC
<1>1. InitI => InitC
  BY DEF InitI
<1>2. [NextI]_varsI => [NextC]_varsC
  <2> SUFFICES ASSUME [NextI]_varsI PROVE [NextC]_varsC
    OBVIOUS
  <2>1. CASE Materiel \/ UNCHANGED varsI
    BY <2>1 DEF Materiel, varsI
  <2>2. CASE RetourIdle
    BY <2>2 DEF RetourIdle, NextC
  <2>3. CASE IdleAvance \/ ProcessusAvance
    BY <2>3 DEF IdleAvance, ProcessusAvance, NextC
  <2>4. QED
    BY <2>1, <2>2, <2>3 DEF NextI
<1>3. QED
  BY <1>1, <1>2, PTL DEF SpecI, SpecC

\* Idle interrupted at any instruction of its printf, in real time: the
\* properties of the timer and of the console together.
THEOREM IdleSur ==
  SpecI => [](/\ PremierTickPret /\ HorlogeJamaisEnAvance /\ AttenteBornee
              /\ CurseurBorneEntrelace /\ CurseurRetabli /\ AppareilsPrets
              /\ SerieFidele)
  BY IdleSuitMinuterie, IdleSuitConsole, PremierTickPretTheoreme,
     HorlogeTheoreme, AttenteTheoreme, CurseurBorneTheoreme,
     CurseurRetabliTheoreme, AppareilsPretsTheoreme, SerieFideleTheoreme, PTL
=============================================================================
