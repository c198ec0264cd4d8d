------------------------- MODULE OrdonnanceurPreuves -------------------------
(***************************************************************************)
(* Invariants of Ordonnanceur for every table size, every timer frequency  *)
(* and every set of sleeping times, with no bound on time.                 *)
(***************************************************************************)
EXTENDS Ordonnanceur, TablePreuves

USE TableNonVide, FrequenceOK, DureesOK

-----------------------------------------------------------------------------
(* The inductive invariant: the safety invariants of Ordonnanceur and what *)
(* they need to be preserved.                                              *)

\* Idle never sleeps and never ends, so ordonnance always finds a successor
\* for a process that sleeps or ends.
IdlePret == etat[0] \in {"ELU", "ACTIVABLE"}

\* Idle loses the CPU only inside the trap handler.
IdleSuspendu == actif # 0 => reprise[0] = "traitant"

\* The clock, also while an interrupt is in service: the second completed by
\* the current interrupt is not counted yet.
HorlogeEncadree ==
  IF mie THEN /\ IT_FREQ * nb_secondes <= nb_interruptions
              /\ nb_interruptions < IT_FREQ * (nb_secondes + 1)
         ELSE /\ IT_FREQ * nb_secondes < nb_interruptions
              /\ nb_interruptions <= IT_FREQ * (nb_secondes + 1)

Masque == SectionMasquee /\ IdleSuspendu

IInv ==
  /\ TypeOK
  /\ UnSeulElu
  /\ IdlePret
  /\ Masque
  /\ ReveilRespecte
  /\ RetardDUnTickAuPlus
  /\ HorlogeEncadree

-----------------------------------------------------------------------------
(* What a call to ordonnance guarantees.                                   *)

\* The table that ordonnance receives: idle can be elected, and nobody but
\* the elected process is ELU.
Convient(e) ==
  /\ e \in [Cases -> Etats]
  /\ \A i \in Crees(processus_crees) : e[i] = "ELU" => i = elu
  /\ e[0] = "ACTIVABLE" \/ (elu = 0 /\ e[0] = "ELU")

\* The walk over a woken table ends on a slot that can run: an ACTIVABLE one,
\* or the elected one when it is still ELU.
LEMMA OrdonnanceElit ==
  ASSUME TypeOK, NEW e, NEW r \in [Cases -> Nat], Convient(e),
         Ordonnance(e, r)
  PROVE  LET p == Reveille(e, Echu(r), processus_crees) IN
         \/ /\ elu = 0 /\ p[0] = "ELU"
            /\ etat' = p /\ elu' = elu /\ actif' = actif
         \/ /\ elu' \in Crees(processus_crees) /\ actif' = elu'
            /\ p[elu'] = "ACTIVABLE"
            /\ etat' = Elit(p, elu, elu')
<1> DEFINE p == Reveille(e, Echu(r), processus_crees)
<1>1. p[0] = e[0]
  BY DEF Reveille, Cases
<1>2. PICK t \in Crees(processus_crees) :
        /\ EstSuivant(p, elu, processus_crees, t)
        /\ \/ p[t] # "ACTIVABLE" /\ etat' = p /\ UNCHANGED <<elu, actif>>
           \/ /\ p[t] = "ACTIVABLE" /\ etat' = Elit(p, elu, t)
              /\ elu' = t /\ actif' = t
  BY Zenon DEF Ordonnance, CtxSw
<1>3. /\ processus_crees \in Nat \ {0}
      /\ elu \in Crees(processus_crees)
      /\ 0 \in Crees(processus_crees)
  BY DEF TypeOK, Crees
<1>4. CASE p[t] = "ACTIVABLE"
  BY <1>2, <1>4
<1>5. CASE p[t] # "ACTIVABLE"
  <2> HIDE DEF p
  <2>1. p[0] # "ACTIVABLE"
    BY <1>2, <1>3, <1>5, SuivantTrouve
  <2>2. elu = 0 /\ p[0] = "ELU"
    BY <1>1, <2>1 DEF Convient
  <2>3. QED
    BY <1>2, <1>5, <2>2 DEF p
<1>6. QED
  BY <1>4, <1>5

\* After ordonnance exactly one created slot is ELU, it is the one on the
\* CPU, idle is still ready, and no overdue sleeper is left.
LEMMA OrdonnanceEffet ==
  ASSUME TypeOK, actif = elu, NEW e, NEW r \in [Cases -> Nat], Convient(e),
         Ordonnance(e, r)
  PROVE  /\ etat' \in [Cases -> Etats]
         /\ elu' \in Crees(processus_crees)
         /\ actif' = elu'
         /\ \A i \in Crees(processus_crees) : etat'[i] = "ELU" <=> i = elu'
         /\ etat'[0] \in {"ELU", "ACTIVABLE"}
         /\ \A i \in Crees(processus_crees) :
              etat'[i] = "ENDORMI" => r[i] > nb_secondes
         /\ \A i \in Crees(processus_crees) :
              etat'[i] \in {"ELU", "ACTIVABLE"} =>
                e[i] \in {"ELU", "ACTIVABLE"} \/ r[i] <= nb_secondes
<1> DEFINE p == Reveille(e, Echu(r), processus_crees)
<1>1. /\ processus_crees \in 1 .. NB_PROCESSUS_MAX
      /\ Crees(processus_crees) \subseteq Cases
      /\ elu \in Crees(processus_crees)
      /\ 0 \in Crees(processus_crees)
      /\ nb_secondes \in Nat
  BY DEF TypeOK, Crees, Cases
<1>2. /\ p \in [Cases -> Etats]
      /\ p[0] = e[0]
      /\ \A i \in Crees(processus_crees) :
           /\ p[i] = "ELU" <=> e[i] = "ELU"
           /\ p[i] = "ENDORMI" => i = 0 \/ r[i] > nb_secondes
           /\ p[i] \in {"ELU", "ACTIVABLE"} =>
                e[i] \in {"ELU", "ACTIVABLE"} \/ r[i] <= nb_secondes
  <2>1. e \in [Cases -> Etats] /\ DOMAIN r = Cases
    BY DEF Convient
  <2>2. p = [i \in Cases |->
               IF i \in 1 .. processus_crees - 1 /\ e[i] = "ENDORMI"
                    /\ r[i] <= nb_secondes
               THEN "ACTIVABLE" ELSE e[i]]
    BY <2>1 DEF Reveille, Echu
  <2> HIDE DEF p
  <2>3. p \in [Cases -> Etats]
    BY <2>1, <2>2 DEF Etats
  <2>4. p[0] = e[0]
    BY <1>1, <2>2
  <2>5. ASSUME NEW i \in Crees(processus_crees)
        PROVE  /\ p[i] = "ELU" <=> e[i] = "ELU"
               /\ p[i] = "ENDORMI" => i = 0 \/ r[i] > nb_secondes
               /\ p[i] \in {"ELU", "ACTIVABLE"} =>
                    e[i] \in {"ELU", "ACTIVABLE"} \/ r[i] <= nb_secondes
    <3>1. /\ i \in Cases /\ i \in Int /\ r[i] \in Nat
          /\ i = 0 \/ i \in 1 .. processus_crees - 1
      BY <1>1 DEF Crees, Cases
    <3>2. p[i] = IF i \in 1 .. processus_crees - 1 /\ e[i] = "ENDORMI"
                    /\ r[i] <= nb_secondes
                 THEN "ACTIVABLE" ELSE e[i]
      BY <2>2, <3>1
    <3>3. QED
      BY <1>1, <3>1, <3>2
  <2>6. QED
    BY <2>3, <2>4, <2>5
<1>3. \/ /\ elu = 0 /\ p[0] = "ELU"
         /\ etat' = p /\ elu' = elu /\ actif' = actif
      \/ /\ elu' \in Crees(processus_crees) /\ actif' = elu'
         /\ p[elu'] = "ACTIVABLE"
         /\ etat' = Elit(p, elu, elu')
  BY OrdonnanceElit
<1> HIDE DEF p
<1>4. CASE /\ elu = 0 /\ p[0] = "ELU"
           /\ etat' = p /\ elu' = elu /\ actif' = actif
  BY <1>1, <1>2, <1>4 DEF Convient
<1>5. CASE /\ elu' \in Crees(processus_crees) /\ actif' = elu'
           /\ p[elu'] = "ACTIVABLE"
           /\ etat' = Elit(p, elu, elu')
  <2>1. /\ etat' \in [Cases -> Etats]
        /\ \A i \in Crees(processus_crees) :
             etat'[i] = IF i = elu' THEN "ELU"
                        ELSE IF i = elu /\ p[elu] = "ELU" THEN "ACTIVABLE"
                        ELSE p[i]
    BY <1>1, <1>2, <1>5 DEF Elit, Etats
  <2>2. QED
    BY <1>1, <1>2, <1>5, <2>1 DEF Convient
<1>6. QED
  BY <1>3, <1>4, <1>5

-----------------------------------------------------------------------------
(* The clock.                                                              *)

\* Quotient and remainder are determined by n = f * q + r with 0 <= r < f.
LEMMA DivisionUnique ==
  ASSUME NEW f \in Nat \ {0}, NEW q \in Nat, NEW r \in 0 .. f - 1,
         NEW n \in Nat, n = f * q + r
  PROVE  n % f = r /\ n \div f = q
<1> DEFINE x == n \div f
           y == n % f
<1>1. x \in Int /\ y \in 0 .. f - 1 /\ n = f * x + y
  OBVIOUS
<1> HIDE DEF x, y
<1>2. f * (x - q) = r - y
  <2>1. f * (x - q) = f * x - f * q
    BY <1>1
  <2>2. f * x \in Int /\ f * q \in Int
    BY <1>1
  <2>3. QED
    BY <1>1, <2>1, <2>2
<1>3. x - q < 1
  <2>1. SUFFICES ASSUME x - q >= 1 PROVE FALSE
    BY <1>1
  <2>2. f * (x - q) >= f
    BY <1>1, <2>1
  <2>3. QED
    BY <1>1, <1>2, <2>2
<1>4. x - q > -1
  <2>1. SUFFICES ASSUME x - q <= -1 PROVE FALSE
    BY <1>1
  <2>2. f * (x - q) <= -f
    BY <1>1, <2>1
  <2>3. QED
    BY <1>1, <1>2, <2>2
<1>5. x = q
  BY <1>1, <1>3, <1>4
<1>6. QED
  BY <1>1, <1>2, <1>5 DEF x, y

\* While an interrupt is in service, its count is a multiple of IT_FREQ
\* exactly when it completes a second that is not counted yet.
LEMMA SecondeComplete ==
  ASSUME NEW s \in Nat, NEW n \in Nat,
         IT_FREQ * s < n, n <= IT_FREQ * (s + 1)
  PROVE  n % IT_FREQ = 0 <=> n = IT_FREQ * (s + 1)
<1>1. CASE n = IT_FREQ * (s + 1)
  <2>1. s + 1 \in Nat /\ 0 \in 0 .. IT_FREQ - 1 /\ n = IT_FREQ * (s + 1) + 0
    BY <1>1
  <2>2. n % IT_FREQ = 0
    BY <2>1, DivisionUnique
  <2>3. QED
    BY <1>1, <2>2
<1>2. CASE n # IT_FREQ * (s + 1)
  <2>1. IT_FREQ * (s + 1) = IT_FREQ * s + IT_FREQ /\ IT_FREQ * s \in Nat
    OBVIOUS
  <2>2. n - IT_FREQ * s \in 1 .. IT_FREQ - 1
    BY <1>2, <2>1
  <2>3. n % IT_FREQ = n - IT_FREQ * s
    <3> DEFINE r == n - IT_FREQ * s
    <3>1. n = IT_FREQ * s + r
      BY <2>1
    <3>2. r \in 0 .. IT_FREQ - 1
      BY <2>2
    <3> HIDE DEF r
    <3>3. n % IT_FREQ = r
      BY <3>1, <3>2, DivisionUnique
    <3>4. QED
      BY <3>3 DEF r
  <2>4. QED
    BY <1>2, <2>1, <2>2, <2>3
<1>3. QED
  BY <1>1, <1>2

-----------------------------------------------------------------------------
(* Every action preserves the invariant.                                   *)

LEMMA InitIInv == Init => IInv
<1> SUFFICES ASSUME Init PROVE IInv
  OBVIOUS
<1>1. TypeOK
  BY DEF Init, TypeOK, Cases, Etats, Crees, Reprises
<1>2. UnSeulElu /\ IdlePret /\ Masque
  BY DEF Init, UnSeulElu, IdlePret, Masque, SectionMasquee, IdleSuspendu,
         Crees, Cases
<1>3. ReveilRespecte /\ RetardDUnTickAuPlus
  BY DEF Init, ReveilRespecte, RetardDUnTickAuPlus, Crees, Cases
<1>4. HorlogeEncadree
  BY DEF Init, HorlogeEncadree
<1>5. QED
  BY <1>1, <1>2, <1>3, <1>4 DEF IInv

LEMMA InterruptionIInv == IInv /\ Interruption => IInv'
<1> SUFFICES ASSUME IInv, Interruption PROVE IInv'
  OBVIOUS
<1>1. /\ TypeOK /\ actif = 0 /\ elu = 0 /\ etat[0] = "ELU"
      /\ mie /\ ~mie'
      /\ nb_secondes' = nb_secondes /\ processus_crees' = processus_crees
      /\ reveil_prevu' = reveil_prevu
      /\ nb_interruptions' = nb_interruptions + 1
      /\ reprise' = [reprise EXCEPT ![0] = "traitant"]
  BY DEF IInv, Interruption, Masque, SectionMasquee, UnSeulElu, TypeOK
<1>2. Convient(etat)
  BY <1>1 DEF IInv, Convient, TypeOK, UnSeulElu
<1>3. reveil_prevu \in [Cases -> Nat] /\ Ordonnance(etat, reveil_prevu)
  BY DEF Interruption, IInv, TypeOK
<1>4. /\ etat' \in [Cases -> Etats]
      /\ elu' \in Crees(processus_crees)
      /\ actif' = elu'
      /\ \A i \in Crees(processus_crees) : etat'[i] = "ELU" <=> i = elu'
      /\ etat'[0] \in {"ELU", "ACTIVABLE"}
      /\ \A i \in Crees(processus_crees) :
           etat'[i] = "ENDORMI" => reveil_prevu[i] > nb_secondes
      /\ \A i \in Crees(processus_crees) :
           etat'[i] \in {"ELU", "ACTIVABLE"} =>
             etat[i] \in {"ELU", "ACTIVABLE"} \/ reveil_prevu[i] <= nb_secondes
  BY <1>1, <1>2, <1>3, OrdonnanceEffet
<1>5. TypeOK'
  <2>1. reprise' \in [Cases -> Reprises]
    BY <1>1 DEF TypeOK, Reprises
  <2>2. mie' \in BOOLEAN
    BY DEF Interruption
  <2>3. QED
    BY <1>1, <1>4, <2>1, <2>2 DEF TypeOK
<1>6. UnSeulElu' /\ IdlePret'
  BY <1>1, <1>4 DEF UnSeulElu, IdlePret
<1>7. Masque'
  BY <1>1 DEF IInv, Masque, SectionMasquee, IdleSuspendu, TypeOK, Cases
<1>8. ReveilRespecte'
  BY <1>1, <1>4 DEF IInv, ReveilRespecte
<1>9. RetardDUnTickAuPlus'
  <2>1. /\ reveil_prevu \in [Cases -> Nat] /\ nb_secondes \in Nat
        /\ Crees(processus_crees) \subseteq Cases
    BY <1>1 DEF TypeOK, Crees, Cases
  <2>2. QED
    BY <1>1, <1>4, <2>1 DEF RetardDUnTickAuPlus
<1>10. HorlogeEncadree'
  <2>1. /\ IT_FREQ * nb_secondes \in Nat /\ nb_interruptions \in Nat
        /\ IT_FREQ * (nb_secondes + 1) \in Nat
    BY <1>1 DEF TypeOK
  <2>2. QED
    BY <1>1, <2>1 DEF IInv, HorlogeEncadree
<1>11. QED
  BY <1>5, <1>6, <1>7, <1>8, <1>9, <1>10 DEF IInv

LEMMA FinTraitantIInv == IInv /\ FinTraitant => IInv'
<1> SUFFICES ASSUME IInv, FinTraitant PROVE IInv'
  OBVIOUS
<1>1. /\ TypeOK /\ actif = 0 /\ ~mie /\ mie'
      /\ UNCHANGED <<etat, reveil_prevu, processus_crees, elu, actif,
                     nb_interruptions>>
      /\ reprise' = [reprise EXCEPT ![0] = "code"]
  <2>1. TypeOK /\ SectionMasquee
    BY DEF IInv, Masque
  <2>2. actif = 0
    BY <2>1 DEF FinTraitant, SectionMasquee, TypeOK, Crees, Cases
  <2>3. ~mie
    BY <2>1, <2>2 DEF FinTraitant, SectionMasquee
  <2>4. QED
    BY <2>1, <2>2, <2>3 DEF FinTraitant, Mret
<1>2. /\ nb_secondes \in Nat /\ nb_interruptions \in Nat
      /\ nb_secondes' = IF nb_interruptions % IT_FREQ = 0
                        THEN nb_secondes + 1 ELSE nb_secondes
  BY <1>1 DEF FinTraitant, Horloge, TypeOK
<1>3. /\ IT_FREQ * nb_secondes < nb_interruptions
      /\ nb_interruptions <= IT_FREQ * (nb_secondes + 1)
  BY <1>1 DEF IInv, HorlogeEncadree
<1>4. nb_interruptions % IT_FREQ = 0
        <=> nb_interruptions = IT_FREQ * (nb_secondes + 1)
  BY <1>2, <1>3, SecondeComplete
<1>5. TypeOK'
  <2>1. reprise' \in [Cases -> Reprises]
    BY <1>1 DEF TypeOK, Reprises
  <2>2. mie' \in BOOLEAN
    BY DEF FinTraitant, Mret
  <2>3. QED
    BY <1>1, <1>2, <2>1, <2>2 DEF TypeOK
<1>6. UnSeulElu' /\ IdlePret'
  BY <1>1 DEF IInv, UnSeulElu, IdlePret
<1>7. Masque'
  BY <1>1 DEF IInv, Masque, SectionMasquee, IdleSuspendu, TypeOK, Cases
<1>8. /\ reveil_prevu \in [Cases -> Nat]
      /\ Crees(processus_crees) \subseteq Cases
  BY <1>1 DEF TypeOK, Crees, Cases
<1>9. ReveilRespecte'
  BY <1>1, <1>2, <1>8 DEF IInv, ReveilRespecte
<1>10. RetardDUnTickAuPlus'
  BY <1>1, <1>2, <1>8 DEF IInv, RetardDUnTickAuPlus
<1>11. HorlogeEncadree'
  <2>1. CASE nb_interruptions = IT_FREQ * (nb_secondes + 1)
    <3>1. nb_secondes' = nb_secondes + 1
      BY <1>2, <1>4, <2>1
    <3>2. IT_FREQ * (nb_secondes + 1) < IT_FREQ * ((nb_secondes + 1) + 1)
      BY <1>2
    <3>3. QED
      BY <1>1, <1>2, <2>1, <3>1, <3>2 DEF HorlogeEncadree
  <2>2. CASE nb_interruptions # IT_FREQ * (nb_secondes + 1)
    <3>1. nb_secondes' = nb_secondes
      BY <1>2, <1>4, <2>2
    <3>2. /\ IT_FREQ * nb_secondes \in Nat
          /\ IT_FREQ * (nb_secondes + 1) \in Nat
      BY <1>2
    <3>3. QED
      BY <1>1, <1>2, <1>3, <2>2, <3>1, <3>2 DEF HorlogeEncadree
  <2>3. QED
    BY <2>1, <2>2
<1>12. QED
  BY <1>5, <1>6, <1>7, <1>9, <1>10, <1>11 DEF IInv

\* dors and fin_processus: the elected process, which is not idle, leaves the
\* ready set, then ordonnance runs with interrupts masked.
LEMMA QuitteIInv ==
  ASSUME IInv, EnCode, actif # 0,
         NEW x \in {"ENDORMI", "MORT"},
         reveil_prevu' \in [Cases -> Nat],
         \A i \in Cases : i # actif => reveil_prevu'[i] = reveil_prevu[i],
         Ordonnance([etat EXCEPT ![actif] = x], reveil_prevu'),
         UNCHANGED <<reprise, processus_crees, mie, nb_interruptions,
                     nb_secondes>>
  PROVE  IInv'
<1> DEFINE e == [etat EXCEPT ![actif] = x]
<1>1. /\ TypeOK /\ actif = elu /\ ~mie
      /\ etat \in [Cases -> Etats]
      /\ Crees(processus_crees) \subseteq Cases
      /\ actif \in Crees(processus_crees) /\ 0 \in Crees(processus_crees)
      /\ nb_secondes \in Nat
  BY DEF IInv, TypeOK, UnSeulElu, Masque, SectionMasquee, Crees, Cases
<1>2. /\ e \in [Cases -> Etats]
      /\ \A i \in Cases : e[i] = IF i = actif THEN x ELSE etat[i]
  BY <1>1 DEF Etats
<1>3. Convient(e)
  <2>1. etat[0] = "ACTIVABLE"
    BY <1>1 DEF IInv, IdlePret, UnSeulElu
  <2>2. \A i \in Crees(processus_crees) : e[i] # "ELU"
    BY <1>1, <1>2 DEF IInv, UnSeulElu
  <2>3. QED
    BY <1>1, <1>2, <2>1, <2>2 DEF Convient
<1> HIDE DEF e
<1>4. /\ etat' \in [Cases -> Etats]
      /\ elu' \in Crees(processus_crees)
      /\ actif' = elu'
      /\ \A i \in Crees(processus_crees) : etat'[i] = "ELU" <=> i = elu'
      /\ etat'[0] \in {"ELU", "ACTIVABLE"}
      /\ \A i \in Crees(processus_crees) :
           etat'[i] = "ENDORMI" => reveil_prevu'[i] > nb_secondes
      /\ \A i \in Crees(processus_crees) :
           etat'[i] \in {"ELU", "ACTIVABLE"} =>
             e[i] \in {"ELU", "ACTIVABLE"} \/ reveil_prevu'[i] <= nb_secondes
  <2>1. Ordonnance(e, reveil_prevu')
    BY DEF e
  <2>2. QED
    BY <1>1, <1>3, <2>1, OrdonnanceEffet
<1>5. TypeOK'
  BY <1>1, <1>4 DEF TypeOK
<1>6. UnSeulElu' /\ IdlePret'
  BY <1>4 DEF UnSeulElu, IdlePret
<1>7. Masque'
  BY <1>1 DEF IInv, Masque, SectionMasquee, IdleSuspendu
<1>8. ReveilRespecte'
  <2>1. ASSUME NEW i \in Crees(processus_crees),
               e[i] \in {"ELU", "ACTIVABLE"}
        PROVE  reveil_prevu'[i] <= nb_secondes
    BY <1>1, <1>2, <2>1 DEF IInv, ReveilRespecte
  <2>2. QED
    BY <1>4, <2>1 DEF ReveilRespecte
<1>9. RetardDUnTickAuPlus'
  BY <1>1, <1>4 DEF RetardDUnTickAuPlus
<1>10. HorlogeEncadree'
  BY DEF IInv, HorlogeEncadree
<1>11. QED
  BY <1>5, <1>6, <1>7, <1>8, <1>9, <1>10 DEF IInv

LEMMA DorsIInv == ASSUME NEW n \in Durees PROVE IInv /\ Dors(n) => IInv'
<1> SUFFICES ASSUME IInv, Dors(n) PROVE IInv'
  OBVIOUS
<1>1. /\ reveil_prevu' = [reveil_prevu EXCEPT ![actif] = nb_secondes + n]
      /\ reveil_prevu \in [Cases -> Nat]
      /\ nb_secondes + n \in Nat
  BY DEF IInv, Dors, TypeOK
<1>2. /\ reveil_prevu' \in [Cases -> Nat]
      /\ \A i \in Cases : i # actif => reveil_prevu'[i] = reveil_prevu[i]
  BY <1>1
<1>3. QED
  BY <1>2, QuitteIInv DEF Dors

LEMMA FinProcessusIInv == IInv /\ FinProcessus => IInv'
<1> SUFFICES ASSUME IInv, FinProcessus PROVE IInv'
  OBVIOUS
<1>1. reveil_prevu' = reveil_prevu /\ reveil_prevu \in [Cases -> Nat]
  BY DEF IInv, FinProcessus, TypeOK
<1>2. QED
  BY <1>1, QuitteIInv DEF FinProcessus

LEMMA CreeProcessusIInv ==
  ASSUME NEW c \in 1 .. processus_crees
  PROVE  IInv /\ CreeProcessus(c) => IInv'
<1> SUFFICES ASSUME IInv, CreeProcessus(c) PROVE IInv'
  OBVIOUS
<1>1. /\ TypeOK
      /\ etat' = [etat EXCEPT ![c] = "ACTIVABLE"]
      /\ reprise' = [reprise EXCEPT ![c] = "code"]
      /\ reveil_prevu' = [reveil_prevu EXCEPT ![c] = 0]
      /\ processus_crees' = NouveauCompte(processus_crees, c)
      /\ UNCHANGED <<elu, actif, mie, nb_interruptions, nb_secondes>>
      /\ processus_crees < NB_PROCESSUS_MAX
  BY DEF IInv, CreeProcessus, TablePleine, TypeOK
<1>2. /\ c \in Cases /\ c # 0
      /\ processus_crees' \in 1 .. NB_PROCESSUS_MAX
      /\ Crees(processus_crees) \subseteq Crees(processus_crees')
      /\ Crees(processus_crees') \subseteq Cases
      /\ \A i \in Crees(processus_crees') :
           i = c \/ i \in Crees(processus_crees)
  BY <1>1 DEF TypeOK, NouveauCompte, Crees, Cases
<1>3. elu # c /\ elu \in Crees(processus_crees)
  <2>1. c = processus_crees \/ etat[c] = "MORT"
    BY DEF CreeProcessus, EstCaseLibre
  <2>2. QED
    BY <1>1, <2>1 DEF IInv, TypeOK, UnSeulElu, Crees
<1>4. TypeOK'
  BY <1>1, <1>2, <1>3 DEF IInv, TypeOK, UnSeulElu, Etats, Reprises
<1>5. UnSeulElu' /\ IdlePret'
  BY <1>1, <1>2, <1>3 DEF IInv, TypeOK, UnSeulElu, IdlePret
<1>6. Masque'
  BY <1>1, <1>2 DEF IInv, TypeOK, Masque, SectionMasquee, IdleSuspendu, Cases
<1>7. ReveilRespecte'
  BY <1>1, <1>2 DEF IInv, TypeOK, ReveilRespecte
<1>8. RetardDUnTickAuPlus'
  BY <1>1, <1>2 DEF IInv, TypeOK, RetardDUnTickAuPlus
<1>9. HorlogeEncadree'
  BY <1>1 DEF IInv, HorlogeEncadree
<1>10. QED
  BY <1>4, <1>5, <1>6, <1>7, <1>8, <1>9 DEF IInv

LEMMA NextIInv == IInv /\ [Next]_vars => IInv'
<1> SUFFICES ASSUME IInv, [Next]_vars PROVE IInv'
  OBVIOUS
<1>1. CASE Interruption
  BY <1>1, InterruptionIInv
<1>2. CASE FinTraitant
  BY <1>2, FinTraitantIInv
<1>3. CASE \E n \in Durees : Dors(n)
  BY <1>3, DorsIInv
<1>4. CASE FinProcessus
  BY <1>4, FinProcessusIInv
<1>5. CASE \E c \in 1 .. processus_crees : CreeProcessus(c)
  BY <1>5, CreeProcessusIInv
<1>6. CASE UNCHANGED vars
  BY <1>6 DEF vars, IInv, TypeOK, UnSeulElu, IdlePret, Masque, SectionMasquee,
              IdleSuspendu, ReveilRespecte, RetardDUnTickAuPlus,
              HorlogeEncadree
<1>7. CASE CreationRefusee
  BY <1>6, <1>7 DEF CreationRefusee
<1>8. QED
  BY <1>1, <1>2, <1>3, <1>4, <1>5, <1>6, <1>7 DEF Next

-----------------------------------------------------------------------------
(* The theorems.                                                           *)

LEMMA Invariance == Spec => []IInv
<1>1. Init => IInv
  BY InitIInv
<1>2. IInv /\ [Next]_vars => IInv'
  BY NextIInv
<1>3. QED
  BY <1>1, <1>2, PTL DEF Spec

\* Every reachable table has the shape the C declarations promise; elu and
\* actif always index a slot that was created.
THEOREM TypeCorrect == Spec => []TypeOK
<1>1. IInv => TypeOK
  BY DEF IInv
<1>2. QED
  BY <1>1, Invariance, PTL

\* ordonnance, dors, fin_processus and cree_processus keep exactly one created
\* slot ELU, the one whose context is on the CPU.
THEOREM UnSeulEluTheoreme == Spec => []UnSeulElu
<1>1. IInv => UnSeulElu
  BY DEF IInv
<1>2. QED
  BY <1>1, Invariance, PTL

\* Only idle runs with interrupts open, and only idle is ever suspended
\* inside trap_handler.
THEOREM SectionMasqueeTheoreme == Spec => []SectionMasquee
<1>1. IInv => SectionMasquee
  BY DEF IInv, Masque
<1>2. QED
  BY <1>1, Invariance, PTL

\* dors(n) never gives the CPU back before its deadline.
THEOREM ReveilRespecteTheoreme == Spec => []ReveilRespecte
<1>1. IInv => ReveilRespecte
  BY DEF IInv
<1>2. QED
  BY <1>1, Invariance, PTL

\* An overdue sleeper waits for one interrupt at most before it is woken.
THEOREM RetardTheoreme == Spec => []RetardDUnTickAuPlus
<1>1. IInv => RetardDUnTickAuPlus
  BY DEF IInv
<1>2. QED
  BY <1>1, Invariance, PTL

\* nb_secondes, read by idle, is nb_interruptions divided by IT_FREQ.
THEOREM HorlogeTheoreme == Spec => []HorlogeExacte
<1>1. IInv => HorlogeExacte
  <2>1. SUFFICES ASSUME IInv, mie
                 PROVE  nb_secondes = nb_interruptions \div IT_FREQ
    BY DEF HorlogeExacte
  <2>2. nb_secondes \in Nat /\ nb_interruptions \in Nat
    BY <2>1 DEF IInv, TypeOK
  <2>3. /\ IT_FREQ * nb_secondes <= nb_interruptions
        /\ nb_interruptions < IT_FREQ * (nb_secondes + 1)
    BY <2>1 DEF IInv, HorlogeEncadree
  <2>4. IT_FREQ * (nb_secondes + 1) = IT_FREQ * nb_secondes + IT_FREQ
        /\ IT_FREQ * nb_secondes \in Nat
    BY <2>2
  <2> DEFINE r == nb_interruptions - IT_FREQ * nb_secondes
  <2>5. r \in 0 .. IT_FREQ - 1 /\ nb_interruptions = IT_FREQ * nb_secondes + r
    BY <2>2, <2>3, <2>4
  <2> HIDE DEF r
  <2>6. QED
    BY <2>2, <2>5, DivisionUnique
<1>2. QED
  BY <1>1, Invariance, PTL

\* No call changes the deadline of a process other than its caller, unless
\* that process is dead and its slot is handed out again.
THEOREM SommeilIntactTheoreme == Spec => SommeilIntact
<1> DEFINE Intact ==
      \A i \in Crees(processus_crees) :
        reveil_prevu'[i] # reveil_prevu[i] => i = actif \/ etat[i] = "MORT"
<1>1. IInv /\ [Next]_vars => [Intact]_vars
  <2>1. SUFFICES ASSUME IInv, Next, NEW i \in Crees(processus_crees),
                        reveil_prevu'[i] # reveil_prevu[i]
                 PROVE  i = actif \/ etat[i] = "MORT"
    OBVIOUS
  <2>2. /\ reveil_prevu \in [Cases -> Nat]
        /\ processus_crees \in 1 .. NB_PROCESSUS_MAX
        /\ i \in Cases /\ i # processus_crees
    BY <2>1 DEF IInv, TypeOK, Cases, Crees
  <2>3. CASE \E n \in Durees : Dors(n)
    BY <2>1, <2>2, <2>3 DEF Dors
  <2>4. CASE \E c \in 1 .. processus_crees : CreeProcessus(c)
    <3>1. PICK c \in 1 .. processus_crees : CreeProcessus(c)
      BY <2>4
    <3>2. i = c
      BY <2>1, <2>2, <3>1 DEF CreeProcessus
    <3>3. QED
      BY <2>2, <3>1, <3>2 DEF CreeProcessus, EstCaseLibre
  <2>5. CASE Interruption \/ FinTraitant \/ FinProcessus \/ CreationRefusee
    BY <2>1, <2>5 DEF Interruption, FinTraitant, FinProcessus,
                      CreationRefusee, vars
  <2>6. QED
    BY <2>1, <2>3, <2>4, <2>5 DEF Next
<1>2. QED
  BY <1>1, Invariance, PTL DEF Spec, SommeilIntact

-----------------------------------------------------------------------------
(* Ordonnanceur implements Tourniquet: each step of the former, seen       *)
(* through Restant, is a step of the latter or a stutter.                  *)

\* What remains to be slept for, in a table and deadlines in the hands of
\* ordonnance.
Reste(e, r) ==
  [i \in Cases |-> IF e[i] = "ENDORMI" /\ r[i] > nb_secondes
                   THEN r[i] - nb_secondes ELSE 0]

\* Due slots are those with nothing left to sleep, so ordonnance chooses the
\* process that Tourniquet passes the CPU to.
LEMMA OrdonnancePasse ==
  ASSUME TypeOK, NEW e \in [Cases -> Etats], NEW r \in [Cases -> Nat],
         Ordonnance(e, r)
  PROVE  T!Passe(e, Reste(e, r))
<1> DEFINE p == Reveille(e, Echu(r), processus_crees)
           q == T!Reveille(e, [i \in T!Cases |-> Reste(e, r)[i] = 0],
                           processus_crees)
<1>1. p = q
  <2>1. ASSUME NEW i \in Cases, e[i] = "ENDORMI"
        PROVE  Reste(e, r)[i] = 0 <=> r[i] <= nb_secondes
    BY <2>1 DEF Reste, TypeOK
  <2>2. \A i \in Cases :
          /\ Echu(r)[i] <=> r[i] <= nb_secondes
          /\ [j \in T!Cases |-> Reste(e, r)[j] = 0][i]
               <=> Reste(e, r)[i] = 0
    BY DEF Echu, Cases, T!Cases
  <2>3. QED
    BY <2>1, <2>2 DEF Reveille, T!Reveille, Cases, T!Cases
<1> HIDE DEF p, q
<1>2. PICK t \in Crees(processus_crees) :
        /\ EstSuivant(p, elu, processus_crees, t)
        /\ \/ p[t] # "ACTIVABLE" /\ etat' = p /\ UNCHANGED <<elu, actif>>
           \/ /\ p[t] = "ACTIVABLE" /\ etat' = Elit(p, elu, t)
              /\ elu' = t /\ CtxSw(t)
  BY DEF Ordonnance, p
<1>3. t \in T!Crees(processus_crees)
  BY DEF Crees, T!Crees
<1>4. T!EstSuivant(p, elu, processus_crees, t)
  BY <1>2 DEF EstSuivant, T!EstSuivant
<1>5. T!Elit(p, elu, t) = Elit(p, elu, t)
  BY DEF Elit, T!Elit
<1>6. \/ p[t] # "ACTIVABLE" /\ etat' = p /\ UNCHANGED elu
      \/ p[t] = "ACTIVABLE" /\ etat' = T!Elit(p, elu, t) /\ elu' = t
  BY <1>2, <1>5
<1>7. QED
  BY <1>1, <1>3, <1>4, <1>6 DEF T!Passe, q

\* ordonnance wakes only those who have nothing left to sleep.
LEMMA OrdonnanceReste ==
  ASSUME TypeOK, NEW e, NEW r \in [Cases -> Nat], Convient(e),
         Ordonnance(e, r), reveil_prevu' = r, nb_secondes' = nb_secondes
  PROVE  Restant' = Reste(e, r)
<1> DEFINE p == Reveille(e, Echu(r), processus_crees)
<1>1. \A i \in Cases : p[i] = IF i \in 1 .. processus_crees - 1
                                 /\ e[i] = "ENDORMI" /\ r[i] <= nb_secondes
                              THEN "ACTIVABLE" ELSE e[i]
  BY DEF Reveille, Echu
<1>2. p \in [Cases -> Etats]
  BY DEF Reveille, Convient, Etats
<1>3. \/ /\ elu = 0 /\ p[0] = "ELU"
         /\ etat' = p /\ elu' = elu /\ actif' = actif
      \/ /\ elu' \in Crees(processus_crees) /\ actif' = elu'
         /\ p[elu'] = "ACTIVABLE"
         /\ etat' = Elit(p, elu, elu')
  BY OrdonnanceElit
<1> HIDE DEF p
<1>4. elu \in Cases /\ Crees(processus_crees) \subseteq Cases
  BY DEF TypeOK, Crees, Cases
<1>5. \/ etat' = p
      \/ /\ elu' \in Cases /\ elu \in Cases
         /\ p[elu'] = "ACTIVABLE"
         /\ etat' = Elit(p, elu, elu')
  BY <1>3, <1>4
<1>6. ASSUME NEW i \in Cases
      PROVE  etat'[i] = "ENDORMI" <=> p[i] = "ENDORMI"
  BY <1>2, <1>5 DEF Elit
<1>7. ASSUME NEW i \in Cases
      PROVE  etat'[i] = "ENDORMI" /\ r[i] > nb_secondes
               <=> e[i] = "ENDORMI" /\ r[i] > nb_secondes
  <2>1. r[i] \in Nat /\ nb_secondes \in Nat
    BY DEF TypeOK
  <2>2. QED
    BY <1>1, <1>6, <2>1
<1>8. QED
  BY <1>7 DEF Restant, Reste

\* What both schedulers see of the table.
LEMMA Releve ==
  ASSUME TypeOK
  PROVE  /\ Restant = Reste(etat, reveil_prevu)
         /\ Restant \in [Cases -> Nat]
         /\ \A i \in Cases : etat[i] # "ENDORMI" => Restant[i] = 0
<1>1. Restant = Reste(etat, reveil_prevu)
  BY DEF Restant, Reste
<1>2. ASSUME NEW i \in Cases
      PROVE  (IF etat[i] = "ENDORMI" /\ reveil_prevu[i] > nb_secondes
              THEN reveil_prevu[i] - nb_secondes ELSE 0) \in Nat
  BY DEF TypeOK
<1>3. QED
  BY <1>1, <1>2 DEF Restant

LEMMA PhaseSuivante ==
  ASSUME NEW n \in Nat
  PROVE  (n + 1) % IT_FREQ = ((n % IT_FREQ) + 1) % IT_FREQ
<1> DEFINE q == n \div IT_FREQ
           r == n % IT_FREQ
<1>1. q \in Nat /\ r \in 0 .. IT_FREQ - 1 /\ n = IT_FREQ * q + r
  OBVIOUS
<1> HIDE DEF q, r
<1>2. IT_FREQ * (q + 1) = IT_FREQ * q + IT_FREQ /\ IT_FREQ * q \in Nat
  BY <1>1
<1>3. CASE r + 1 < IT_FREQ
  <2>1. /\ r + 1 \in 0 .. IT_FREQ - 1 /\ n + 1 \in Nat
        /\ n + 1 = IT_FREQ * q + (r + 1)
    BY <1>1, <1>2, <1>3
  <2>2. (n + 1) % IT_FREQ = r + 1
    BY <1>1, <2>1, DivisionUnique
  <2>3. (r + 1) % IT_FREQ = r + 1
    BY <1>1, <1>3
  <2>4. QED
    BY <2>2, <2>3 DEF r
<1>4. CASE r + 1 = IT_FREQ
  <2>1. n + 1 = IT_FREQ * (q + 1) + 0 /\ q + 1 \in Nat /\ n + 1 \in Nat
    BY <1>1, <1>2, <1>4
  <2>2. (n + 1) % IT_FREQ = 0
    BY <2>1, DivisionUnique
  <2>3. (r + 1) % IT_FREQ = 0
    BY <1>4
  <2>4. QED
    BY <2>2, <2>3 DEF r
<1>5. QED
  BY <1>1, <1>3, <1>4

LEMMA InitSuit == Init => T!Init
<1> SUFFICES ASSUME Init PROVE T!Init
  OBVIOUS
<1>1. Restant = [i \in T!Cases |-> 0]
  BY DEF Init, Restant, Cases, T!Cases
<1>2. reprise[0] # "traitant" /\ nb_interruptions % IT_FREQ = 0
  BY DEF Init, Cases
<1>3. QED
  BY <1>1, <1>2 DEF Init, T!Init, Cases, T!Cases

LEMMA TickSuit == IInv /\ Interruption => T!Tick
<1> SUFFICES ASSUME IInv, Interruption PROVE T!Tick
  OBVIOUS
<1>1. /\ TypeOK /\ actif = 0 /\ elu = 0 /\ etat[0] = "ELU" /\ mie
      /\ UNCHANGED <<nb_secondes, processus_crees, reveil_prevu>>
      /\ nb_interruptions' = nb_interruptions + 1
      /\ nb_interruptions \in Nat
      /\ reprise' = [reprise EXCEPT ![0] = "traitant"]
      /\ Ordonnance(etat, reveil_prevu)
  BY DEF IInv, Interruption, Masque, SectionMasquee, UnSeulElu, TypeOK
<1>2. reprise[0] # "traitant" /\ reprise'[0] = "traitant"
  BY <1>1 DEF IInv, Masque, SectionMasquee, TypeOK, Cases
<1>3. nb_interruptions' % IT_FREQ
        = ((nb_interruptions % IT_FREQ) + 1) % IT_FREQ
  BY <1>1, PhaseSuivante
<1>4. /\ etat \in [Cases -> Etats] /\ reveil_prevu \in [Cases -> Nat]
      /\ Restant = Reste(etat, reveil_prevu)
  BY <1>1, Releve DEF TypeOK
<1>5. T!Passe(etat, Restant)
  BY <1>1, <1>4, OrdonnancePasse
<1>6. Convient(etat)
  BY <1>1 DEF IInv, Convient, TypeOK, UnSeulElu
<1>7. Restant' = Restant
  BY <1>1, <1>4, <1>6, OrdonnanceReste
<1>8. QED
  BY <1>1, <1>2, <1>3, <1>5, <1>7 DEF T!Tick

LEMMA RetourSuit == IInv /\ FinTraitant => T!Retour
<1> SUFFICES ASSUME IInv, FinTraitant PROVE T!Retour
  OBVIOUS
<1>1. /\ TypeOK /\ actif = 0 /\ elu = 0
      /\ reprise[0] = "traitant"
      /\ UNCHANGED <<etat, reveil_prevu, processus_crees, elu,
                     nb_interruptions>>
      /\ reprise' = [reprise EXCEPT ![0] = "code"]
      /\ nb_secondes' = IF nb_interruptions % IT_FREQ = 0
                        THEN nb_secondes + 1 ELSE nb_secondes
  <2>1. TypeOK /\ SectionMasquee /\ UnSeulElu
    BY DEF IInv, Masque
  <2>2. actif = 0
    BY <2>1 DEF FinTraitant, SectionMasquee, TypeOK, Crees, Cases
  <2>3. QED
    BY <2>1, <2>2 DEF FinTraitant, Mret, Horloge, UnSeulElu
<1>2. reprise'[0] # "traitant"
  BY <1>1 DEF TypeOK, Cases
<1>3. nb_interruptions' % IT_FREQ = nb_interruptions % IT_FREQ
  BY <1>1
<1>4. Restant' = IF nb_interruptions % IT_FREQ = 0
                 THEN T!Moins(Restant) ELSE Restant
  <2>1. CASE nb_interruptions % IT_FREQ = 0
    <3>1. ASSUME NEW i \in Cases
          PROVE  (IF etat[i] = "ENDORMI" /\ reveil_prevu[i] > nb_secondes + 1
                  THEN reveil_prevu[i] - (nb_secondes + 1) ELSE 0)
                 = IF Restant[i] > 0 THEN Restant[i] - 1 ELSE 0
      BY <1>1 DEF Restant, TypeOK
    <3>2. Restant' = [i \in Cases |->
                        IF Restant[i] > 0 THEN Restant[i] - 1 ELSE 0]
      BY <1>1, <2>1, <3>1 DEF Restant
    <3>3. QED
      BY <2>1, <3>2 DEF T!Moins, Cases, T!Cases
  <2>2. CASE nb_interruptions % IT_FREQ # 0
    BY <1>1, <2>2 DEF Restant
  <2>3. QED
    BY <2>1, <2>2
<1>5. QED
  BY <1>1, <1>2, <1>3, <1>4 DEF T!Retour

LEMMA EndortSuit ==
  ASSUME NEW n \in Durees
  PROVE  IInv /\ Dors(n) => T!Endort(n)
<1> SUFFICES ASSUME IInv, Dors(n) PROVE T!Endort(n)
  OBVIOUS
<1> DEFINE e == [etat EXCEPT ![elu] = "ENDORMI"]
<1>1. /\ TypeOK /\ actif = elu /\ elu # 0 /\ elu \in Cases
      /\ n \in Nat /\ nb_secondes \in Nat
      /\ etat[0] = "ACTIVABLE"
      /\ reveil_prevu' = [reveil_prevu EXCEPT ![elu] = nb_secondes + n]
      /\ reveil_prevu' \in [Cases -> Nat]
      /\ Ordonnance(e, reveil_prevu')
      /\ UNCHANGED <<reprise, processus_crees, nb_interruptions, nb_secondes>>
  BY DEF IInv, Dors, TypeOK, UnSeulElu, IdlePret, Crees, Cases
<1>2. e \in [Cases -> Etats] /\ Convient(e)
  BY <1>1 DEF IInv, TypeOK, UnSeulElu, Convient, Etats, Crees, Cases
<1>3. Reste(e, reveil_prevu') = [Restant EXCEPT ![elu] = n]
  <2>1. ASSUME NEW i \in Cases
        PROVE  (IF e[i] = "ENDORMI" /\ reveil_prevu'[i] > nb_secondes
                THEN reveil_prevu'[i] - nb_secondes ELSE 0)
               = IF i = elu THEN n ELSE Restant[i]
    BY <1>1 DEF Restant, TypeOK
  <2>2. QED
    BY <1>1, <2>1 DEF Reste, Restant
<1> HIDE DEF e
<1>4. T!Passe(e, [Restant EXCEPT ![elu] = n])
  <2>1. T!Passe(e, Reste(e, reveil_prevu'))
    BY <1>1, <1>2, OrdonnancePasse
  <2>2. QED
    BY <1>3, <2>1, Zenon
<1>5. Restant' = [Restant EXCEPT ![elu] = n]
  BY <1>1, <1>2, <1>3, OrdonnanceReste
<1>6. QED
  BY <1>1, <1>4, <1>5 DEF T!Endort, e

LEMMA TermineSuit == IInv /\ FinProcessus => T!Termine
<1> SUFFICES ASSUME IInv, FinProcessus PROVE T!Termine
  OBVIOUS
<1> DEFINE e == [etat EXCEPT ![elu] = "MORT"]
<1>1. /\ TypeOK /\ actif = elu /\ elu # 0 /\ elu \in Cases
      /\ etat[0] = "ACTIVABLE" /\ etat[elu] = "ELU"
      /\ reveil_prevu' = reveil_prevu
      /\ reveil_prevu \in [Cases -> Nat]
      /\ Ordonnance(e, reveil_prevu)
      /\ UNCHANGED <<reprise, processus_crees, nb_interruptions, nb_secondes>>
  BY DEF IInv, FinProcessus, TypeOK, UnSeulElu, IdlePret, Crees, Cases
<1>2. e \in [Cases -> Etats] /\ Convient(e)
  BY <1>1 DEF IInv, TypeOK, UnSeulElu, Convient, Etats, Crees, Cases
<1>3. Reste(e, reveil_prevu) = Restant
  BY <1>1 DEF Reste, Restant, TypeOK
<1> HIDE DEF e
<1>4. T!Passe(e, Restant)
  BY <1>1, <1>2, <1>3, OrdonnancePasse
<1>5. Restant' = Restant
  BY <1>1, <1>2, <1>3, OrdonnanceReste
<1>6. QED
  BY <1>1, <1>4, <1>5 DEF T!Termine, e

LEMMA CreeSuit ==
  ASSUME NEW c \in 1 .. processus_crees
  PROVE  IInv /\ CreeProcessus(c) => T!Cree(c)
<1> SUFFICES ASSUME IInv, CreeProcessus(c) PROVE T!Cree(c)
  OBVIOUS
<1>1. /\ TypeOK /\ actif = elu
      /\ ~TablePleine(processus_crees)
      /\ EstCaseLibre(etat, processus_crees, c)
      /\ etat' = [etat EXCEPT ![c] = "ACTIVABLE"]
      /\ reprise' = [reprise EXCEPT ![c] = "code"]
      /\ reveil_prevu' = [reveil_prevu EXCEPT ![c] = 0]
      /\ processus_crees' = NouveauCompte(processus_crees, c)
      /\ UNCHANGED <<elu, nb_interruptions, nb_secondes>>
      /\ reprise[actif] = "code"
  BY DEF IInv, CreeProcessus, UnSeulElu, EnCode
<1>2. c \in Cases /\ c # 0
  BY <1>1 DEF TypeOK, TablePleine, Cases
<1>3. reprise'[0] = reprise[0]
  BY <1>1, <1>2 DEF TypeOK, Cases
<1>4. T!EnCours
  BY <1>1 DEF T!EnCours
<1>5. Restant' = [Restant EXCEPT ![c] = 0]
  BY <1>1, <1>2 DEF Restant, TypeOK
<1>6. /\ ~T!TablePleine(processus_crees)
      /\ T!EstCaseLibre(etat, processus_crees, c)
      /\ processus_crees' = T!NouveauCompte(processus_crees, c)
  BY <1>1 DEF TablePleine, T!TablePleine, EstCaseLibre, T!EstCaseLibre,
              NouveauCompte, T!NouveauCompte
<1>7. QED
  BY <1>1, <1>3, <1>4, <1>5, <1>6 DEF T!Cree

\* Every kernel call is a step of the round-robin scheduler, or changes
\* nothing that it shows: what is checked of Tourniquet holds of processus.c
\* and timer.c.
THEOREM TourniquetTheoreme == Spec => TourniquetSpec
<1>1. Init => T!Init
  BY InitSuit
<1>2. IInv /\ [Next]_vars => [T!Next]_(T!varsT)
  <2> SUFFICES ASSUME IInv, [Next]_vars PROVE [T!Next]_(T!varsT)
    OBVIOUS
  <2>1. CASE Interruption
    BY <2>1, TickSuit DEF T!Next
  <2>2. CASE FinTraitant
    BY <2>2, RetourSuit DEF T!Next
  <2>3. CASE \E n \in Durees : Dors(n)
    BY <2>3, EndortSuit DEF T!Next
  <2>4. CASE FinProcessus
    BY <2>4, TermineSuit DEF T!Next
  <2>5. CASE \E c \in 1 .. processus_crees : CreeProcessus(c)
    BY <2>5, CreeSuit DEF T!Next
  <2>6. CASE CreationRefusee \/ UNCHANGED vars
    BY <2>6 DEF CreationRefusee, vars, T!varsT, Restant
  <2>7. QED
    BY <2>1, <2>2, <2>3, <2>4, <2>5, <2>6 DEF Next
<1>3. QED
  BY <1>1, <1>2, Invariance, PTL DEF Spec, TourniquetSpec, T!Spec
=============================================================================
