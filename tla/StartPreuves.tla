---------------------------- MODULE StartPreuves ----------------------------
(***************************************************************************)
(* The demonstration of start.c never runs out of slots and keeps one live *)
(* incarnation of each program, for every table of at least six slots,     *)
(* every timer frequency and whatever the other processes wait for.        *)
(***************************************************************************)
EXTENDS Start, TablePreuves, FiniteSetTheorems

USE TableNonVide

-----------------------------------------------------------------------------
(* The inductive invariant.                                                *)

\* The slots handed out to a process other than idle.
Occupees == 1 .. processus_crees - 1

\* A process that has not created its successor yet.
Frais(i) == etat[i] # "MORT" /\ pas[i] <= Tours

TypeS ==
  /\ processus_crees \in 1 .. NB_PROCESSUS_MAX
  /\ etat \in [Cases -> Etats]
  /\ elu \in Crees(processus_crees)
  /\ code \in [Cases -> Programmes \cup {"idle"}]
  /\ pas \in [Cases -> Nat]
  /\ pas[0] <= Len(Ordre)
  /\ \A i \in Occupees : code[i] \in Programmes /\ pas[i] <= Tours + 1

\* One process has the CPU, and idle is always there to take it over.
Tour ==
  /\ \A i \in Crees(processus_crees) : etat[i] = "ELU" <=> i = elu
  /\ etat[0] \in {"ELU", "ACTIVABLE"}

\* A process that has created its successor has not lost the CPU since.
Sortant == \A i \in Occupees : etat[i] = "MORT" \/ pas[i] <= Tours \/ i = elu

\* No slot has held a program that kernel_start has not launched.
Lances ==
  \A i \in Occupees, k \in 1 .. Len(Ordre) : code[i] = Ordre[k] => k <= pas[0]

\* A launched program has one process that has not created its successor.
UnFrais ==
  /\ \A k \in 1 .. pas[0] : \E i \in Occupees : Frais(i) /\ code[i] = Ordre[k]
  /\ \A i, j \in Occupees : Frais(i) /\ Frais(j) /\ code[i] = code[j] => i = j

\* The slots handed out: idle, the launched programs and, once, one more.
PeuDeCases == processus_crees <= Cardinality(Programmes) + 2

SInv == TypeS /\ Tour /\ Sortant /\ Lances /\ UnFrais /\ PeuDeCases

-----------------------------------------------------------------------------
(* What the search of the next process guarantees.                         *)

\* The table that is searched: idle can be elected, and nobody but the
\* process that gives the CPU up is ELU.
Convient(e) ==
  /\ e \in [Cases -> Etats]
  /\ \A i \in Crees(processus_crees) : e[i] = "ELU" => i = elu
  /\ e[0] = "ACTIVABLE" \/ (elu = 0 /\ e[0] = "ELU")

\* Afterwards one process has the CPU, idle is ready, and the dead are those
\* that were dead.
LEMMA PasseEffet ==
  ASSUME TypeS, NEW e, NEW r, Convient(e), Passe(e, r)
  PROVE  /\ etat' \in [Cases -> Etats]
         /\ elu' \in Crees(processus_crees)
         /\ \A i \in Crees(processus_crees) : etat'[i] = "ELU" <=> i = elu'
         /\ etat'[0] \in {"ELU", "ACTIVABLE"}
         /\ \A i \in Crees(processus_crees) : etat'[i] = "MORT" <=> e[i] = "MORT"
<1> DEFINE p == Reveille(e, [i \in Cases |-> r[i] = 0], processus_crees)
<1>1. /\ processus_crees \in Nat \ {0}
      /\ Crees(processus_crees) \subseteq Cases
      /\ elu \in Crees(processus_crees)
      /\ 0 \in Crees(processus_crees)
  BY DEF TypeS, Crees, Cases
<1>2. /\ p \in [Cases -> Etats]
      /\ p[0] = e[0]
      /\ \A i \in Cases : /\ p[i] = "ELU" <=> e[i] = "ELU"
                          /\ p[i] = "MORT" <=> e[i] = "MORT"
  <2>1. /\ e \in [Cases -> Etats] /\ 0 \in Cases
    BY DEF Convient, Cases
  <2>2. \A i \in Cases : p[i] \in {e[i], "ACTIVABLE"}
                         /\ (p[i] # e[i] => e[i] = "ENDORMI" /\ i # 0)
    BY <2>1 DEF Reveille
  <2>3. p \in [Cases -> Etats]
    BY <2>1 DEF Reveille, Etats
  <2> HIDE DEF p
  <2>4. QED
    BY <2>1, <2>2, <2>3
<1>3. PICK t \in Crees(processus_crees) :
        /\ EstSuivant(p, elu, processus_crees, t)
        /\ \/ p[t] # "ACTIVABLE" /\ etat' = p /\ elu' = elu
           \/ /\ p[t] = "ACTIVABLE" /\ etat' = Elit(p, elu, t) /\ elu' = t
  BY Zenon DEF Passe
<1> HIDE DEF p
<1>4. CASE p[t] = "ACTIVABLE"
  <2>1. etat' = Elit(p, elu, t) /\ elu' = t
    BY <1>3, <1>4
  <2>2. /\ etat' \in [Cases -> Etats]
        /\ \A i \in Crees(processus_crees) :
             etat'[i] = IF i = t THEN "ELU"
                        ELSE IF i = elu /\ p[elu] = "ELU" THEN "ACTIVABLE"
                        ELSE p[i]
    BY <1>1, <1>2, <2>1 DEF Elit, Etats
  <2>3. QED
    BY <1>1, <1>2, <1>4, <2>1, <2>2 DEF Convient
<1>5. CASE p[t] # "ACTIVABLE"
  <2>1. etat' = p /\ elu' = elu
    BY <1>3, <1>5
  <2>2. p[0] # "ACTIVABLE"
    BY <1>1, <1>3, <1>5, SuivantTrouve
  <2>3. elu = 0 /\ p[0] = "ELU"
    BY <1>2, <2>2 DEF Convient
  <2>4. QED
    BY <1>1, <1>2, <2>1, <2>3 DEF Convient
<1>6. QED
  BY <1>4, <1>5

-----------------------------------------------------------------------------
(* Every action preserves the invariant.                                   *)

LEMMA TroisProgrammes == Cardinality(Programmes) = 3
<1>1. IsFiniteSet({}) /\ Cardinality({}) = 0
  BY FS_EmptySet
<1>2. IsFiniteSet({} \cup {"proc1"}) /\ Cardinality({} \cup {"proc1"}) = 1
  BY <1>1, FS_AddElement
<1> DEFINE deux == ({} \cup {"proc1"}) \cup {"proc2"}
<1>3. IsFiniteSet(deux) /\ Cardinality(deux) = 2
  BY <1>2, FS_AddElement
<1>4. "proc3" \notin deux
  OBVIOUS
<1> HIDE DEF deux
<1>5. Cardinality(deux \cup {"proc3"}) = 3
  BY <1>3, <1>4, FS_AddElement
<1>6. deux \cup {"proc3"} = Programmes
  BY DEF deux, Programmes
<1>7. QED
  BY <1>5, <1>6

LEMMA InitSInv == InitS => SInv
<1> SUFFICES ASSUME InitS PROVE SInv
  OBVIOUS
<1>1. TypeS
  BY DEF InitS, Init, TypeS, Cases, Etats, Crees, Occupees, Ordre, Tours
<1>2. Tour
  BY DEF InitS, Init, Tour, Crees, Cases
<1>3. Sortant /\ Lances /\ UnFrais
  BY DEF InitS, Init, Sortant, Lances, UnFrais, Occupees, Cases
<1>4. PeuDeCases
  BY TroisProgrammes DEF InitS, Init, PeuDeCases
<1>5. QED
  BY <1>1, <1>2, <1>3, <1>4 DEF SInv

\* A process gives the CPU up: it sleeps, or it ends having created its
\* successor, or the timer interrupts idle.
LEMMA PassageSInv ==
  ASSUME SInv, NEW e, NEW r, Convient(e), Passe(e, r),
         UNCHANGED <<code, processus_crees>>,
         \A i \in Occupees : e[i] = "MORT" <=>
           etat[i] = "MORT" \/ (i = elu /\ pas[i] > Tours),
         \/ pas' = pas
         \/ /\ elu # 0 /\ pas[elu] < Tours
            /\ pas' = [pas EXCEPT ![elu] = @ + 1]
  PROVE  SInv'
<1>1. /\ processus_crees' = processus_crees /\ code' = code
      /\ processus_crees \in Nat
      /\ Occupees \subseteq Crees(processus_crees)
      /\ Crees(processus_crees) \subseteq Cases
      /\ Occupees = Crees(processus_crees) \ {0}
      /\ Occupees' = Occupees
      /\ elu \in Crees(processus_crees)
  BY DEF SInv, TypeS, Occupees, Crees, Cases
<1>2. /\ etat' \in [Cases -> Etats]
      /\ elu' \in Crees(processus_crees)
      /\ \A i \in Crees(processus_crees) : etat'[i] = "ELU" <=> i = elu'
      /\ etat'[0] \in {"ELU", "ACTIVABLE"}
      /\ \A i \in Crees(processus_crees) : etat'[i] = "MORT" <=> e[i] = "MORT"
  BY PasseEffet DEF SInv
<1>3. /\ pas \in [Cases -> Nat] /\ pas' \in [Cases -> Nat]
      /\ pas'[0] = pas[0]
      /\ \A i \in Occupees : /\ pas[i] \in Nat /\ pas'[i] \in Nat
                             /\ pas'[i] <= Tours <=> pas[i] <= Tours
                             /\ pas'[i] <= Tours + 1
  <2>1. /\ pas \in [Cases -> Nat] /\ 0 \in Cases
        /\ Occupees \subseteq Cases /\ 0 \notin Occupees
        /\ elu \in Cases /\ pas[elu] \in Nat
        /\ \A i \in Occupees : pas[i] \in Nat /\ pas[i] <= Tours + 1
    BY <1>1 DEF SInv, TypeS, Cases, Occupees
  <2>2. CASE pas' = pas
    BY <2>1, <2>2
  <2>3. CASE /\ elu # 0 /\ pas[elu] < Tours
             /\ pas' = [pas EXCEPT ![elu] = @ + 1]
    <3>1. pas' \in [Cases -> Nat] /\ pas'[0] = pas[0]
      BY <2>1, <2>3
    <3>2. \A i \in Occupees :
             pas'[i] = IF i = elu THEN pas[elu] + 1 ELSE pas[i]
      BY <2>1, <2>3
    <3>3. QED
      BY <2>1, <2>3, <3>1, <3>2 DEF Tours
  <2>4. QED
    BY <2>2, <2>3
<1>4. TypeS'
  BY <1>1, <1>2, <1>3 DEF SInv, TypeS
<1>5. Tour'
  BY <1>1, <1>2 DEF Tour
<1>6. \A i \in Occupees : etat'[i] = "MORT" \/ pas'[i] <= Tours
  BY <1>1, <1>2, <1>3 DEF SInv, Sortant, Tours
<1>7. Sortant' /\ Lances' /\ PeuDeCases'
  BY <1>1, <1>3, <1>6 DEF SInv, Sortant, Lances, PeuDeCases, Tours
<1>8. \A i \in Occupees : Frais(i)' <=> Frais(i)
  BY <1>1, <1>2, <1>3 DEF Frais, Tours
<1>9. UnFrais'
  BY <1>1, <1>3, <1>8 DEF SInv, UnFrais
<1>10. QED
  BY <1>4, <1>5, <1>7, <1>9 DEF SInv

LEMMA DortSInv == SInv /\ Dort => SInv'
<1> SUFFICES ASSUME SInv, Dort PROVE SInv'
  OBVIOUS
<1> DEFINE e == [etat EXCEPT ![elu] = "ENDORMI"]
<1>1. /\ elu # 0 /\ pas[elu] < Tours /\ code' = code
      /\ processus_crees' = processus_crees
      /\ pas' = [pas EXCEPT ![elu] = @ + 1]
      /\ Passe(e, restant')
  BY DEF Dort, Endort
<1>2. /\ elu \in Cases /\ elu \in Occupees /\ 0 \in Cases
      /\ etat \in [Cases -> Etats] /\ Occupees \subseteq Cases
      /\ Crees(processus_crees) \subseteq Cases
      /\ pas[elu] \in Nat
  BY <1>1 DEF SInv, TypeS, Crees, Cases, Occupees
<1>3. Convient(e)
  <2>1. /\ etat[0] \in {"ELU", "ACTIVABLE"}
        /\ 0 \in Crees(processus_crees)
        /\ \A i \in Crees(processus_crees) : etat[i] = "ELU" <=> i = elu
    BY DEF SInv, TypeS, Tour, Crees
  <2>2. e \in [Cases -> Etats] /\ e[0] = "ACTIVABLE"
    BY <1>1, <1>2, <2>1 DEF Etats
  <2>3. \A i \in Crees(processus_crees) : e[i] = "ELU" => i = elu
    BY <1>2, <2>1
  <2> HIDE DEF e
  <2>4. QED
    BY <2>2, <2>3 DEF Convient
<1>4. \A i \in Occupees : e[i] = "MORT" <=>
           etat[i] = "MORT" \/ (i = elu /\ pas[i] > Tours)
  <2>1. etat[elu] = "ELU"
    BY DEF SInv, Tour, TypeS
  <2>2. QED
    BY <1>1, <1>2, <2>1 DEF Tours
<1> HIDE DEF e
<1>5. QED
  BY <1>1, <1>3, <1>4, PassageSInv

LEMMA FinSInv == SInv /\ Fin => SInv'
<1> SUFFICES ASSUME SInv, Fin PROVE SInv'
  OBVIOUS
<1> DEFINE e == [etat EXCEPT ![elu] = "MORT"]
<1>1. /\ elu # 0 /\ pas[elu] = Tours + 1 /\ code' = code /\ pas' = pas
      /\ processus_crees' = processus_crees
      /\ Passe(e, restant)
  BY DEF Fin, Termine
<1>2. /\ elu \in Cases /\ elu \in Occupees /\ 0 \in Cases
      /\ etat \in [Cases -> Etats] /\ Occupees \subseteq Cases
      /\ Crees(processus_crees) \subseteq Cases
  BY <1>1 DEF SInv, TypeS, Crees, Cases, Occupees
<1>3. Convient(e)
  <2>1. /\ etat[0] \in {"ELU", "ACTIVABLE"}
        /\ 0 \in Crees(processus_crees)
        /\ \A i \in Crees(processus_crees) : etat[i] = "ELU" <=> i = elu
    BY DEF SInv, TypeS, Tour, Crees
  <2>2. e \in [Cases -> Etats] /\ e[0] = "ACTIVABLE"
    BY <1>1, <1>2, <2>1 DEF Etats
  <2>3. \A i \in Crees(processus_crees) : e[i] = "ELU" => i = elu
    BY <1>2, <2>1
  <2> HIDE DEF e
  <2>4. QED
    BY <2>2, <2>3 DEF Convient
<1>4. \A i \in Occupees : e[i] = "MORT" <=>
           etat[i] = "MORT" \/ (i = elu /\ pas[i] > Tours)
  BY <1>1, <1>2 DEF Tours
<1> HIDE DEF e
<1>5. QED
  BY <1>1, <1>3, <1>4, PassageSInv

LEMMA HorlogeSInv == SInv /\ Horloge => SInv'
<1> SUFFICES ASSUME SInv, Horloge PROVE SInv'
  OBVIOUS
<1>1. code' = code /\ pas' = pas /\ elu = 0
      /\ processus_crees' = processus_crees
  BY DEF Horloge, Tick, Retour
<1>2. CASE Tick
  <2>1. Passe(etat, restant)
    BY <1>2 DEF Tick
  <2>2. Convient(etat)
    BY <1>1 DEF SInv, TypeS, Tour, Convient, Crees
  <2>3. \A i \in Occupees : etat[i] = "MORT" <=>
           etat[i] = "MORT" \/ (i = elu /\ pas[i] > Tours)
    BY <1>1 DEF Occupees
  <2>4. QED
    BY <1>1, <2>1, <2>2, <2>3, PassageSInv
<1>3. CASE Retour
  <2>1. etat' = etat /\ elu' = elu
    BY <1>3 DEF Retour
  <2>2. QED
    BY <1>1, <2>1 DEF SInv, TypeS, Tour, Sortant, Lances, UnFrais, PeuDeCases,
                      Occupees, Frais
<1>4. QED
  BY <1>2, <1>3 DEF Horloge

\* The table of processus.c (50 slots) is larger than what start.c needs.
TableSuffisante == NB_PROCESSUS_MAX >= 6

\* kernel_start launches the next program, or a process its successor.
Createur(prog) ==
  \/ elu = 0 /\ pas[0] < Len(Ordre) /\ prog = Ordre[pas[0] + 1]
  \/ elu # 0 /\ pas[elu] = Tours /\ prog = code[elu]

LEMMA OrdreInjectif ==
  /\ Len(Ordre) = 3
  /\ \A k \in 1 .. 3 : Ordre[k] \in Programmes
  /\ \A k, h \in 1 .. 3 : Ordre[k] = Ordre[h] => k = h
  /\ \A prog \in Programmes : \E k \in 1 .. 3 : prog = Ordre[k]
<1>1. Len(Ordre) = 3
  BY DEF Ordre
<1>2. Ordre[1] = "proc1" /\ Ordre[2] = "proc2" /\ Ordre[3] = "proc3"
  BY DEF Ordre
<1>3. 1 .. 3 = {1, 2, 3}
  OBVIOUS
<1>4. QED
  BY <1>1, <1>2, <1>3 DEF Programmes

\* When a new slot has to be taken, the four first ones cannot all be alive:
\* they would be four processes of three programs.
LEMMA PasPlusDeQuatre ==
  ASSUME SInv, NEW prog, Createur(prog),
         \A i \in Occupees : etat[i] # "MORT"
  PROVE  processus_crees <= 4
<1>1. \A i \in Occupees : Frais(i)
  BY DEF SInv, Sortant, Frais, Createur, Occupees, Tours, TypeS, Crees
<1>2. \A i \in Occupees : code[i] \in Programmes
  BY DEF SInv, TypeS
<1>3. \A i, j \in Occupees : code[i] = code[j] => i = j
  BY <1>1 DEF SInv, UnFrais
<1>4. SUFFICES ASSUME processus_crees > 4 PROVE FALSE
  BY DEF SInv, TypeS
<1>5. 1 \in Occupees /\ 2 \in Occupees /\ 3 \in Occupees /\ 4 \in Occupees
  BY <1>4 DEF SInv, TypeS, Occupees
<1>6. QED
  BY <1>2, <1>3, <1>5 DEF Programmes

LEMMA CreationSInv ==
  ASSUME SInv, TableSuffisante, NEW prog, Createur(prog),
         NEW c \in 1 .. processus_crees, Cree(c),
         code' = [code EXCEPT ![c] = prog],
         pas' = [pas EXCEPT ![elu] = @ + 1, ![c] = 0]
  PROVE  SInv'
<1>1. /\ processus_crees \in 1 .. NB_PROCESSUS_MAX - 1
      /\ elu \in Crees(processus_crees)
      /\ etat \in [Cases -> Etats] /\ pas \in [Cases -> Nat]
      /\ code \in [Cases -> Programmes \cup {"idle"}]
      /\ pas[0] \in 0 .. 3
      /\ c \in Cases /\ c \in Nat /\ elu \in Cases /\ 0 \in Cases
      /\ c # 0 /\ elu' = elu
      /\ Occupees \subseteq Cases /\ 0 \notin Occupees
      /\ pas[elu] \in Nat
  <2>1. /\ processus_crees \in 1 .. NB_PROCESSUS_MAX
        /\ elu \in Crees(processus_crees)
        /\ etat \in [Cases -> Etats] /\ pas \in [Cases -> Nat]
        /\ code \in [Cases -> Programmes \cup {"idle"}]
        /\ pas[0] <= 3
    BY OrdreInjectif DEF SInv, TypeS
  <2>2. ~(processus_crees >= NB_PROCESSUS_MAX) /\ elu' = elu
    BY DEF Cree, TablePleine
  <2>3. /\ c \in Cases /\ c \in Nat /\ elu \in Cases /\ 0 \in Cases
        /\ c # 0 /\ Occupees \subseteq Cases /\ 0 \notin Occupees
    BY <2>1, <2>2 DEF Crees, Cases, Occupees
  <2>4. processus_crees \in 1 .. NB_PROCESSUS_MAX - 1
    BY <2>1, <2>2
  <2>5. pas[elu] \in Nat /\ pas[0] \in Nat
    BY <2>1, <2>3
  <2>6. QED
    BY <2>1, <2>2, <2>3, <2>4, <2>5
<1>2. \/ /\ c \in Occupees /\ etat[c] = "MORT" /\ Occupees' = Occupees
         /\ processus_crees' = processus_crees
      \/ /\ c = processus_crees /\ c \notin Occupees
         /\ Occupees' = Occupees \cup {c}
         /\ processus_crees' = processus_crees + 1
         /\ \A i \in Occupees : etat[i] # "MORT"
  BY <1>1 DEF Cree, EstCaseLibre, NouveauCompte, Occupees
<1>3. etat' = [etat EXCEPT ![c] = "ACTIVABLE"]
  BY DEF Cree
<1>4. elu # c
  BY <1>1, <1>2 DEF SInv, Tour, Crees
<1>5. /\ etat' \in [Cases -> Etats] /\ pas' \in [Cases -> Nat]
      /\ etat'[c] = "ACTIVABLE" /\ pas'[c] = 0 /\ code'[c] = prog
      /\ pas'[elu] = pas[elu] + 1
      /\ etat'[elu] = etat[elu] /\ code'[elu] = code[elu]
      /\ \A i \in Cases : i # c =>
           /\ etat'[i] = etat[i] /\ code'[i] = code[i]
           /\ i # elu => pas'[i] = pas[i]
  BY <1>1, <1>3, <1>4 DEF Etats
<1>6. /\ Occupees' \subseteq Cases /\ c \in Occupees' /\ 0 \notin Occupees'
      /\ \A i \in Occupees' : i = c \/ i \in Occupees
      /\ \A i \in Occupees : i \in Occupees'
      /\ elu # 0 => elu \in Occupees
      /\ \A i \in Occupees : i \in Crees(processus_crees)
  BY <1>1, <1>2 DEF Occupees, Crees
<1>7. PeuDeCases'
  <2>1. CASE processus_crees' = processus_crees
    BY <2>1 DEF SInv, PeuDeCases
  <2>2. CASE processus_crees' # processus_crees
    <3>1. processus_crees <= 4
      BY <1>2, <2>2, PasPlusDeQuatre
    <3>2. QED
      BY <1>1, <1>2, <3>1, TroisProgrammes DEF PeuDeCases
  <2>3. QED
    BY <2>1, <2>2
<1>8. prog \in Programmes
  BY <1>1, <1>6, OrdreInjectif DEF Createur, SInv, TypeS
<1>9. /\ pas'[0] \in 0 .. 3
      /\ elu = 0 => pas'[0] = pas[0] + 1 /\ pas[0] < 3
      /\ elu # 0 => pas'[0] = pas[0]
  BY <1>1, <1>5, OrdreInjectif DEF Createur
<1>10. TypeS'
  <2>1. /\ processus_crees' \in 1 .. NB_PROCESSUS_MAX
        /\ elu' \in Crees(processus_crees')
    BY <1>1, <1>2 DEF Crees
  <2>2. code' \in [Cases -> Programmes \cup {"idle"}]
    BY <1>1, <1>8
  <2>3. \A i \in Occupees' : code'[i] \in Programmes /\ pas'[i] <= Tours + 1
    <3> SUFFICES ASSUME NEW i \in Occupees'
                 PROVE  code'[i] \in Programmes /\ pas'[i] <= Tours + 1
      OBVIOUS
    <3>1. CASE i = c
      BY <1>5, <1>8, <3>1 DEF Tours
    <3>2. CASE i # c /\ i = elu
      BY <1>5, <1>6, <3>2 DEF SInv, TypeS, Createur, Tours
    <3>3. CASE i # c /\ i # elu
      BY <1>5, <1>6, <3>3 DEF SInv, TypeS
    <3>4. QED
      BY <3>1, <3>2, <3>3
  <2>4. pas'[0] <= Len(Ordre)
    BY <1>9, OrdreInjectif
  <2>5. QED
    BY <1>5, <2>1, <2>2, <2>3, <2>4 DEF TypeS
<1>11. Tour'
  <2>1. \A i \in Crees(processus_crees)' :
          i \in Cases /\ (i = c \/ i \in Crees(processus_crees))
    BY <1>1, <1>2 DEF Crees, Cases
  <2>2. QED
    BY <1>1, <1>4, <1>5, <2>1 DEF SInv, Tour
<1>12. Sortant'
  <2>1. \A i \in Occupees' : i # c => i \in Cases /\ i \in Occupees
    BY <1>6
  <2> SUFFICES ASSUME NEW i \in Occupees'
               PROVE  etat'[i] = "MORT" \/ pas'[i] <= Tours \/ i = elu'
    BY DEF Sortant
  <2>2. CASE i = c
    BY <1>5, <2>2 DEF Tours
  <2>3. CASE i = elu
    BY <1>1, <2>3
  <2>4. CASE i # c /\ i # elu
    BY <1>5, <2>1, <2>4 DEF SInv, Sortant
  <2>5. QED
    BY <2>2, <2>3, <2>4
<1>13. /\ \A i \in Occupees' : i # c /\ i # elu => (Frais(i)' <=> Frais(i))
       /\ Frais(c)'
       /\ elu # 0 => /\ Frais(elu) /\ ~Frais(elu)'
                     /\ prog = code[elu] /\ elu \in Occupees
       /\ c \in Occupees => ~Frais(c)
  <2>1. \A i \in Occupees' : i # c /\ i # elu => (Frais(i)' <=> Frais(i))
    BY <1>5, <1>6 DEF Frais
  <2>2. Frais(c)'
    BY <1>5 DEF Frais, Tours
  <2>3. ASSUME elu # 0
        PROVE  /\ Frais(elu) /\ ~Frais(elu)'
               /\ prog = code[elu] /\ elu \in Occupees
    BY <1>1, <1>5, <1>6, <2>3 DEF Createur, Frais, Tours, SInv, Tour
  <2>4. c \in Occupees => ~Frais(c)
    BY <1>2 DEF Frais
  <2>5. QED
    BY <2>1, <2>2, <2>3, <2>4
<1>14. elu = 0 => prog = Ordre[pas[0] + 1]
  BY DEF Createur
<1>15. Lances'
  <2> SUFFICES ASSUME NEW i \in Occupees', NEW k \in 1 .. 3,
                      code'[i] = Ordre[k]
               PROVE  k <= pas'[0]
    BY OrdreInjectif DEF Lances
  <2>1. CASE i # c
    BY <1>1, <1>5, <1>6, <1>9, <2>1, OrdreInjectif DEF SInv, Lances
  <2>2. CASE i = c /\ elu = 0
    <3>1. pas[0] + 1 \in 1 .. 3 /\ Ordre[k] = Ordre[pas[0] + 1]
      BY <1>1, <1>5, <1>9, <1>14, <2>2
    <3>2. QED
      BY <1>9, <2>2, <3>1, OrdreInjectif
  <2>3. CASE i = c /\ elu # 0
    BY <1>5, <1>9, <1>13, <2>3, OrdreInjectif DEF SInv, Lances
  <2>4. QED
    BY <2>1, <2>2, <2>3
<1>16. \A k \in 1 .. pas'[0] :
          \E i \in Occupees' : Frais(i)' /\ code'[i] = Ordre[k]
  <2> SUFFICES ASSUME NEW k \in 1 .. pas'[0]
               PROVE  \E i \in Occupees' : Frais(i)' /\ code'[i] = Ordre[k]
    OBVIOUS
  <2>1. CASE k <= pas[0]
    <3>1. PICK i \in Occupees : Frais(i) /\ code[i] = Ordre[k]
      BY <1>1, <2>1 DEF SInv, UnFrais
    <3>2. i # c /\ i \in Cases /\ i \in Occupees' /\ code'[i] = Ordre[k]
      BY <1>1, <1>5, <1>6, <1>13, <3>1
    <3>3. CASE i = elu
      <4>1. elu # 0
        BY <1>6, <3>2, <3>3
      <4>2. Frais(c)' /\ code'[c] = Ordre[k]
        BY <1>5, <1>13, <3>1, <3>3, <4>1
      <4>3. QED
        BY <1>6, <4>2
    <3>4. CASE i # elu
      BY <1>13, <3>1, <3>2, <3>4
    <3>5. QED
      BY <3>3, <3>4
  <2>2. CASE k > pas[0]
    <3>1. elu = 0 /\ k = pas[0] + 1
      BY <1>1, <1>9, <2>2
    <3>2. QED
      BY <1>5, <1>6, <1>13, <1>14, <3>1
  <2>3. QED
    BY <1>1, <2>1, <2>2
<1>17. ASSUME NEW j \in Occupees', j # c, Frais(j)', code'[j] = prog
       PROVE  FALSE
  <2>1. j \in Occupees /\ j \in Cases /\ code[j] = prog
    BY <1>5, <1>6, <1>17
  <2>2. CASE elu = 0
    <3>1. pas[0] + 1 \in 1 .. 3 /\ code[j] = Ordre[pas[0] + 1]
      BY <1>1, <1>9, <1>14, <2>1, <2>2
    <3>2. pas[0] + 1 <= pas[0]
      BY <2>1, <3>1, OrdreInjectif DEF SInv, Lances
    <3>3. QED
      BY <1>1, <3>2
  <2>3. CASE elu # 0
    <3>1. Frais(elu) /\ prog = code[elu] /\ elu \in Occupees
      BY <1>13, <2>3
    <3>2. j # elu
      BY <1>1, <1>13, <1>17, <2>3 DEF Frais
    <3>3. Frais(j)
      BY <1>13, <1>17, <3>2
    <3>4. QED
      BY <2>1, <3>1, <3>2, <3>3 DEF SInv, UnFrais
  <2>4. QED
    BY <2>2, <2>3
<1>18. ASSUME NEW i \in Occupees', NEW j \in Occupees',
              Frais(i)', Frais(j)', code'[i] = code'[j]
       PROVE  i = j
  <2>1. CASE i = c
    BY <1>5, <1>17, <1>18, <2>1
  <2>2. CASE j = c
    BY <1>5, <1>17, <1>18, <2>2
  <2>3. CASE i # c /\ j # c
    <3>1. i \in Occupees /\ j \in Occupees /\ code[i] = code[j]
      BY <1>5, <1>6, <1>18, <2>3
    <3>2. ASSUME NEW h \in Occupees, Frais(h)'
          PROVE  h # elu
      <4>1. h # 0
        BY <1>1
      <4>2. SUFFICES ASSUME h = elu PROVE FALSE
        OBVIOUS
      <4>3. elu # 0 /\ Frais(elu)'
        BY <1>1, <3>2, <4>1, <4>2 DEF Frais
      <4>4. QED
        BY <1>13, <4>3
    <3>3. i # elu /\ j # elu
      BY <1>18, <3>1, <3>2
    <3>4. Frais(i) /\ Frais(j)
      BY <1>13, <1>18, <2>3, <3>3
    <3>5. QED
      BY <3>1, <3>4 DEF SInv, UnFrais
  <2>4. QED
    BY <2>1, <2>2, <2>3
<1>19. UnFrais'
  BY <1>16, <1>18 DEF UnFrais
<1>20. QED
  BY <1>7, <1>10, <1>11, <1>12, <1>15, <1>19 DEF SInv

\* With a table that is large enough, cree_processus always finds a slot.
LEMMA CreeSInv ==
  ASSUME SInv, TableSuffisante, NEW prog, Createur(prog), CreeProcessus(prog)
  PROVE  SInv'
<1>1. ~TablePleine(processus_crees)
  BY TroisProgrammes DEF SInv, TypeS, PeuDeCases, TablePleine, TableSuffisante
<1>2. PICK c \in 1 .. processus_crees :
        /\ Cree(c)
        /\ code' = [code EXCEPT ![c] = prog]
        /\ pas' = [pas EXCEPT ![elu] = @ + 1, ![c] = 0]
  BY <1>1 DEF CreeProcessus
<1>3. QED
  BY <1>2, CreationSInv

LEMMA NextSInv == TableSuffisante /\ SInv /\ [NextS]_varsS => SInv'
<1> SUFFICES ASSUME TableSuffisante, SInv, [NextS]_varsS PROVE SInv'
  OBVIOUS
<1>1. CASE Lancement
  BY <1>1, CreeSInv DEF Lancement, Createur
<1>2. CASE Dort
  BY <1>2, DortSInv
<1>3. CASE Relance
  BY <1>3, CreeSInv DEF Relance, Createur
<1>4. CASE Fin
  BY <1>4, FinSInv
<1>5. CASE Horloge
  BY <1>5, HorlogeSInv
<1>6. CASE UNCHANGED varsS
  BY <1>6 DEF varsS, varsT, SInv, TypeS, Tour, Sortant, Lances, UnFrais,
              PeuDeCases, Occupees, Frais
<1>7. QED
  BY <1>1, <1>2, <1>3, <1>4, <1>5, <1>6 DEF NextS

LEMMA SInvToujours == ASSUME TableSuffisante PROVE SpecS => []SInv
<1>1. InitS => SInv
  BY InitSInv
<1>2. SInv /\ [NextS]_varsS => SInv'
  BY NextSInv
<1>3. QED
  BY <1>1, <1>2, PTL DEF SpecS

-----------------------------------------------------------------------------
(* What the invariant means.                                               *)

\* With at least six slots, no creation is ever refused, although every
\* process of start.c creates another one (proc1, proc2, proc3): a new slot
\* is taken at most once more than there are programs.
THEOREM CreationJamaisRefuseeTheoreme ==
  ASSUME TableSuffisante PROVE SpecS => []CreationJamaisRefusee
<1>1. SInv => CreationJamaisRefusee
  BY TroisProgrammes
     DEF SInv, TypeS, PeuDeCases, CreationJamaisRefusee, TablePleine,
         TableSuffisante
<1>2. QED
  BY <1>1, SInvToujours, PTL

LEMMA VivantsOccupes ==
  ASSUME TypeS, NEW prog
  PROVE  Vivants(prog) =
           {i \in Occupees : code[i] = prog /\ etat[i] # "MORT"}
<1>1. Crees(processus_crees) \ {0} = Occupees
  BY DEF TypeS, Crees, Occupees
<1>2. QED
  BY <1>1 DEF Vivants

LEMMA DeuxElements ==
  ASSUME NEW a, NEW b, a # b
  PROVE  Cardinality({a, b}) = 2
<1>1. IsFiniteSet({a}) /\ Cardinality({a}) = 1
  BY FS_Singleton
<1>2. Cardinality({a} \cup {b}) = 2
  BY <1>1, FS_AddElement
<1>3. {a} \cup {b} = {a, b}
  OBVIOUS
<1>4. QED
  BY <1>2, <1>3

\* A program has one live process from its launch on, or two while the one
\* that has created its successor is still on the CPU, on its way to
\* fin_processus.
THEOREM UneIncarnationTheoreme ==
  ASSUME TableSuffisante PROVE SpecS => []UneIncarnation
<1>1. SInv => UneIncarnation
  <2> SUFFICES ASSUME SInv, NEW k \in 1 .. 3
               PROVE  LET v == Vivants(Ordre[k]) IN
                      IF pas[0] < k THEN v = {}
                      ELSE \/ /\ Cardinality(v) = 1
                              /\ elu \notin {i \in v : pas[i] > Tours}
                           \/ /\ Cardinality(v) = 2
                              /\ \E i \in v : i = elu /\ pas[i] > Tours
    BY OrdreInjectif DEF UneIncarnation
  <2> DEFINE v == Vivants(Ordre[k])
  <2>1. v = {i \in Occupees : code[i] = Ordre[k] /\ etat[i] # "MORT"}
    BY VivantsOccupes DEF SInv
  <2> HIDE DEF v
  <2>2. pas[0] \in Nat /\ \A i \in Occupees : pas[i] \in Nat
    BY DEF SInv, TypeS, Occupees, Cases
  <2>3. ASSUME pas[0] < k
        PROVE  v = {}
    <3>1. \A i \in Occupees : code[i] # Ordre[k]
      BY <2>2, <2>3, OrdreInjectif DEF SInv, Lances
    <3>2. QED
      BY <2>1, <3>1
  <2>4. ASSUME pas[0] >= k
        PROVE  \/ /\ Cardinality(v) = 1
                  /\ elu \notin {i \in v : pas[i] > Tours}
               \/ /\ Cardinality(v) = 2
                  /\ \E i \in v : i = elu /\ pas[i] > Tours
    <3>1. PICK f \in Occupees : Frais(f) /\ code[f] = Ordre[k]
      BY <2>2, <2>4 DEF SInv, UnFrais
    <3>2. f \in v /\ pas[f] <= Tours
      BY <2>1, <3>1 DEF Frais
    <3>3. \A i \in v : /\ i \in Occupees
                       /\ i # f => i = elu /\ pas[i] > Tours
      BY <2>1, <2>2, <3>1 DEF SInv, UnFrais, Sortant, Frais, Tours
    <3>4. CASE v = {f}
      <4>1. Cardinality(v) = 1
        BY <3>4, FS_Singleton
      <4>2. \A i \in v : ~(pas[i] > Tours)
        BY <2>2, <3>1, <3>2, <3>4 DEF Tours
      <4>3. QED
        BY <4>1, <4>2
    <3>5. CASE v # {f}
      <4>1. PICK i \in v : i # f
        BY <3>2, <3>5
      <4>2. i = elu /\ pas[i] > Tours /\ v = {i, f}
        BY <3>2, <3>3, <4>1
      <4>3. Cardinality(v) = 2
        BY <4>1, <4>2, DeuxElements
      <4>4. QED
        BY <2>2, <2>4, <4>1, <4>2, <4>3
    <3>6. QED
      BY <3>4, <3>5
  <2>5. QED
    BY <2>2, <2>3, <2>4 DEF v
<1>2. QED
  BY <1>1, SInvToujours, PTL
=============================================================================
