-------------------------- MODULE PreemptionPreuves --------------------------
(***************************************************************************)
(* The kernel calls are atomic: what Preemption shows of the programs of   *)
(* start.c as they stand (Preemptif = FALSE), for every size of the table, *)
(* every timer frequency, every set of sleeping times and every number of  *)
(* processes created by kernel_start, with no bound on time.               *)
(***************************************************************************)
EXTENDS Preemption, TablePreuves, SequenceTheorems

USE TableNonVide, FrequenceOK, DureesOK, LancesOK

\* The theorems about whole kernel calls, for the history variable fige.
P == INSTANCE OrdonnanceurPreuves WITH
       etat <- fige.etat, reveil_prevu <- fige.reveil_prevu,
       reprise <- fige.reprise, processus_crees <- fige.processus_crees,
       elu <- fige.elu, actif <- fige.actif, mie <- fige.mie,
       nb_interruptions <- fige.nb_interruptions,
       nb_secondes <- fige.nb_secondes

-----------------------------------------------------------------------------
(* The inductive invariant.  First the types.                              *)

PcsOrdonnance == {"reveil", "cherche", "rend", "elit", "active", "sauve",
                  "charge", "bascule", "retour"}
PcsTrappe == {"traitant1", "traitant2", "mret"}
PcsCree == Creation \cup {"cree8"}
Pcs == {"nulle", "code", "dors1", "dors2", "fin1"}
         \cup PcsOrdonnance \cup PcsTrappe \cup PcsCree

Lieux == Nat \X Nat \X Pcs
Cadres == [pc : Pcs, local : Int \cup Lieux]

Types ==
  /\ etat \in [Cases -> Etats]
  /\ reveil_prevu \in [Cases -> Nat]
  /\ processus_crees \in 1 .. NB_PROCESSUS_MAX
  /\ elu \in Crees(processus_crees) /\ next_elu \in Crees(processus_crees)
  /\ actif \in Crees(processus_crees) /\ ancien \in Crees(processus_crees)
  /\ nb_interruptions \in Nat /\ nb_secondes \in Nat
  /\ mie \in BOOLEAN /\ mpie = TRUE
  /\ mepc \in Lieux /\ ctx_mepc \in [Cases -> Lieux]
  /\ pile \in [Cases -> Seq(Cadres) \ {<<>>}]
  /\ cpu \in Crees(processus_crees)

-----------------------------------------------------------------------------
(* The stacks.                                                             *)

Code == Cadre("code", 0)
Nul == Cadre("nulle", 0)

\* How far the creation under way in frame f has filled its slot.
CreationEnCours(f) ==
  /\ f.pc \in Creation \ {"cree1"} => processus_crees < NB_PROCESSUS_MAX
  /\ f.pc \in Creation \ {"cree1", "cree2"} =>
       f.local \in 1 .. processus_crees
  /\ f.pc \in {"cree4", "cree5", "cree6", "cree7"} =>
       etat[f.local] = "ACTIVABLE"
  /\ f.pc \in {"cree5", "cree6", "cree7"} => pile[f.local] = <<Code>>
  /\ f.pc \in {"cree6", "cree7"} =>
       f.local = processus_crees /\ reveil_prevu[f.local] = 0

\* A creation by kernel_start: no process has ended yet, the slot is new.
CreationIdle(f) ==
  /\ f.pc \in PcsCree
  /\ CreationEnCours(f)
  /\ f.pc \in Creation => Lancement
  /\ f.pc \in Creation \ {"cree1", "cree2"} => f.local = processus_crees

\* A creation by another process: kernel_start has finished its own.
CreationAutre(f) ==
  /\ CreationEnCours(f)
  /\ f.pc \in Creation => ~Lancement
  /\ f.pc \in Creation \ {"cree1", "cree2"} => f.local # cpu

\* Idle is inside the trap handler, in ordonnance.
IdleTrappe == cpu # 0 \/ Pc \in PcsOrdonnance

\* The stack of idle below the trap.
Sol ==
  IF IdleTrappe THEN Front(Front(pile[0]))
  ELSE IF Pc \in PcsTrappe THEN Front(pile[0]) ELSE pile[0]

\* Where the mepc of a trap of idle is found while ordonnance runs.
MepcIdle ==
  IF cpu # 0 \/ Pc \in {"charge", "bascule"} THEN ctx_mepc[0] ELSE mepc

Idle ==
  /\ Sol = <<Code>> \/ (Front(Sol) = <<Code>> /\ CreationIdle(Last(Sol)))
  /\ IdleTrappe => /\ Front(pile[0]) # <<>>
                   /\ Last(Front(pile[0])) = Cadre("traitant2", MepcIdle)
  /\ cpu # 0 => Last(pile[0]).pc = "retour"

\* The stack in use.
Courant ==
  /\ Pc \in Pcs \ {"nulle"}
  /\ Pc \in PcsTrappe => cpu = 0 /\ Sommet.local = mepc
  /\ Pc \in {"dors1", "dors2", "fin1"} => cpu # 0
  /\ Pc \in {"dors1", "dors2"} => Sommet.local \in Durees
  /\ Pc = "fin1" => ~Lancement
  /\ cpu # 0 /\ Pc \in PcsCree => CreationAutre(Sommet)
  /\ cpu # 0 => IF Pc = "code" THEN pile[cpu] = <<Code>>
                               ELSE Front(pile[cpu]) = <<Code>>
  /\ mie <=> cpu = 0 /\ Pc \in {"code"} \cup PcsCree

\* The other stacks: about to run for the first time, suspended in ctx_sw, or
\* of no process.
Suspendus ==
  \A i \in Cases \ {0, cpu} :
    \/ pile[i] = <<Code>>
    \/ Front(pile[i]) = <<Code>> /\ Last(pile[i]).pc = "retour"
    \/ i >= processus_crees /\ pile[i] = <<Nul>>

\* No process ends before kernel_start has created them all.
Vivants ==
  Lancement => \A i \in Crees(processus_crees) : etat[i] # "MORT"

\* The process whose stack is in use is actif, but in ctx_sw; the locals of
\* ordonnance.
Registres ==
  /\ Pc \in {"rend", "active"} => Sommet.local = elu
  /\ Pc \notin {"sauve", "charge", "bascule"} => actif = cpu
  /\ Pc = "sauve" => ancien = cpu
  /\ Pc \in {"charge", "bascule"} => Sommet.local = actif
  /\ Pc = "bascule" => mepc = ctx_mepc[actif]

Structure ==
  /\ Types /\ ~egare
  /\ Courant /\ Idle /\ Suspendus /\ Vivants /\ Registres

-----------------------------------------------------------------------------
(* How far the kernel call under way has gone since the last observable    *)
(* state, fige.                                                            *)

\* The created slots, as Cliche sees them.
Vus == [i \in Cases |-> IF i < processus_crees THEN etat[i] ELSE "ELU"]
Dates ==
  [i \in Cases |-> IF i < processus_crees THEN reveil_prevu[i] ELSE 0]

\* e is the table that the call under way, an interrupt, dors or
\* fin_processus, hands to ordonnance.
AppelInterruption(e) ==
  /\ fige.mie
  /\ e = fige.etat /\ Dates = fige.reveil_prevu
  /\ nb_interruptions = fige.nb_interruptions + 1

AppelSommeil(e) ==
  /\ ~fige.mie /\ fige.actif # 0
  /\ e = [fige.etat EXCEPT ![fige.actif] = "ENDORMI"]
  /\ \E n \in Durees :
       Dates = [fige.reveil_prevu EXCEPT ![fige.actif] = nb_secondes + n]
  /\ nb_interruptions = fige.nb_interruptions

AppelMort(e) ==
  /\ ~fige.mie /\ fige.actif # 0
  /\ e = [fige.etat EXCEPT ![fige.actif] = "MORT"]
  /\ Dates = fige.reveil_prevu
  /\ nb_interruptions = fige.nb_interruptions

Appel(e) ==
  /\ nb_secondes = fige.nb_secondes
  /\ AppelInterruption(e) \/ AppelSommeil(e) \/ AppelMort(e)

\* The table e after the wake-up loop, and p after start has given the CPU
\* back.
Eveilles(e) ==
  Reveille(e, [i \in Cases |-> Dates[i] <= nb_secondes], processus_crees)
Rendus(p) ==
  [p EXCEPT ![fige.elu] = IF @ = "ELU" THEN "ACTIVABLE" ELSE @]

\* How far ordonnance has gone; p is the woken table.
Avance(e, p) ==
  /\ Pc = "reveil" => Vus = e
  /\ Pc \in {"cherche", "rend"} => Vus = p
  /\ Pc \in {"reveil", "cherche", "rend", "elit"} => elu = fige.elu
  /\ Pc \in {"reveil", "cherche", "rend", "elit", "active"} =>
       actif = fige.actif
  /\ Pc \notin {"reveil", "cherche"} =>
       EstSuivant(p, fige.elu, processus_crees, next_elu)
  /\ Pc \notin {"reveil", "cherche", "rend"} => p[next_elu] = "ACTIVABLE"
  /\ Pc = "elit" => Vus = Rendus(p)
  /\ Pc \in {"active", "sauve", "charge", "bascule", "retour"} =>
       Vus = Elit(p, fige.elu, next_elu) /\ elu = next_elu
  /\ Pc \in {"sauve", "charge", "bascule", "retour"} => actif = next_elu

EnOrdonnance ==
  \E e \in [Cases -> Etats] : Appel(e) /\ Avance(e, Eveilles(e))

\* The states in which nothing of a call has been done yet.
Repos ==
  \/ Pc \in {"code", "traitant2", "dors1", "fin1",
             "cree1", "cree2", "cree3", "cree8"}
  \/ cpu = 0 /\ Pc \in Creation

\* What most calls leave as it was.
Memes ==
  /\ fige.elu = elu /\ fige.actif = actif
  /\ fige.nb_interruptions = nb_interruptions
  /\ fige.reveil_prevu = Dates

Progres ==
  /\ fige.processus_crees = processus_crees
  /\ Repos => fige = Cliche
  /\ Pc = "traitant1" =>
       Memes /\ fige.mie /\ fige.etat = Vus /\ fige.nb_secondes = nb_secondes
  /\ Pc = "mret" =>
       /\ Memes /\ fige.etat = Vus /\ fige.reprise[0] = "traitant"
       /\ nb_secondes = P!Horloge(fige.nb_interruptions, fige.nb_secondes)
  /\ Pc = "dors2" =>
       /\ Memes /\ fige.nb_secondes = nb_secondes
       /\ Vus = [fige.etat EXCEPT ![cpu] = "ENDORMI"]
  /\ cpu # 0 /\ Pc \in {"cree4", "cree5", "cree6", "cree7"} =>
       /\ Memes /\ fige.nb_secondes = nb_secondes
       /\ Vus = [fige.etat EXCEPT ![Sommet.local] =
                   IF Sommet.local < processus_crees THEN "ACTIVABLE" ELSE @]
  /\ cpu # 0 /\ Pc \in Creation \ {"cree1", "cree2"} =>
       EstCaseLibre(fige.etat, processus_crees, Sommet.local)
  /\ Pc \in PcsOrdonnance => EnOrdonnance

PInv == Structure /\ Progres /\ P!IInv

-----------------------------------------------------------------------------
(* Stacks: what a push and a pop do to the top and to the rest.            *)

LEMMA Empilee ==
  ASSUME NEW S, NEW s \in Seq(S), NEW x \in S
  PROVE  /\ Append(s, x) \in Seq(S) \ {<<>>}
         /\ Last(Append(s, x)) = x
         /\ Front(Append(s, x)) = s
         /\ Len(Append(s, x)) = Len(s) + 1
<1> DEFINE t == Append(s, x)
<1>1. /\ t \in Seq(S) /\ t # <<>>
      /\ Len(t) = Len(s) + 1
      /\ t[Len(s) + 1] = x
      /\ \A k \in 1 .. Len(s) : t[k] = s[k]
  BY AppendProperties
<1>2. Front(t) = s
  BY <1>1 DEF Front
<1>3. QED
  BY <1>1, <1>2 DEF Last

LEMMA Depilee ==
  ASSUME NEW S, NEW s \in Seq(S), s # <<>>
  PROVE  /\ Front(s) \in Seq(S)
         /\ Len(Front(s)) = Len(s) - 1
         /\ Last(s) \in S
         /\ \A k \in 1 .. Len(s) - 1 : Front(s)[k] = s[k]
<1> DEFINE l == Len(s) - 1
           t == SubSeq(s, 1, l)
<1>1. /\ Len(s) \in Nat \ {0} /\ l \in Nat /\ Len(s) = l + 1
      /\ \A k \in 1 .. Len(s) : s[k] \in S
  BY EmptySeq
<1>2. \A k \in 1 .. l : s[k] \in S
  BY <1>1
<1> HIDE DEF l
<1>3. /\ t \in Seq(S)
      /\ Len(t) = IF 1 <= l THEN l - 1 + 1 ELSE 0
      /\ \A k \in 1 .. l - 1 + 1 : t[k] = s[1 + k - 1]
  <2>1. 1 \in Int /\ l \in Int
    BY <1>1
  <2>2. QED
    BY <1>2, <2>1, SubSeqProperties
<1> HIDE DEF t
<1>4. Len(t) = l /\ \A k \in 1 .. l : t[k] = s[k]
  BY <1>1, <1>3
<1>5. Front(s) = t
  BY DEF Front, t, l
<1>6. Last(s) \in S
  BY <1>1 DEF Last
<1>7. QED
  BY <1>3, <1>4, <1>5, <1>6 DEF l

-----------------------------------------------------------------------------
(* What the steps that write on the stack in use do to it.                 *)

LEMMA CadreType ==
  ASSUME NEW pc \in Pcs, NEW l \in Int \cup Lieux
  PROVE  /\ Cadre(pc, l) \in Cadres
         /\ Cadre(pc, l).pc = pc /\ Cadre(pc, l).local = l
  BY DEF Cadre, Cadres

LEMMA SommetType ==
  ASSUME Types
  PROVE  /\ cpu \in Cases /\ 0 \in Cases
         /\ \A i \in Cases : /\ Front(pile[i]) \in Seq(Cadres)
                            /\ Last(pile[i]) \in Cadres
                            /\ pile[i] \in Seq(Cadres) /\ pile[i] # <<>>
         /\ Sommet.pc \in Pcs /\ Sommet.local \in Int \cup Lieux
<1>1. cpu \in Cases /\ 0 \in Cases
  BY DEF Types, Crees, Cases
<1>2. ASSUME NEW i \in Cases
      PROVE  /\ Front(pile[i]) \in Seq(Cadres)
             /\ Last(pile[i]) \in Cadres
             /\ pile[i] \in Seq(Cadres) /\ pile[i] # <<>>
  <2>1. pile[i] \in Seq(Cadres) /\ pile[i] # <<>>
    BY DEF Types
  <2>2. QED
    BY <2>1, Depilee
<1>3. Sommet \in Cadres
  BY <1>1, <1>2 DEF Sommet
<1>4. QED
  BY <1>1, <1>2, <1>3 DEF Cadres

\* The frame on top moves on.
LEMMA EffetVa ==
  ASSUME Types, NEW pc \in Pcs, NEW l \in Int \cup Lieux, VaAvec(pc, l)
  PROVE  /\ pile' \in [Cases -> Seq(Cadres) \ {<<>>}]
         /\ Last(pile'[cpu]).pc = pc /\ Last(pile'[cpu]).local = l
         /\ Front(pile'[cpu]) = Front(pile[cpu])
         /\ \A i \in Cases : i # cpu => pile'[i] = pile[i]
<1> DEFINE s == Front(pile[cpu])
           c == Cadre(pc, l)
<1>1. s \in Seq(Cadres) /\ cpu \in Cases
  BY SommetType
<1>2. c \in Cadres /\ c.pc = pc /\ c.local = l
  BY CadreType
<1>3. pile' = [pile EXCEPT ![cpu] = Append(s, c)]
  BY DEF VaAvec
<1> HIDE DEF s, c
<1>4. Append(s, c) \in Seq(Cadres) \ {<<>>}
        /\ Last(Append(s, c)) = c /\ Front(Append(s, c)) = s
  BY <1>1, <1>2, Empilee
<1>5. pile \in [Cases -> Seq(Cadres) \ {<<>>}]
  BY DEF Types
<1>6. pile'[cpu] = Append(s, c)
  BY <1>1, <1>3, <1>5
<1>7. pile' \in [Cases -> Seq(Cadres) \ {<<>>}]
  BY <1>1, <1>3, <1>4, <1>5
<1>8. QED
  BY <1>2, <1>3, <1>4, <1>5, <1>6, <1>7 DEF s

\* A function is called.
LEMMA EffetEmpile ==
  ASSUME Types, NEW pc \in Pcs, NEW l \in Int \cup Lieux,
         Empile(Cadre(pc, l))
  PROVE  /\ pile' \in [Cases -> Seq(Cadres) \ {<<>>}]
         /\ Last(pile'[cpu]).pc = pc /\ Last(pile'[cpu]).local = l
         /\ Front(pile'[cpu]) = pile[cpu]
         /\ \A i \in Cases : i # cpu => pile'[i] = pile[i]
<1> DEFINE s == pile[cpu]
           c == Cadre(pc, l)
<1>1. s \in Seq(Cadres) /\ cpu \in Cases
  BY SommetType
<1>2. c \in Cadres /\ c.pc = pc /\ c.local = l
  BY CadreType
<1>3. pile' = [pile EXCEPT ![cpu] = Append(s, c)]
  BY DEF Empile
<1> HIDE DEF s, c
<1>4. Append(s, c) \in Seq(Cadres) \ {<<>>}
        /\ Last(Append(s, c)) = c /\ Front(Append(s, c)) = s
  BY <1>1, <1>2, Empilee
<1>5. pile \in [Cases -> Seq(Cadres) \ {<<>>}]
  BY DEF Types
<1>6. pile'[cpu] = Append(s, c)
  BY <1>1, <1>3, <1>5
<1>7. pile' \in [Cases -> Seq(Cadres) \ {<<>>}]
  BY <1>1, <1>3, <1>4, <1>5
<1>8. QED
  BY <1>2, <1>3, <1>4, <1>5, <1>6, <1>7 DEF s

\* A function returns.
LEMMA EffetDepile ==
  ASSUME Types, Depile, Front(pile[cpu]) # <<>>
  PROVE  /\ pile' \in [Cases -> Seq(Cadres) \ {<<>>}]
         /\ pile'[cpu] = Front(pile[cpu])
         /\ \A i \in Cases : i # cpu => pile'[i] = pile[i]
  BY SommetType DEF Depile, Types

\* The one frame of a process that runs its own code.
LEMMA PileCode ==
  /\ Last(<<Code>>) = Code /\ Front(<<Code>>) = <<>> /\ <<Code>> # <<>>
  /\ <<Code>> \in Seq(Cadres)
  /\ Code.pc = "code" /\ Nul.pc = "nulle" /\ Last(<<Nul>>) = Nul
  /\ Front(<<>>) = <<>>
<1>1. Code \in Cadres /\ Nul \in Cadres
  BY CadreType DEF Code, Nul, Pcs
<1>2. QED
  BY <1>1 DEF Last, Front, Code, Nul, Cadre

-----------------------------------------------------------------------------
(* What a step leaves of the other stacks.                                 *)

\* Behind processus_crees nothing changes but in a creation.
Derriere ==
  \A i \in Cases : i >= processus_crees =>
    /\ etat'[i] = etat[i] /\ reveil_prevu'[i] = reveil_prevu[i]
    /\ pile'[i] = pile[i]

\* The creation that idle has under way is not disturbed.
LEMMA CreationConservee ==
  ASSUME Types, Sol' = Sol, processus_crees' = processus_crees,
         Lancement => Derriere, CreationIdle(Last(Sol))
  PROVE  CreationIdle(Last(Sol))'
<1> DEFINE f == Last(Sol)
<1>1. f' = f /\ CreationIdle(f)
  OBVIOUS
<1> HIDE DEF f
<1>2. SUFFICES CreationIdle(f)'
  BY DEF f
<1>3. CASE f.pc = "cree8"
  BY <1>1, <1>3 DEF CreationIdle, CreationEnCours, Creation, PcsCree
<1>4. CASE f.pc \in Creation
  <2>1. Lancement /\ Lancement' /\ Derriere
    BY <1>1, <1>4 DEF CreationIdle, Lancement
  <2>2. /\ f.pc \in Creation \ {"cree1"} => processus_crees \in Cases
        /\ f.pc \in Creation \ {"cree1", "cree2"} =>
             f.local = processus_crees
    BY <1>1 DEF CreationIdle, CreationEnCours, Types, Cases
  <2>3. processus_crees \in Cases =>
          /\ etat'[processus_crees] = etat[processus_crees]
          /\ reveil_prevu'[processus_crees] = reveil_prevu[processus_crees]
          /\ pile'[processus_crees] = pile[processus_crees]
    BY <2>1 DEF Derriere, Cases
  <2>4. QED
    BY <1>1, <1>4, <2>1, <2>2, <2>3
       DEF CreationIdle, CreationEnCours, Creation, PcsCree
<1>5. QED
  BY <1>1, <1>3, <1>4 DEF CreationIdle, PcsCree

\* A step of a process other than idle, which may fill a slot once
\* kernel_start has finished.
LEMMA ResteAutre ==
  ASSUME Types, Idle, Suspendus, cpu # 0,
         cpu' = cpu, processus_crees' = processus_crees,
         ctx_mepc'[0] = ctx_mepc[0], pile'[0] = pile[0],
         \A i \in Cases \ {0, cpu} :
           pile'[i] = pile[i] \/ pile'[i] = <<Code>>,
         Lancement => Derriere
  PROVE  Idle' /\ Suspendus'
<1>1. Suspendus'
  BY DEF Suspendus, Cases
<1>2. Sol' = Sol /\ MepcIdle' = MepcIdle /\ IdleTrappe /\ IdleTrappe'
  BY DEF Sol, MepcIdle, IdleTrappe
<1>3. CreationIdle(Last(Sol)) => CreationIdle(Last(Sol))'
  BY <1>2, CreationConservee
<1>4. QED
  BY <1>1, <1>2, <1>3 DEF Idle

\* A step of ordonnance, for whatever process.
LEMMA ResteOrdonnance ==
  ASSUME Types, Idle, Suspendus, Courant,
         cpu' = cpu, processus_crees' = processus_crees, mie' = mie,
         Pc \in PcsOrdonnance, Pc' \in PcsOrdonnance,
         MepcIdle' = MepcIdle, ctx_mepc'[0] = ctx_mepc[0] \/ cpu = 0,
         Front(pile'[cpu]) = Front(pile[cpu]),
         \A i \in Cases : i # cpu => pile'[i] = pile[i],
         Lancement => Derriere
  PROVE  Idle' /\ Suspendus' /\ Courant'
<1>1. Suspendus'
  BY DEF Suspendus, Cases
<1>2. Courant'
  BY DEF Courant, PcsOrdonnance, PcsTrappe, PcsCree, Pcs, Creation
<1>3. Idle'
  <2>1. Front(pile'[0]) = Front(pile[0]) /\ (cpu # 0 => pile'[0] = pile[0])
    BY SommetType
  <2>2. Sol' = Sol /\ IdleTrappe /\ IdleTrappe'
    BY <2>1 DEF Sol, IdleTrappe
  <2>3. CreationIdle(Last(Sol)) => CreationIdle(Last(Sol))'
    BY <2>2, CreationConservee
  <2>4. QED
    BY <2>1, <2>2, <2>3 DEF Idle
<1>4. QED
  BY <1>1, <1>2, <1>3

-----------------------------------------------------------------------------
(* The structure of the stacks is preserved, action by action.             *)

\* The frame on top moves on within the same process.
LEMMA EffetVaPc ==
  ASSUME Types, NEW pc \in Pcs, NEW l \in Int \cup Lieux, VaAvec(pc, l),
         cpu' = cpu
  PROVE  /\ pile' \in [Cases -> Seq(Cadres) \ {<<>>}]
         /\ Pc' = pc /\ Sommet'.local = l
         /\ Front(pile'[cpu]) = Front(pile[cpu])
         /\ \A i \in Cases : i # cpu => pile'[i] = pile[i]
  BY EffetVa DEF Pc, Sommet

\* ordonnance and ctx_sw go one step further on the same stack.
LEMMA AvanceStructure ==
  ASSUME Structure, Pc \in PcsOrdonnance,
         NEW pc \in PcsOrdonnance, NEW l \in Int \cup Lieux, VaAvec(pc, l),
         UNCHANGED <<reveil_prevu, processus_crees, nb_interruptions,
                     nb_secondes, mie, mpie, cpu>>,
         etat' \in [Cases -> Etats],
         \A i \in Cases : i >= processus_crees => etat'[i] = etat[i],
         \A i \in Cases : etat'[i] = "MORT" => etat[i] = "MORT",
         elu' \in Crees(processus_crees),
         next_elu' \in Crees(processus_crees),
         actif' \in Crees(processus_crees),
         ancien' \in Crees(processus_crees),
         mepc' \in Lieux, ctx_mepc' \in [Cases -> Lieux], ~egare',
         ctx_mepc'[0] = ctx_mepc[0] \/ cpu = 0,
         Pc' = pc => MepcIdle' = MepcIdle,
         Pc' = pc /\ Sommet'.local = l => Registres'
  PROVE  Structure' /\ Pc' = pc /\ Sommet'.local = l
<1>1. Types /\ pc \in Pcs
  BY DEF Structure, Pcs
<1>2. /\ pile' \in [Cases -> Seq(Cadres) \ {<<>>}]
      /\ Pc' = pc /\ Sommet'.local = l
      /\ Front(pile'[cpu]) = Front(pile[cpu])
      /\ \A i \in Cases : i # cpu => pile'[i] = pile[i]
  BY <1>1, EffetVaPc
<1>3. Types'
  BY <1>1, <1>2 DEF Types
<1>4. Idle' /\ Suspendus' /\ Courant'
  <2>1. \A i \in Cases : i >= processus_crees => i # cpu
    BY <1>1 DEF Types, Crees, Cases
  <2>2. Derriere
    BY <1>2, <2>1 DEF Derriere
  <2>3. QED
    BY <1>1, <1>2, <2>2, ResteOrdonnance DEF Structure
<1>5. Vivants'
  <2>1. processus_crees' = processus_crees
    OBVIOUS
  <2>2. \A i \in Crees(processus_crees) : i \in Cases /\ etat'[i] \in Etats
    BY <1>1 DEF Types, Crees, Cases
  <2>3. Vivants
    BY DEF Structure
  <2>4. QED
    BY <2>1, <2>2, <2>3 DEF Vivants, Lancement
<1>6. QED
  BY <1>2, <1>3, <1>4, <1>5 DEF Structure

LEMMA ReveilsStructure ==
  Structure /\ Reveils => Structure' /\ Pc' = "cherche"
<1> SUFFICES ASSUME Structure, Reveils
             PROVE  Structure' /\ Pc' = "cherche"
  OBVIOUS
<1>1. /\ Types /\ VaAvec("cherche", Sommet.local) /\ Pc = "reveil"
      /\ UNCHANGED <<reveil_prevu, processus_crees, elu, next_elu, actif,
                     ancien, nb_interruptions, nb_secondes, mie, mpie, mepc,
                     ctx_mepc, cpu, egare>>
  BY DEF Structure, Reveils, Va, indices, horloge, registres
<1>2. /\ etat' \in [Cases -> Etats]
      /\ \A i \in Cases : i >= processus_crees => etat'[i] = etat[i]
      /\ \A i \in Cases : etat'[i] = "MORT" => etat[i] = "MORT"
  BY <1>1 DEF Reveils, Reveille, Types, Etats, Cases
<1>3. Pc' = "cherche" => MepcIdle' = MepcIdle /\ Registres'
  BY <1>1 DEF MepcIdle, Structure, Registres
<1>4. QED
  BY <1>1, <1>2, <1>3, SommetType, AvanceStructure
     DEF Structure, Types, PcsOrdonnance

LEMMA ChercheStructure ==
  Structure /\ Cherche => Structure' /\ Pc' = "rend" /\ Sommet'.local = elu
<1> SUFFICES ASSUME Structure, Cherche
             PROVE  Structure' /\ Pc' = "rend" /\ Sommet'.local = elu
  OBVIOUS
<1>1. /\ Types /\ VaAvec("rend", elu) /\ Pc = "cherche"
      /\ UNCHANGED <<etat, reveil_prevu, processus_crees, elu, actif, ancien,
                     nb_interruptions, nb_secondes, mie, mpie, mepc,
                     ctx_mepc, cpu, egare>>
  BY DEF Structure, Cherche, horloge, registres
<1>2. next_elu' \in Crees(processus_crees)
  BY <1>1, SuivantCree DEF Cherche, Types
<1>3. Pc' = "rend" => MepcIdle' = MepcIdle
  BY <1>1 DEF MepcIdle
<1>4. Pc' = "rend" /\ Sommet'.local = elu => Registres'
  BY <1>1 DEF Structure, Registres
<1>5. elu \in Int /\ ~egare'
  BY <1>1 DEF Structure, Types, Crees
<1>6. QED
  BY <1>1, <1>2, <1>3, <1>4, <1>5, AvanceStructure
     DEF Structure, Types, PcsOrdonnance

\* ordonnance goes on: start gives the CPU back.
LEMMA RendStructure ==
  ASSUME Structure, Rend, etat[next_elu] = "ACTIVABLE"
  PROVE  Structure' /\ Pc' = "elit"
<1>1. /\ Types /\ VaAvec("elit", Sommet.local) /\ Pc = "rend"
      /\ UNCHANGED <<reveil_prevu, processus_crees, elu, next_elu, actif,
                     ancien, nb_interruptions, nb_secondes, mie, mpie, mepc,
                     ctx_mepc, cpu, egare>>
      /\ etat' = IF etat[Sommet.local] = "ELU"
                 THEN [etat EXCEPT ![Sommet.local] = "ACTIVABLE"] ELSE etat
      /\ Sommet.local = elu
  BY DEF Structure, Registres, Rend, Va, indices, horloge, registres
<1>2. /\ etat' \in [Cases -> Etats]
      /\ \A i \in Cases : i >= processus_crees => etat'[i] = etat[i]
      /\ \A i \in Cases : etat'[i] = "MORT" => etat[i] = "MORT"
  BY <1>1 DEF Types, Etats, Cases, Crees
<1>3. Pc' = "elit" => MepcIdle' = MepcIdle /\ Registres'
  BY <1>1 DEF MepcIdle, Structure, Registres
<1>4. QED
  BY <1>1, <1>2, <1>3, SommetType, AvanceStructure
     DEF Structure, Types, PcsOrdonnance

LEMMA EluNouveauStructure ==
  Structure /\ EluNouveau => Structure' /\ Pc' = "active"
<1> SUFFICES ASSUME Structure, EluNouveau
             PROVE  Structure' /\ Pc' = "active"
  OBVIOUS
<1>1. /\ Types /\ VaAvec("active", next_elu) /\ Pc = "elit"
      /\ elu' = next_elu
      /\ UNCHANGED <<reveil_prevu, processus_crees, next_elu, actif,
                     ancien, nb_interruptions, nb_secondes, mie, mpie, mepc,
                     ctx_mepc, cpu, egare>>
      /\ etat' = [etat EXCEPT ![next_elu] = "ELU"]
  BY DEF Structure, EluNouveau, horloge, registres
<1>2. /\ etat' \in [Cases -> Etats]
      /\ \A i \in Cases : i >= processus_crees => etat'[i] = etat[i]
      /\ \A i \in Cases : etat'[i] = "MORT" => etat[i] = "MORT"
  BY <1>1 DEF Types, Etats, Cases, Crees
<1>3. Pc' = "active" => MepcIdle' = MepcIdle
  BY <1>1 DEF MepcIdle
<1>4. Pc' = "active" /\ Sommet'.local = next_elu => Registres'
  BY <1>1 DEF Structure, Registres
<1>5. QED
  BY <1>1, <1>2, <1>3, <1>4, AvanceStructure
     DEF Structure, Types, PcsOrdonnance, Crees

LEMMA ActiveStructure ==
  Structure /\ Active => Structure' /\ Pc' = "sauve"
<1> SUFFICES ASSUME Structure, Active
             PROVE  Structure' /\ Pc' = "sauve"
  OBVIOUS
<1>1. /\ Types /\ VaAvec("sauve", Sommet.local) /\ Pc = "active"
      /\ ancien' = actif /\ actif' = elu /\ actif = cpu
      /\ UNCHANGED <<etat, reveil_prevu, processus_crees, elu, next_elu,
                     nb_interruptions, nb_secondes, mie, mpie, mepc,
                     ctx_mepc, cpu, egare>>
  BY DEF Structure, Registres, Active, Va, horloge, registres
<1>2. Pc' = "sauve" => MepcIdle' = MepcIdle /\ Registres'
  BY <1>1 DEF MepcIdle, Registres
<1>3. QED
  BY <1>1, <1>2, SommetType, AvanceStructure
     DEF Structure, Types, PcsOrdonnance

LEMMA SauveStructure ==
  Structure /\ Sauve => Structure' /\ Pc' = "charge"
<1> SUFFICES ASSUME Structure, Sauve
             PROVE  Structure' /\ Pc' = "charge"
  OBVIOUS
<1>1. /\ Types /\ VaAvec("charge", actif) /\ Pc = "sauve"
      /\ ctx_mepc' = [ctx_mepc EXCEPT ![cpu] = mepc] /\ ~egare'
      /\ UNCHANGED <<etat, reveil_prevu, processus_crees, elu, next_elu,
                     actif, ancien, nb_interruptions, nb_secondes, mie, mpie,
                     mepc, cpu>>
  BY DEF Structure, Registres, Sauve, globales, indices, horloge
<1>2. cpu \in Cases /\ 0 \in Cases /\ actif \in Int
  BY <1>1, SommetType DEF Types, Crees
<1>3. /\ ctx_mepc' \in [Cases -> Lieux]
      /\ ctx_mepc'[0] = IF cpu = 0 THEN mepc ELSE ctx_mepc[0]
  BY <1>1, <1>2 DEF Types
<1>4. Pc' = "charge" => MepcIdle' = MepcIdle
  BY <1>1, <1>3 DEF MepcIdle
<1>5. Pc' = "charge" /\ Sommet'.local = actif => Registres'
  BY <1>1 DEF Registres
<1>6. ctx_mepc'[0] = ctx_mepc[0] \/ cpu = 0
  BY <1>3
<1>7. /\ etat' \in [Cases -> Etats] /\ elu' \in Crees(processus_crees)
      /\ next_elu' \in Crees(processus_crees)
      /\ actif' \in Crees(processus_crees)
      /\ ancien' \in Crees(processus_crees) /\ mepc' \in Lieux
  BY <1>1 DEF Types
<1>8. QED
  BY <1>1, <1>2, <1>3, <1>4, <1>5, <1>6, <1>7, AvanceStructure
     DEF Structure, PcsOrdonnance

LEMMA ChargeMepcStructure ==
  Structure /\ ChargeMepc => Structure' /\ Pc' = "bascule"
<1> SUFFICES ASSUME Structure, ChargeMepc
             PROVE  Structure' /\ Pc' = "bascule"
  OBVIOUS
<1>1. /\ Types /\ VaAvec("bascule", Sommet.local) /\ Pc = "charge"
      /\ Sommet.local = actif /\ mepc' = ctx_mepc[actif]
      /\ UNCHANGED <<etat, reveil_prevu, processus_crees, elu, next_elu,
                     actif, ancien, nb_interruptions, nb_secondes, mie, mpie,
                     ctx_mepc, cpu, egare>>
  BY DEF Structure, Registres, ChargeMepc, Va, globales, indices, horloge
<1>2. mepc' \in Lieux
  BY <1>1 DEF Types, Crees, Cases
<1>3. Pc' = "bascule" => MepcIdle' = MepcIdle
  BY <1>1 DEF MepcIdle
<1>4. Pc' = "bascule" /\ Sommet'.local = actif => Registres'
  BY <1>1 DEF Registres
<1>5. QED
  BY <1>1, <1>2, <1>3, <1>4, SommetType, AvanceStructure
     DEF Structure, Types, PcsOrdonnance, Crees

\* ctx_sw changes stacks.  The stack it comes to is suspended in ctx_sw too,
\* or belongs to a process that has not run yet; idle is found in its trap.
LEMMA BasculeStructure ==
  Structure /\ Bascule => Structure' /\ Pc' \in {"retour", "code"}
<1> SUFFICES ASSUME Structure, Bascule
             PROVE  Structure' /\ Pc' \in {"retour", "code"}
  OBVIOUS
<1>1. /\ Types /\ VaAvec("retour", Sommet.local) /\ Pc = "bascule"
      /\ Sommet.local = actif /\ mepc = ctx_mepc[actif]
      /\ cpu' = actif /\ egare' = (Last(pile[actif]).pc = "nulle")
      /\ UNCHANGED <<etat, reveil_prevu, processus_crees, elu, next_elu,
                     actif, ancien, nb_interruptions, nb_secondes, mie, mpie,
                     mepc, ctx_mepc>>
  BY DEF Structure, Registres, Bascule, Va, globales, indices, horloge,
         registres
<1>2. /\ pile' \in [Cases -> Seq(Cadres) \ {<<>>}]
      /\ Last(pile'[cpu]).pc = "retour"
      /\ Front(pile'[cpu]) = Front(pile[cpu])
      /\ \A i \in Cases : i # cpu => pile'[i] = pile[i]
  BY <1>1, SommetType, EffetVa DEF Pcs, PcsOrdonnance
<1>3. /\ actif \in Cases /\ cpu \in Cases /\ 0 \in Cases
      /\ actif < processus_crees /\ ~(actif >= processus_crees)
  BY <1>1 DEF Types, Crees, Cases
<1>4. Types'
  BY <1>1, <1>2 DEF Types
<1>5. Front(pile'[0]) = Front(pile[0])
  BY <1>2, <1>3
<1>6. /\ ~mie
      /\ cpu # 0 => Front(pile[cpu]) = <<Code>>
      /\ IdleTrappe
  BY <1>1 DEF Structure, Courant, IdleTrappe, PcsOrdonnance, PcsCree,
              Creation
<1>7. CASE actif = cpu
  <2>1. Pc' = "retour"
    BY <1>1, <1>2, <1>7 DEF Pc, Sommet
  <2>2. MepcIdle' = MepcIdle
    BY <1>1, <1>7, <2>1 DEF MepcIdle
  <2>3. Registres'
    BY <1>1, <1>7, <2>1 DEF Registres
  <2>4. ~egare'
    BY <1>1, <1>7 DEF Pc, Sommet
  <2>5. /\ etat' \in [Cases -> Etats] /\ elu' \in Crees(processus_crees)
        /\ next_elu' \in Crees(processus_crees)
        /\ actif' \in Crees(processus_crees) /\ ctx_mepc' = ctx_mepc
        /\ ancien' \in Crees(processus_crees) /\ mepc' \in Lieux
        /\ ctx_mepc' \in [Cases -> Lieux] /\ cpu' = cpu
    BY <1>1, <1>7 DEF Types
  <2>6. QED
    BY <1>1, <2>1, <2>2, <2>3, <2>4, <2>5, SommetType, AvanceStructure
       DEF PcsOrdonnance
<1>8. CASE actif # cpu
  <2>1. pile'[actif] = pile[actif]
    BY <1>2, <1>3, <1>8
  <2>2. Pc' = Last(pile[actif]).pc
    BY <1>1, <2>1 DEF Pc, Sommet
  <2>3. CASE actif = 0
    <3>1. Pc' = "retour"
      BY <1>8, <2>2, <2>3 DEF Structure, Idle
    <3>2. ~egare'
      BY <1>1, <2>2, <3>1
    <3>3. Courant' /\ Registres' /\ Vivants'
      BY <1>1, <1>6, <2>3, <3>1
         DEF Structure, Courant, Registres, Vivants, Lancement, Pcs,
             PcsOrdonnance, PcsTrappe, PcsCree, Creation
    <3>4. Suspendus'
      BY <1>1, <1>2, <1>6, <1>8, <2>3 DEF Structure, Suspendus
    <3>5. Idle'
      <4>1. /\ IdleTrappe' /\ MepcIdle' = mepc /\ MepcIdle = ctx_mepc[0]
            /\ mepc = ctx_mepc[0] /\ Sol' = Sol
        BY <1>1, <1>5, <1>6, <1>8, <2>3, <3>1
           DEF IdleTrappe, PcsOrdonnance, MepcIdle, Sol
      <4>2. Lancement => Derriere
        BY <1>1, <1>2, <1>3 DEF Derriere, Types, Crees, Cases
      <4>3. CreationIdle(Last(Sol)) => CreationIdle(Last(Sol))'
        BY <1>1, <4>1, <4>2, CreationConservee
      <4>4. QED
        BY <1>1, <1>5, <1>6, <2>3, <4>1, <4>3 DEF Structure, Idle
    <3>6. QED
      BY <1>4, <3>1, <3>2, <3>3, <3>4, <3>5 DEF Structure
  <2>4. CASE actif # 0
    <3>1. \/ pile[actif] = <<Code>>
          \/ Front(pile[actif]) = <<Code>> /\ Last(pile[actif]).pc = "retour"
      BY <1>3, <1>8, <2>4 DEF Structure, Suspendus
    <3>2. /\ Pc' \in {"code", "retour"}
          /\ IF Pc' = "code" THEN pile'[actif] = <<Code>>
                             ELSE Front(pile'[actif]) = <<Code>>
      BY <2>1, <2>2, <3>1, PileCode
    <3>3. ~egare'
      BY <1>1, <2>2, <3>2
    <3>4. Courant' /\ Registres' /\ Vivants'
      BY <1>1, <1>6, <2>4, <3>2
         DEF Structure, Courant, Registres, Vivants, Lancement, Pcs,
             PcsOrdonnance, PcsTrappe, PcsCree, Creation
    <3>5. Suspendus'
      BY <1>1, <1>2, <1>6, <1>8, <2>4 DEF Structure, Suspendus
    <3>6. Idle'
      <4>1. /\ IdleTrappe' /\ MepcIdle' = ctx_mepc[0]
            /\ MepcIdle = ctx_mepc[0] /\ Sol' = Sol
        BY <1>1, <1>5, <1>6, <2>4 DEF IdleTrappe, MepcIdle, Sol
      <4>2. Lancement => Derriere
        BY <1>1, <1>2, <1>3 DEF Derriere, Types, Crees, Cases
      <4>3. CreationIdle(Last(Sol)) => CreationIdle(Last(Sol))'
        BY <1>1, <4>1, <4>2, CreationConservee
      <4>4. Last(pile'[0]).pc = "retour"
        BY <1>2, <1>3 DEF Structure, Idle
      <4>5. QED
        BY <1>1, <1>5, <1>6, <4>1, <4>3, <4>4 DEF Structure, Idle
    <3>7. QED
      BY <1>4, <3>2, <3>3, <3>4, <3>5, <3>6 DEF Structure
  <2>5. QED
    BY <2>3, <2>4
<1>9. QED
  BY <1>7, <1>8

\* ordonnance returns: to the trap handler for idle, to the code of the
\* process (through dors) for another.
LEMMA RetourStructure ==
  ASSUME Structure, Pc \in {"rend", "retour"}, Depile,
         UNCHANGED <<globales, horloge, registres, cpu, egare>>
  PROVE  Structure' /\ Pc' = IF cpu = 0 THEN "traitant2" ELSE "code"
<1>1. /\ Types
      /\ UNCHANGED <<etat, reveil_prevu, processus_crees, elu, next_elu,
                     actif, ancien, nb_interruptions, nb_secondes, mie, mpie,
                     mepc, ctx_mepc, cpu, egare>>
  BY DEF Structure, globales, indices, horloge, registres
<1>2. /\ ~mie /\ IdleTrappe /\ actif = cpu
      /\ cpu # 0 => Front(pile[cpu]) = <<Code>>
      /\ cpu = 0 => /\ Front(pile[0]) # <<>>
                    /\ Last(Front(pile[0])) = Cadre("traitant2", mepc)
  BY DEF Structure, Courant, Idle, IdleTrappe, MepcIdle, Registres,
         PcsOrdonnance, PcsCree, Creation
<1>3. /\ pile' \in [Cases -> Seq(Cadres) \ {<<>>}]
      /\ pile'[cpu] = Front(pile[cpu])
      /\ \A i \in Cases : i # cpu => pile'[i] = pile[i]
  BY <1>1, <1>2, EffetDepile, PileCode
<1>4. Types' /\ ~egare' /\ Vivants'
  BY <1>1, <1>3 DEF Structure, Types, Vivants, Lancement
<1>5. Lancement => Derriere
  BY <1>1, <1>3 DEF Derriere, Types, Crees, Cases
<1>6. CASE cpu # 0
  <2>1. Pc' = "code"
    BY <1>1, <1>2, <1>3, <1>6, PileCode DEF Pc, Sommet
  <2>2. Courant' /\ Registres'
    BY <1>1, <1>2, <1>3, <1>6, <2>1
       DEF Courant, Registres, Pcs, PcsOrdonnance, PcsTrappe, PcsCree,
           Creation
  <2>3. Idle' /\ Suspendus'
    <3>1. cpu \in Cases /\ 0 \in Cases
      BY <1>1, SommetType
    <3>2. pile'[0] = pile[0]
      BY <1>3, <1>6, <3>1
    <3>3. QED
      BY <1>1, <1>3, <1>5, <1>6, <3>2, ResteAutre DEF Structure
  <2>4. QED
    BY <1>4, <1>6, <2>1, <2>2, <2>3 DEF Structure
<1>7. CASE cpu = 0
  <2>1. Sommet' = Cadre("traitant2", mepc) /\ Pc' = "traitant2"
    BY <1>1, <1>2, <1>3, <1>7 DEF Pc, Sommet, Cadre
  <2>2. Courant' /\ Registres'
    BY <1>1, <1>2, <1>7, <2>1
       DEF Courant, Registres, Pcs, PcsOrdonnance, PcsTrappe, PcsCree,
           Creation, Cadre
  <2>3. Suspendus'
    BY <1>1, <1>3, <1>7 DEF Structure, Suspendus
  <2>4. Idle'
    <3>1. Sol' = Sol /\ ~IdleTrappe'
      BY <1>1, <1>2, <1>3, <1>7, <2>1
         DEF Sol, IdleTrappe, PcsTrappe, PcsOrdonnance
    <3>2. CreationIdle(Last(Sol)) => CreationIdle(Last(Sol))'
      BY <1>1, <1>5, <3>1, CreationConservee
    <3>3. QED
      BY <1>1, <1>7, <3>1, <3>2 DEF Structure, Idle
  <2>5. QED
    BY <1>4, <1>7, <2>1, <2>2, <2>3, <2>4 DEF Structure
<1>8. QED
  BY <1>6, <1>7

-----------------------------------------------------------------------------
(* The trap, which only idle takes.                                        *)

\* The frames of idle below the trap are in place.
LEMMA SolType ==
  ASSUME Types, Idle
  PROVE  /\ Sol \in Seq(Cadres) /\ Sol # <<>>
         /\ Last(Sol).pc \in {"code"} \cup PcsCree
<1>1. Sol \in Seq(Cadres)
  BY SommetType, Depilee DEF Sol, Idle
<1>2. Sol # <<>>
  BY PileCode DEF Idle
<1>3. Last(Sol).pc \in {"code"} \cup PcsCree
  BY PileCode DEF Idle, CreationIdle
<1>4. QED
  BY <1>1, <1>2, <1>3

\* What every step of the trap keeps.
LEMMA TrappeReste ==
  ASSUME Structure, cpu = 0, Types', Sol' = Sol,
         UNCHANGED <<etat, reveil_prevu, processus_crees, actif, ctx_mepc,
                     cpu>>,
         \A i \in Cases : i # cpu => pile'[i] = pile[i],
         IdleTrappe' => /\ Front(pile'[0]) # <<>>
                        /\ Last(Front(pile'[0])) = Cadre("traitant2", mepc')
                        /\ Pc' \notin {"charge", "bascule"}
  PROVE  Idle' /\ Suspendus' /\ Vivants'
<1>1. Suspendus' /\ Vivants'
  BY DEF Structure, Suspendus, Vivants, Lancement
<1>2. Lancement => Derriere
  BY DEF Structure, Derriere, Types, Cases
<1>3. CreationIdle(Last(Sol)) => CreationIdle(Last(Sol))'
  BY <1>2, CreationConservee DEF Structure
<1>4. IdleTrappe' => MepcIdle' = mepc'
  BY DEF MepcIdle
<1>5. QED
  BY <1>1, <1>3, <1>4 DEF Structure, Idle

LEMMA TrappeStructure ==
  Structure /\ Trappe => Structure' /\ cpu = 0 /\ Pc' = "traitant1"
<1> SUFFICES ASSUME Structure, Trappe
             PROVE  Structure' /\ cpu = 0 /\ Pc' = "traitant1"
  OBVIOUS
<1>1. /\ Types /\ Empile(Cadre("traitant1", Lieu)) /\ mie /\ mie' = FALSE
      /\ mpie' = TRUE /\ mepc' = Lieu
      /\ UNCHANGED <<etat, reveil_prevu, processus_crees, elu, next_elu,
                     actif, ancien, nb_interruptions, nb_secondes, ctx_mepc,
                     cpu, egare>>
  BY DEF Structure, Trappe, globales, indices, horloge
<1>2. /\ cpu = 0 /\ Pc \in {"code"} \cup PcsCree /\ ~IdleTrappe
      /\ Sol = pile[0] /\ actif = 0
  BY <1>1 DEF Structure, Courant, Registres, IdleTrappe, Sol,
              PcsOrdonnance, PcsTrappe, PcsCree, Creation
<1>3. Lieu \in Lieux /\ "traitant1" \in Pcs
  <2>1. cpu \in Nat /\ Len(pile[cpu]) \in Nat /\ Pc \in Pcs
    BY <1>1, <1>2, SommetType DEF Pc
  <2>2. QED
    BY <2>1 DEF Lieu, Lieux, Pcs, PcsTrappe
<1>4. /\ pile' \in [Cases -> Seq(Cadres) \ {<<>>}]
      /\ Pc' = "traitant1" /\ Sommet'.local = mepc'
      /\ Front(pile'[cpu]) = pile[cpu]
      /\ \A i \in Cases : i # cpu => pile'[i] = pile[i]
  BY <1>1, <1>3, EffetEmpile DEF Pc, Sommet
<1>5. Types' /\ ~egare'
  BY <1>1, <1>3, <1>4 DEF Structure, Types
<1>6. Sol' = Sol /\ ~IdleTrappe'
  BY <1>1, <1>2, <1>4 DEF Sol, IdleTrappe, PcsOrdonnance, PcsTrappe
<1>7. Idle' /\ Suspendus' /\ Vivants'
  BY <1>1, <1>2, <1>4, <1>5, <1>6, TrappeReste
<1>8. Courant' /\ Registres'
  BY <1>1, <1>2, <1>4 DEF Courant, Registres, Pcs, PcsTrappe, PcsCree,
                          Creation, PcsOrdonnance
<1>9. QED
  BY <1>2, <1>4, <1>5, <1>7, <1>8 DEF Structure

\* trap_handler calls ordonnance.
LEMMA CompteStructure ==
  Structure /\ Compte => Structure' /\ cpu = 0 /\ Pc' = "reveil"
<1> SUFFICES ASSUME Structure, Compte
             PROVE  Structure' /\ cpu = 0 /\ Pc' = "reveil"
  OBVIOUS
<1> DEFINE s == Front(pile[0])
           t == Cadre("traitant2", mepc)
           r == Cadre("reveil", 0)
<1>1. /\ Types /\ Pc = "traitant1"
      /\ nb_interruptions' = nb_interruptions + 1
      /\ UNCHANGED <<etat, reveil_prevu, processus_crees, elu, next_elu,
                     actif, ancien, nb_secondes, mie, mpie, mepc, ctx_mepc,
                     cpu, egare>>
  BY DEF Structure, Compte, globales, indices, registres
<1>2. cpu = 0 /\ Sommet.local = mepc /\ ~mie /\ actif = 0
  BY <1>1 DEF Structure, Courant, Registres, PcsTrappe, PcsCree, Creation
<1>3. /\ s \in Seq(Cadres) /\ t \in Cadres /\ r \in Cadres
      /\ r.pc = "reveil" /\ 0 \in Cases
  <2>1. mepc \in Int \cup Lieux /\ 0 \in Int \cup Lieux
    BY <1>1 DEF Types
  <2>2. t \in Cadres /\ r \in Cadres /\ r.pc = "reveil"
    BY <2>1, CadreType DEF Pcs, PcsTrappe, PcsOrdonnance
  <2>3. QED
    BY <1>1, <2>2, SommetType
<1>4. pile' = [pile EXCEPT ![0] = s \o <<t, r>>]
  BY <1>2 DEF Compte
<1> HIDE DEF s, t, r
<1>5. s \o <<t, r>> = Append(Append(s, t), r)
  BY <1>3
<1>6. /\ Append(s, t) \in Seq(Cadres) \ {<<>>}
      /\ Last(Append(s, t)) = t /\ Front(Append(s, t)) = s
  BY <1>3, Empilee
<1>7. /\ s \o <<t, r>> \in Seq(Cadres) \ {<<>>}
      /\ Last(s \o <<t, r>>) = r /\ Front(s \o <<t, r>>) = Append(s, t)
  <2> DEFINE u == Append(s, t)
  <2>1. u \in Seq(Cadres)
    BY <1>6
  <2> HIDE DEF u
  <2>2. /\ Append(u, r) \in Seq(Cadres) \ {<<>>}
        /\ Last(Append(u, r)) = r /\ Front(Append(u, r)) = u
    BY <1>3, <2>1, Empilee
  <2>3. s \o <<t, r>> = Append(u, r)
    BY <1>5 DEF u
  <2>4. QED
    BY <2>2, <2>3 DEF u
<1>8. /\ pile' \in [Cases -> Seq(Cadres) \ {<<>>}]
      /\ pile'[0] = s \o <<t, r>>
      /\ \A i \in Cases : i # cpu => pile'[i] = pile[i]
  BY <1>1, <1>2, <1>3, <1>4, <1>7 DEF Types
<1>9. Pc' = "reveil"
  BY <1>1, <1>2, <1>3, <1>7, <1>8 DEF Pc, Sommet
<1>10. Types' /\ ~egare'
  BY <1>1, <1>8 DEF Structure, Types
<1>11. Sol' = Sol /\ IdleTrappe'
  BY <1>1, <1>2, <1>6, <1>7, <1>8, <1>9
     DEF Sol, IdleTrappe, PcsOrdonnance, PcsTrappe, s
<1>12. Front(pile'[0]) # <<>> /\ Last(Front(pile'[0])) = t
  BY <1>6, <1>7, <1>8
<1>13. Idle' /\ Suspendus' /\ Vivants'
  BY <1>1, <1>2, <1>8, <1>9, <1>10, <1>11, <1>12, TrappeReste DEF t
<1>14. Courant' /\ Registres'
  BY <1>1, <1>2, <1>9 DEF Courant, Registres, Pcs, PcsTrappe, PcsCree,
                          Creation, PcsOrdonnance
<1>15. QED
  BY <1>2, <1>9, <1>10, <1>13, <1>14 DEF Structure

LEMMA SecondeStructure ==
  Structure /\ Seconde => Structure' /\ cpu = 0 /\ Pc' = "mret"
<1> SUFFICES ASSUME Structure, Seconde
             PROVE  Structure' /\ cpu = 0 /\ Pc' = "mret"
  OBVIOUS
<1>1. /\ Types /\ Pc = "traitant2" /\ VaAvec("mret", Sommet.local)
      /\ nb_secondes' = IF nb_interruptions % IT_FREQ = 0
                        THEN nb_secondes + 1 ELSE nb_secondes
      /\ UNCHANGED <<etat, reveil_prevu, processus_crees, elu, next_elu,
                     actif, ancien, nb_interruptions, mie, mpie, mepc,
                     ctx_mepc, cpu, egare>>
  BY DEF Structure, Seconde, Va, globales, indices, registres
<1>2. cpu = 0 /\ Sommet.local = mepc /\ ~mie /\ actif = 0
  BY <1>1 DEF Structure, Courant, Registres, PcsTrappe, PcsCree, Creation
<1>3. /\ pile' \in [Cases -> Seq(Cadres) \ {<<>>}]
      /\ Pc' = "mret" /\ Sommet'.local = mepc
      /\ Front(pile'[cpu]) = Front(pile[cpu])
      /\ \A i \in Cases : i # cpu => pile'[i] = pile[i]
  BY <1>1, <1>2, SommetType, EffetVaPc DEF Pcs, PcsTrappe
<1>4. Types' /\ ~egare'
  BY <1>1, <1>3 DEF Structure, Types
<1>5. Sol' = Sol /\ ~IdleTrappe'
  BY <1>1, <1>2, <1>3 DEF Sol, IdleTrappe, PcsOrdonnance, PcsTrappe
<1>6. Idle' /\ Suspendus' /\ Vivants'
  BY <1>1, <1>2, <1>3, <1>4, <1>5, TrappeReste
<1>7. Courant' /\ Registres'
  BY <1>1, <1>2, <1>3 DEF Courant, Registres, Pcs, PcsTrappe, PcsCree,
                          Creation, PcsOrdonnance
<1>8. QED
  BY <1>2, <1>3, <1>4, <1>6, <1>7 DEF Structure

\* mret finds in mepc what its own trap has left there.
LEMMA MretStructure ==
  Structure /\ Mret =>
    Structure' /\ cpu = 0 /\ Pc' \in {"code"} \cup PcsCree
<1> SUFFICES ASSUME Structure, Mret
             PROVE  Structure' /\ cpu = 0 /\ Pc' \in {"code"} \cup PcsCree
  OBVIOUS
<1>1. /\ Types /\ Pc = "mret" /\ Depile
      /\ mie' = TRUE /\ mpie' = TRUE /\ egare' = (mepc # Sommet.local)
      /\ UNCHANGED <<etat, reveil_prevu, processus_crees, elu, next_elu,
                     actif, ancien, nb_interruptions, nb_secondes, mepc,
                     ctx_mepc, cpu>>
  BY DEF Structure, Types, Mret, globales, indices, horloge
<1>2. /\ cpu = 0 /\ Sommet.local = mepc /\ actif = 0 /\ ~IdleTrappe
      /\ Sol = Front(pile[0])
  BY <1>1 DEF Structure, Courant, Registres, PcsTrappe, IdleTrappe, Sol,
              PcsOrdonnance
<1>3. Sol # <<>> /\ Last(Sol).pc \in {"code"} \cup PcsCree
  BY SolType DEF Structure
<1>4. /\ pile' \in [Cases -> Seq(Cadres) \ {<<>>}]
      /\ pile'[0] = Sol
      /\ \A i \in Cases : i # cpu => pile'[i] = pile[i]
  BY <1>1, <1>2, <1>3, EffetDepile
<1>5. Pc' = Last(Sol).pc
  BY <1>1, <1>2, <1>4 DEF Pc, Sommet
<1>6. Types' /\ ~egare'
  BY <1>1, <1>2, <1>4 DEF Types
<1>7. Sol' = Sol /\ ~IdleTrappe'
  BY <1>1, <1>2, <1>3, <1>4, <1>5
     DEF Sol, IdleTrappe, PcsOrdonnance, PcsTrappe, PcsCree, Creation
<1>8. Idle' /\ Suspendus' /\ Vivants'
  BY <1>1, <1>2, <1>4, <1>6, <1>7, TrappeReste
<1>9. Courant' /\ Registres'
  BY <1>1, <1>2, <1>3, <1>5
     DEF Courant, Registres, Pcs, PcsTrappe, PcsCree, Creation,
         PcsOrdonnance
<1>10. QED
  BY <1>2, <1>3, <1>5, <1>6, <1>8, <1>9 DEF Structure

-----------------------------------------------------------------------------
(* dors and fin_processus, up to their call of ordonnance.                 *)

\* A process other than idle goes from one frame above its code to another.
LEMMA AppelStructure ==
  ASSUME Structure, cpu # 0, Types', Vivants',
         UNCHANGED <<processus_crees, actif, mie, mepc, ctx_mepc, cpu,
                     egare>>,
         Pc' \in {"dors1", "dors2", "fin1", "reveil"},
         Pc' \in {"dors1", "dors2"} => Sommet'.local \in Durees,
         Pc' = "fin1" => ~Lancement,
         Front(pile'[cpu]) = <<Code>>,
         \A i \in Cases : i # cpu => pile'[i] = pile[i],
         Pc \in {"code", "dors1", "dors2", "fin1"},
         Lancement => Derriere
  PROVE  Structure'
<1>1. Courant' /\ Registres'
  BY DEF Structure, Courant, Registres, Lancement, Pcs, PcsTrappe, PcsCree,
         Creation, PcsOrdonnance
<1>2. Idle' /\ Suspendus'
  BY SommetType, ResteAutre DEF Structure
<1>3. QED
  BY <1>1, <1>2 DEF Structure

\* A process other than idle runs alone.
LEMMA AutreCourant ==
  ASSUME Structure
  PROVE  /\ Pc = "code" /\ actif # 0 => cpu # 0 /\ pile[cpu] = <<Code>>
         /\ Pc \in {"dors1", "dors2", "fin1"} =>
              cpu # 0 /\ Front(pile[cpu]) = <<Code>>
         /\ Pc \in {"code", "dors1", "dors2", "fin1"} => actif = cpu
         /\ actif \in Cases
         /\ \A i \in Cases : i >= processus_crees => i # cpu /\ i # actif
  BY DEF Structure, Courant, Registres, Types, Crees, Cases

LEMMA AppelDorsStructure ==
  ASSUME NEW n \in Durees
  PROVE  Structure /\ AppelDors(n) =>
           Structure' /\ cpu # 0 /\ Pc' = "dors1" /\ Sommet'.local = n
<1> SUFFICES ASSUME Structure, AppelDors(n)
             PROVE  /\ Structure' /\ cpu # 0 /\ Pc' = "dors1"
                    /\ Sommet'.local = n
  OBVIOUS
<1>1. /\ Types /\ Empile(Cadre("dors1", n)) /\ Pc = "code" /\ actif # 0
      /\ UNCHANGED <<etat, reveil_prevu, processus_crees, elu, next_elu,
                     actif, ancien, nb_interruptions, nb_secondes, mie, mpie,
                     mepc, ctx_mepc, cpu, egare>>
  BY DEF Structure, AppelDors, globales, indices, horloge, registres
<1>2. n \in Int \cup Lieux /\ "dors1" \in Pcs
  BY DEF Pcs
<1>3. /\ pile' \in [Cases -> Seq(Cadres) \ {<<>>}]
      /\ Pc' = "dors1" /\ Sommet'.local = n
      /\ Front(pile'[cpu]) = pile[cpu]
      /\ \A i \in Cases : i # cpu => pile'[i] = pile[i]
  BY <1>1, <1>2, EffetEmpile DEF Pc, Sommet
<1>4. Types' /\ Vivants'
  BY <1>1, <1>3 DEF Structure, Types, Vivants, Lancement
<1>5. Derriere
  BY <1>1, <1>3, AutreCourant DEF Derriere
<1>6. QED
  BY <1>1, <1>3, <1>4, <1>5, AutreCourant, AppelStructure

LEMMA EndortStructure ==
  Structure /\ Endort =>
    Structure' /\ Pc' = "dors2" /\ Sommet'.local = Sommet.local
<1> SUFFICES ASSUME Structure, Endort
             PROVE  Structure' /\ Pc' = "dors2" /\ Sommet'.local = Sommet.local
  OBVIOUS
<1>1. /\ Types /\ VaAvec("dors2", Sommet.local) /\ Pc = "dors1"
      /\ etat' = [etat EXCEPT ![actif] = "ENDORMI"]
      /\ UNCHANGED <<reveil_prevu, processus_crees, elu, next_elu,
                     actif, ancien, nb_interruptions, nb_secondes, mie, mpie,
                     mepc, ctx_mepc, cpu, egare>>
  BY DEF Structure, Endort, Va, indices, horloge, registres
<1>2. /\ pile' \in [Cases -> Seq(Cadres) \ {<<>>}]
      /\ Pc' = "dors2" /\ Sommet'.local = Sommet.local
      /\ Front(pile'[cpu]) = Front(pile[cpu])
      /\ \A i \in Cases : i # cpu => pile'[i] = pile[i]
  BY <1>1, SommetType, EffetVaPc DEF Pcs
<1>3. Types' /\ Vivants'
  <2>1. etat \in [Cases -> Etats] /\ actif \in Cases
    BY <1>1, AutreCourant DEF Types
  <2>2. /\ etat' \in [Cases -> Etats]
        /\ \A i \in Cases : etat'[i] = "MORT" => etat[i] = "MORT"
    BY <1>1, <2>1 DEF Etats
  <2>3. Types'
    BY <1>1, <1>2, <2>2 DEF Types
  <2>4. Vivants'
    BY <1>1, <2>2 DEF Structure, Vivants, Lancement, Types, Crees, Cases
  <2>5. QED
    BY <2>3, <2>4
<1>4. Derriere
  BY <1>1, <1>2, AutreCourant DEF Derriere, Types
<1>5. Sommet'.local \in Durees
  BY <1>1, <1>2 DEF Structure, Courant
<1>6. QED
  BY <1>1, <1>2, <1>3, <1>4, <1>5, AutreCourant, AppelStructure

LEMMA ProgrammeStructure ==
  Structure /\ Programme => Structure' /\ cpu # 0 /\ Pc' = "reveil"
<1> SUFFICES ASSUME Structure, Programme
             PROVE  Structure' /\ cpu # 0 /\ Pc' = "reveil"
  OBVIOUS
<1>1. /\ Types /\ VaAvec("reveil", Sommet.local) /\ Pc = "dors2"
      /\ reveil_prevu' =
           [reveil_prevu EXCEPT ![actif] = nb_secondes + Sommet.local]
      /\ UNCHANGED <<etat, processus_crees, elu, next_elu,
                     actif, ancien, nb_interruptions, nb_secondes, mie, mpie,
                     mepc, ctx_mepc, cpu, egare>>
  BY DEF Structure, Programme, Va, indices, horloge, registres
<1>2. /\ pile' \in [Cases -> Seq(Cadres) \ {<<>>}]
      /\ Pc' = "reveil"
      /\ Front(pile'[cpu]) = Front(pile[cpu])
      /\ \A i \in Cases : i # cpu => pile'[i] = pile[i]
  BY <1>1, SommetType, EffetVaPc DEF Pcs, PcsOrdonnance
<1>3. nb_secondes + Sommet.local \in Nat
  <2>1. Sommet.local \in Durees
    BY <1>1 DEF Structure, Courant
  <2>2. nb_secondes \in Nat /\ Sommet.local \in Nat
    BY <1>1, <2>1 DEF Types
  <2>3. QED
    BY <2>2
<1>4. Types' /\ Vivants'
  BY <1>1, <1>2, <1>3 DEF Structure, Types, Vivants, Lancement
<1>5. Derriere
  BY <1>1, <1>2, AutreCourant DEF Derriere, Types
<1>6. QED
  BY <1>1, <1>2, <1>4, <1>5, AutreCourant, AppelStructure

LEMMA AppelFinStructure ==
  Structure /\ AppelFin => Structure' /\ cpu # 0 /\ Pc' = "fin1"
<1> SUFFICES ASSUME Structure, AppelFin
             PROVE  Structure' /\ cpu # 0 /\ Pc' = "fin1"
  OBVIOUS
<1>1. /\ Types /\ Empile(Cadre("fin1", 0)) /\ Pc = "code" /\ actif # 0
      /\ ~Lancement
      /\ UNCHANGED <<etat, reveil_prevu, processus_crees, elu, next_elu,
                     actif, ancien, nb_interruptions, nb_secondes, mie, mpie,
                     mepc, ctx_mepc, cpu, egare>>
  BY DEF Structure, AppelFin, globales, indices, horloge, registres
<1>2. 0 \in Int \cup Lieux /\ "fin1" \in Pcs
  BY DEF Pcs
<1>3. /\ pile' \in [Cases -> Seq(Cadres) \ {<<>>}]
      /\ Pc' = "fin1"
      /\ Front(pile'[cpu]) = pile[cpu]
      /\ \A i \in Cases : i # cpu => pile'[i] = pile[i]
  BY <1>1, <1>2, EffetEmpile DEF Pc, Sommet
<1>4. Types' /\ Vivants'
  <2>1. Types'
    BY <1>1, <1>3 DEF Types
  <2>2. Vivants'
    BY <1>1 DEF Vivants, Lancement
  <2>3. QED
    BY <2>1, <2>2
<1>5. QED
  BY <1>1, <1>3, <1>4, AutreCourant, AppelStructure

LEMMA MeurtStructure ==
  Structure /\ Meurt => Structure' /\ cpu # 0 /\ Pc' = "reveil"
<1> SUFFICES ASSUME Structure, Meurt
             PROVE  Structure' /\ cpu # 0 /\ Pc' = "reveil"
  OBVIOUS
<1>1. /\ Types /\ VaAvec("reveil", Sommet.local) /\ Pc = "fin1"
      /\ etat' = [etat EXCEPT ![actif] = "MORT"] /\ ~Lancement
      /\ UNCHANGED <<reveil_prevu, processus_crees, elu, next_elu,
                     actif, ancien, nb_interruptions, nb_secondes, mie, mpie,
                     mepc, ctx_mepc, cpu, egare>>
  BY DEF Structure, Courant, Meurt, Va, indices, horloge, registres
<1>2. /\ pile' \in [Cases -> Seq(Cadres) \ {<<>>}]
      /\ Pc' = "reveil"
      /\ Front(pile'[cpu]) = Front(pile[cpu])
      /\ \A i \in Cases : i # cpu => pile'[i] = pile[i]
  BY <1>1, SommetType, EffetVaPc DEF Pcs, PcsOrdonnance
<1>3. Types' /\ Vivants'
  <2>1. etat' \in [Cases -> Etats]
    BY <1>1 DEF Types, Etats
  <2>2. Types'
    BY <1>1, <1>2, <2>1 DEF Types
  <2>3. Vivants'
    BY <1>1 DEF Vivants, Lancement
  <2>4. QED
    BY <2>2, <2>3
<1>4. QED
  BY <1>1, <1>2, <1>3, AutreCourant, AppelStructure

-----------------------------------------------------------------------------
(* cree_processus.                                                         *)

\* What is known of the creation under way on the stack in use.
LEMMA CreationCourante ==
  ASSUME Structure, Pc \in PcsCree
  PROVE  /\ Front(pile[cpu]) = <<Code>> /\ actif = cpu
         /\ CreationEnCours(Sommet)
         /\ Pc \in Creation => (cpu = 0 <=> Lancement)
         /\ Pc \in Creation \ {"cree1", "cree2"} =>
              /\ Sommet.local \in Cases /\ Sommet.local \in Int
              /\ Sommet.local # 0 /\ Sommet.local # cpu
              /\ cpu = 0 => Sommet.local = processus_crees
<1>1. actif = cpu
  BY DEF Structure, Registres, PcsCree, Creation
<1>2. /\ Front(pile[cpu]) = <<Code>>
      /\ cpu = 0 => CreationIdle(Sommet)
      /\ cpu # 0 => CreationAutre(Sommet)
  <2>1. CASE cpu # 0
    BY <2>1 DEF Structure, Courant, PcsCree, Creation
  <2>2. CASE cpu = 0
    <3>1. Sol = pile[0]
      BY <2>2 DEF Sol, IdleTrappe, PcsCree, PcsTrappe, PcsOrdonnance,
                  Creation
    <3>2. pile[0] # <<Code>>
      BY <2>2, PileCode DEF PcsCree, Creation, Pc, Sommet
    <3>3. QED
      BY <2>2, <3>1, <3>2 DEF Structure, Idle, Sommet
  <2>3. QED
    BY <2>1, <2>2
<1>3. /\ CreationEnCours(Sommet)
      /\ Pc \in Creation => (cpu = 0 <=> Lancement)
  BY <1>2 DEF CreationIdle, CreationAutre, Pc
<1>4. ASSUME Pc \in Creation \ {"cree1", "cree2"}
      PROVE  /\ Sommet.local \in 1 .. processus_crees
             /\ processus_crees < NB_PROCESSUS_MAX
             /\ cpu # 0 => Sommet.local # cpu
             /\ cpu = 0 => Sommet.local = processus_crees
  BY <1>2, <1>3, <1>4
     DEF CreationEnCours, CreationIdle, CreationAutre, Pc
<1>5. ASSUME Pc \in Creation \ {"cree1", "cree2"}
      PROVE  /\ Sommet.local \in Cases /\ Sommet.local \in Int
             /\ Sommet.local # 0 /\ Sommet.local # cpu
  BY <1>4, <1>5 DEF Structure, Types, Cases
<1>6. QED
  BY <1>1, <1>2, <1>3, <1>4, <1>5

\* The creation goes one step further, before processus_crees grows.
LEMMA CreeStructure ==
  ASSUME Structure, Types', Vivants',
         UNCHANGED <<processus_crees, actif, mie, mepc, ctx_mepc, cpu,
                     egare>>,
         Pc \in {"code"} \cup Creation, Pc' \in Creation,
         cpu = 0 <=> Lancement, actif = cpu,
         Front(pile'[cpu]) = <<Code>>,
         cpu # 0 => pile'[0] = pile[0],
         \A i \in Cases \ {0, cpu} :
           pile'[i] = pile[i] \/ pile'[i] = <<Code>>,
         CreationEnCours(Sommet)',
         Pc' \in Creation \ {"cree1", "cree2"} =>
           /\ Sommet'.local # cpu
           /\ cpu = 0 => Sommet'.local = processus_crees
  PROVE  Structure'
<1>1. Pc \in {"code"} \cup PcsCree /\ Pc' \in PcsCree
  BY DEF PcsCree
<1>2. Pc' = Sommet'.pc /\ Lancement' = Lancement
  BY DEF Pc, Lancement
<1>3. /\ cpu = 0 => CreationIdle(Sommet)'
      /\ cpu # 0 => CreationAutre(Sommet)'
  BY <1>1, <1>2 DEF CreationIdle, CreationAutre
<1>4. Courant' /\ Registres'
  BY <1>1, <1>3 DEF Structure, Courant, Registres, Pcs, PcsTrappe, PcsCree,
                    Creation, PcsOrdonnance
<1>5. Idle' /\ Suspendus'
  <2>1. CASE cpu # 0
    BY <2>1, ResteAutre DEF Structure
  <2>2. CASE cpu = 0
    <3>1. ~IdleTrappe' /\ Sol' = pile'[0]
      BY <1>1, <2>2 DEF Sol, IdleTrappe, PcsTrappe, PcsCree, Creation,
                        PcsOrdonnance
    <3>2. Sommet' = Last(pile'[0])
      BY <2>2 DEF Sommet
    <3>3. Idle'
      BY <1>3, <2>2, <3>1, <3>2 DEF Idle
    <3>4. Suspendus'
      BY <2>2 DEF Structure, Suspendus
    <3>5. QED
      BY <3>3, <3>4
  <2>3. QED
    BY <2>1, <2>2
<1>6. QED
  BY <1>4, <1>5 DEF Structure

\* cree_processus returns.
LEMMA FinCreeStructure ==
  ASSUME Structure, Depile, Pc \in PcsCree,
         UNCHANGED <<etat, processus_crees, indices, horloge, registres, cpu,
                     egare>>,
         reveil_prevu' \in [Cases -> Nat],
         Lancement => reveil_prevu' = reveil_prevu
  PROVE  Structure' /\ Pc' = "code"
<1>1. /\ Types /\ Front(pile[cpu]) = <<Code>> /\ actif = cpu
      /\ UNCHANGED <<etat, processus_crees, elu, next_elu,
                     actif, ancien, nb_interruptions, nb_secondes, mie, mpie,
                     mepc, ctx_mepc, cpu, egare>>
  BY CreationCourante DEF Structure, indices, horloge, registres
<1>2. /\ pile' \in [Cases -> Seq(Cadres) \ {<<>>}]
      /\ pile'[cpu] = <<Code>>
      /\ \A i \in Cases : i # cpu => pile'[i] = pile[i]
  BY <1>1, EffetDepile, PileCode
<1>3. Pc' = "code"
  BY <1>1, <1>2, PileCode DEF Pc, Sommet
<1>4. Types'
  BY <1>1, <1>2 DEF Types
<1>5. Vivants'
  BY <1>1 DEF Structure, Vivants, Lancement
<1>6. Courant' /\ Registres'
  BY <1>1, <1>2, <1>3 DEF Structure, Courant, Registres, Pcs, PcsTrappe,
                          PcsCree, Creation, PcsOrdonnance
<1>7. Idle' /\ Suspendus'
  <2>1. CASE cpu # 0
    <3>1. pile'[0] = pile[0] /\ (Lancement => Derriere)
      BY <1>1, <1>2, <2>1, SommetType, AutreCourant DEF Derriere
    <3>2. QED
      BY <1>1, <1>2, <2>1, <3>1, ResteAutre DEF Structure
  <2>2. CASE cpu = 0
    <3>1. ~IdleTrappe' /\ Sol' = <<Code>>
      BY <1>1, <1>2, <1>3, <2>2 DEF Sol, IdleTrappe, PcsTrappe,
                                    PcsOrdonnance
    <3>2. QED
      BY <1>1, <1>2, <2>2, <3>1 DEF Structure, Idle, Suspendus
  <2>3. QED
    BY <2>1, <2>2
<1>8. QED
  BY <1>1, <1>3, <1>4, <1>5, <1>6, <1>7 DEF Structure

LEMMA AppelCreeStructure ==
  Structure /\ AppelCree => Structure' /\ Pc' = "cree1"
<1> SUFFICES ASSUME Structure, AppelCree
             PROVE  Structure' /\ Pc' = "cree1"
  OBVIOUS
<1>1. /\ Types /\ Empile(Cadre("cree1", 0)) /\ Pc = "code"
      /\ cpu = 0 <=> Lancement
      /\ UNCHANGED <<etat, reveil_prevu, processus_crees, elu, next_elu,
                     actif, ancien, nb_interruptions, nb_secondes, mie, mpie,
                     mepc, ctx_mepc, cpu, egare>>
  BY DEF Structure, AppelCree, globales, indices, horloge, registres
<1>2. 0 \in Int \cup Lieux /\ "cree1" \in Pcs
  BY DEF Pcs, PcsCree, Creation
<1>3. /\ pile' \in [Cases -> Seq(Cadres) \ {<<>>}]
      /\ Pc' = "cree1"
      /\ Front(pile'[cpu]) = pile[cpu]
      /\ \A i \in Cases : i # cpu => pile'[i] = pile[i]
  BY <1>1, <1>2, EffetEmpile DEF Pc, Sommet
<1>4. pile[cpu] = <<Code>> /\ actif = cpu
  <2>1. CASE cpu # 0
    BY <1>1, <2>1 DEF Structure, Courant, Registres
  <2>2. CASE cpu = 0
    <3>1. Sol = pile[0]
      BY <1>1, <2>2 DEF Sol, IdleTrappe, PcsTrappe, PcsOrdonnance
    <3>2. ~CreationIdle(Last(Sol))
      BY <1>1, <2>2, <3>1
         DEF CreationIdle, PcsCree, Creation, Pc, Sommet
    <3>3. QED
      BY <1>1, <2>2, <3>1, <3>2 DEF Structure, Idle, Registres
  <2>3. QED
    BY <2>1, <2>2
<1>5. Types'
  BY <1>1, <1>3 DEF Types
<1>6. Vivants'
  BY <1>1 DEF Structure, Vivants, Lancement
<1>7. CreationEnCours(Sommet)'
  BY <1>3 DEF CreationEnCours, Pc
<1>8. pile'[0] = pile[0] \/ cpu = 0
  BY <1>1, <1>3, SommetType
<1>9. QED
  BY <1>1, <1>3, <1>4, <1>5, <1>6, <1>7, <1>8, CreeStructure DEF Creation

LEMMA TesteStructure ==
  Structure /\ Teste => Structure' /\ Pc' \in {"code", "cree2"}
<1> SUFFICES ASSUME Structure, Teste
             PROVE  Structure' /\ Pc' \in {"code", "cree2"}
  OBVIOUS
<1>1. /\ Types /\ Pc = "cree1"
      /\ UNCHANGED <<etat, reveil_prevu, processus_crees, elu, next_elu,
                     actif, ancien, nb_interruptions, nb_secondes, mie, mpie,
                     mepc, ctx_mepc, cpu, egare>>
  BY DEF Structure, Teste, globales, indices, horloge, registres
<1>2. CASE TablePleine(processus_crees)
  <2>1. Depile /\ Pc \in PcsCree
    BY <1>1, <1>2 DEF Teste, PcsCree, Creation
  <2>2. reveil_prevu' \in [Cases -> Nat]
    BY <1>1 DEF Types
  <2>3. QED
    BY <1>1, <2>1, <2>2, FinCreeStructure DEF indices, horloge, registres
<1>3. CASE ~TablePleine(processus_crees)
  <2>1. VaAvec("cree2", Sommet.local) /\ processus_crees < NB_PROCESSUS_MAX
    BY <1>1, <1>3 DEF Teste, Va, TablePleine, Types
  <2>2. /\ pile' \in [Cases -> Seq(Cadres) \ {<<>>}]
        /\ Pc' = "cree2"
        /\ Front(pile'[cpu]) = Front(pile[cpu])
        /\ \A i \in Cases : i # cpu => pile'[i] = pile[i]
    BY <1>1, <2>1, SommetType, EffetVaPc DEF Pcs, PcsCree, Creation
  <2>3. /\ Front(pile[cpu]) = <<Code>> /\ actif = cpu
        /\ cpu = 0 <=> Lancement
    BY <1>1, CreationCourante DEF PcsCree, Creation
  <2>4. Types'
    BY <1>1, <2>2 DEF Types
  <2>5. Vivants'
    BY <1>1 DEF Structure, Vivants, Lancement
  <2>6. CreationEnCours(Sommet)'
    BY <1>1, <2>1, <2>2 DEF CreationEnCours, Pc
  <2>7. pile'[0] = pile[0] \/ cpu = 0
    BY <1>1, <2>2, SommetType
  <2>8. QED
    BY <1>1, <2>2, <2>3, <2>4, <2>5, <2>6, <2>7, CreeStructure DEF Creation
<1>4. QED
  BY <1>2, <1>3

\* The process that creates is alive: the slot it finds is another one.
LEMMA TrouveStructure ==
  ASSUME Structure, Trouve, etat[cpu] # "MORT"
  PROVE  /\ Structure' /\ Pc' = "cree3"
         /\ EstCaseLibre(etat, processus_crees, Sommet'.local)
<1>1. PICK c \in Cases : /\ EstCaseLibre(etat, processus_crees, c)
                         /\ VaAvec("cree3", c)
  BY DEF Trouve
<1>2. /\ Types /\ Pc = "cree2"
      /\ UNCHANGED <<etat, reveil_prevu, processus_crees, elu, next_elu,
                     actif, ancien, nb_interruptions, nb_secondes, mie, mpie,
                     mepc, ctx_mepc, cpu, egare>>
  BY DEF Structure, Trouve, globales, indices, horloge, registres
<1>3. c \in Int
  BY DEF Cases
<1>4. /\ pile' \in [Cases -> Seq(Cadres) \ {<<>>}]
      /\ Pc' = "cree3" /\ Sommet'.local = c
      /\ Front(pile'[cpu]) = Front(pile[cpu])
      /\ \A i \in Cases : i # cpu => pile'[i] = pile[i]
  BY <1>1, <1>2, <1>3, EffetVaPc DEF Pcs, PcsCree, Creation
<1>5. /\ Front(pile[cpu]) = <<Code>> /\ actif = cpu
      /\ cpu = 0 <=> Lancement
      /\ processus_crees < NB_PROCESSUS_MAX
  BY <1>2, CreationCourante DEF CreationEnCours, PcsCree, Creation, Pc
<1>6. c \in 1 .. processus_crees /\ c # cpu
  BY <1>1, <1>2, <1>3 DEF EstCaseLibre, Types, Crees
<1>7. cpu = 0 => c = processus_crees
  BY <1>1, <1>2, <1>5
     DEF EstCaseLibre, Structure, Vivants, Types, Crees
<1>8. Types'
  BY <1>2, <1>4 DEF Types
<1>9. Vivants'
  BY <1>2 DEF Structure, Vivants, Lancement
<1>10. CreationEnCours(Sommet)'
  BY <1>2, <1>4, <1>5, <1>6 DEF CreationEnCours, Pc
<1>11. pile'[0] = pile[0] \/ cpu = 0
  BY <1>2, <1>4, SommetType
<1>12. Structure'
  BY <1>2, <1>4, <1>5, <1>6, <1>7, <1>8, <1>9, <1>10, <1>11, CreeStructure
     DEF Creation
<1>13. QED
  BY <1>1, <1>4, <1>12

LEMMA PrepareStructure ==
  Structure /\ Prepare =>
    Structure' /\ Pc' = "cree4" /\ Sommet'.local = Sommet.local
<1> SUFFICES ASSUME Structure, Prepare
             PROVE  Structure' /\ Pc' = "cree4" /\ Sommet'.local = Sommet.local
  OBVIOUS
<1>1. /\ Types /\ Pc = "cree3" /\ VaAvec("cree4", Sommet.local)
      /\ etat' = [etat EXCEPT ![Sommet.local] = "ACTIVABLE"]
      /\ UNCHANGED <<reveil_prevu, processus_crees, elu, next_elu,
                     actif, ancien, nb_interruptions, nb_secondes, mie, mpie,
                     mepc, ctx_mepc, cpu, egare>>
  BY DEF Structure, Prepare, Va, indices, horloge, registres
<1>2. /\ pile' \in [Cases -> Seq(Cadres) \ {<<>>}]
      /\ Pc' = "cree4" /\ Sommet'.local = Sommet.local
      /\ Front(pile'[cpu]) = Front(pile[cpu])
      /\ \A i \in Cases : i # cpu => pile'[i] = pile[i]
  BY <1>1, SommetType, EffetVaPc DEF Pcs, PcsCree, Creation
<1>3. /\ Front(pile[cpu]) = <<Code>> /\ actif = cpu
      /\ cpu = 0 <=> Lancement
      /\ Sommet.local \in Cases /\ Sommet.local # cpu
      /\ cpu = 0 => Sommet.local = processus_crees
      /\ processus_crees < NB_PROCESSUS_MAX
      /\ Sommet.local \in 1 .. processus_crees
  BY <1>1, CreationCourante DEF CreationEnCours, PcsCree, Creation, Pc
<1>4. /\ etat' \in [Cases -> Etats] /\ etat'[Sommet.local] = "ACTIVABLE"
      /\ \A i \in Cases : etat'[i] = "MORT" => etat[i] = "MORT"
  BY <1>1, <1>3 DEF Types, Etats
<1>5. Types'
  BY <1>1, <1>2, <1>4 DEF Types
<1>6. Vivants'
  BY <1>1, <1>4 DEF Structure, Vivants, Lancement, Types, Crees, Cases
<1>7. CreationEnCours(Sommet)'
  BY <1>1, <1>2, <1>3, <1>4 DEF CreationEnCours, Pc
<1>8. pile'[0] = pile[0] \/ cpu = 0
  BY <1>1, <1>2, SommetType
<1>9. QED
  BY <1>1, <1>2, <1>3, <1>5, <1>6, <1>7, <1>8, CreeStructure DEF Creation

LEMMA ContexteStructure ==
  Structure /\ Contexte =>
    Structure' /\ Pc' = "cree5" /\ Sommet'.local = Sommet.local
<1> SUFFICES ASSUME Structure, Contexte
             PROVE  Structure' /\ Pc' = "cree5" /\ Sommet'.local = Sommet.local
  OBVIOUS
<1> DEFINE c == Sommet.local
           f == Cadre("cree5", c)
           s == Front(pile[cpu])
<1>1. /\ Types /\ Pc = "cree4"
      /\ UNCHANGED <<etat, reveil_prevu, processus_crees, elu, next_elu,
                     actif, ancien, nb_interruptions, nb_secondes, mie, mpie,
                     mepc, ctx_mepc, cpu, egare>>
  BY DEF Structure, Contexte, globales, indices, horloge, registres
<1>2. /\ s = <<Code>> /\ actif = cpu
      /\ cpu = 0 <=> Lancement
      /\ c \in Cases /\ c \in Int /\ c # cpu /\ c # 0
      /\ cpu = 0 => c = processus_crees
      /\ processus_crees < NB_PROCESSUS_MAX
      /\ c \in 1 .. processus_crees
      /\ etat[c] = "ACTIVABLE"
  BY <1>1, CreationCourante DEF CreationEnCours, PcsCree, Creation, Pc
<1>3. f \in Cadres /\ f.pc = "cree5" /\ f.local = c /\ s \in Seq(Cadres)
      /\ <<Code>> \in Seq(Cadres) \ {<<>>} /\ cpu \in Cases /\ 0 \in Cases
  BY <1>1, <1>2, CadreType, SommetType, PileCode DEF Pcs, PcsCree, Creation
<1>4. pile' = [pile EXCEPT ![c] = <<Code>>, ![cpu] = Append(Front(@), f)]
  BY DEF Contexte, Code
<1> HIDE DEF c, f
<1>5. /\ Append(s, f) \in Seq(Cadres) \ {<<>>}
      /\ Last(Append(s, f)) = f /\ Front(Append(s, f)) = s
  <2> HIDE DEF s
  <2>1. QED
    BY <1>3, Empilee
<1>6. pile \in [Cases -> Seq(Cadres) \ {<<>>}]
  BY <1>1 DEF Types
<1>7. /\ pile'[c] = <<Code>> /\ pile'[cpu] = Append(s, f)
      /\ \A i \in Cases : i # cpu /\ i # c => pile'[i] = pile[i]
  BY <1>2, <1>3, <1>4, <1>6
<1>8. pile' \in [Cases -> Seq(Cadres) \ {<<>>}]
  BY <1>2, <1>3, <1>4, <1>5, <1>6
<1>9. /\ Pc' = "cree5" /\ Sommet'.local = c
      /\ Front(pile'[cpu]) = <<Code>>
  BY <1>1, <1>2, <1>3, <1>5, <1>7 DEF Pc, Sommet
<1>10. Types'
  BY <1>1, <1>8 DEF Types
<1>11. Vivants'
  BY <1>1 DEF Structure, Vivants, Lancement
<1>12. CreationEnCours(Sommet)'
  BY <1>1, <1>2, <1>7, <1>9 DEF CreationEnCours, Pc, Code, Cadre
<1>13. pile'[0] = pile[0] \/ cpu = 0
  BY <1>2, <1>3, <1>7
<1>14. QED
  BY <1>1, <1>2, <1>7, <1>9, <1>10, <1>11, <1>12, <1>13, CreeStructure
     DEF Creation, c

\* A new slot goes on to the count; a reused one is complete, and only the
\* programs reuse slots.
LEMMA DateStructure ==
  Structure /\ Date =>
    /\ Structure'
    /\ Pc' = IF Sommet.local = processus_crees THEN "cree6" ELSE "code"
    /\ Pc' = "cree6" => Sommet'.local = processus_crees
    /\ Pc' = "code" => cpu # 0
<1> SUFFICES ASSUME Structure, Date
             PROVE  /\ Structure'
                    /\ Pc' = IF Sommet.local = processus_crees
                             THEN "cree6" ELSE "code"
                    /\ Pc' = "cree6" => Sommet'.local = processus_crees
                    /\ Pc' = "code" => cpu # 0
  OBVIOUS
<1> DEFINE c == Sommet.local
<1>1. /\ Types /\ Pc = "cree5"
      /\ reveil_prevu' = [reveil_prevu EXCEPT ![c] = 0]
      /\ UNCHANGED <<etat, processus_crees, elu, next_elu,
                     actif, ancien, nb_interruptions, nb_secondes, mie, mpie,
                     mepc, ctx_mepc, cpu, egare>>
  BY DEF Structure, Date, indices, horloge, registres
<1>2. /\ Front(pile[cpu]) = <<Code>> /\ actif = cpu
      /\ cpu = 0 <=> Lancement
      /\ c \in Cases /\ c \in Int /\ c # cpu /\ c # 0
      /\ cpu = 0 => c = processus_crees
      /\ processus_crees < NB_PROCESSUS_MAX
      /\ c \in 1 .. processus_crees
      /\ etat[c] = "ACTIVABLE" /\ pile[c] = <<Code>>
  BY <1>1, CreationCourante DEF CreationEnCours, PcsCree, Creation, Pc
<1>3. reveil_prevu' \in [Cases -> Nat] /\ reveil_prevu'[c] = 0
  BY <1>1, <1>2 DEF Types
<1>4. CASE c # processus_crees
  <2>1. Depile /\ Pc \in PcsCree /\ ~Lancement /\ cpu # 0
    BY <1>1, <1>2, <1>4 DEF Date, PcsCree, Creation
  <2>2. Structure' /\ Pc' = "code"
    BY <1>1, <1>3, <2>1, FinCreeStructure DEF indices, horloge, registres
  <2>3. QED
    BY <1>4, <2>1, <2>2
<1>5. CASE c = processus_crees
  <2>1. VaAvec("cree6", c)
    BY <1>1, <1>5 DEF Date, Va
  <2>2. /\ pile' \in [Cases -> Seq(Cadres) \ {<<>>}]
        /\ Pc' = "cree6" /\ Sommet'.local = c
        /\ Front(pile'[cpu]) = Front(pile[cpu])
        /\ \A i \in Cases : i # cpu => pile'[i] = pile[i]
    BY <1>1, <2>1, SommetType, EffetVaPc DEF Pcs, PcsCree, Creation
  <2>3. Types'
    BY <1>1, <1>3, <2>2 DEF Types
  <2>4. Vivants'
    BY <1>1 DEF Structure, Vivants, Lancement
  <2>5. CreationEnCours(Sommet)'
    <3>1. pile'[c] = <<Code>>
      BY <1>2, <2>2
    <3>2. QED
      BY <1>1, <1>2, <1>3, <1>5, <2>2, <3>1 DEF CreationEnCours, Pc
  <2>6. pile'[0] = pile[0] \/ cpu = 0
    BY <1>1, <2>2, SommetType
  <2>7. Structure'
    BY <1>1, <1>2, <1>5, <2>2, <2>3, <2>4, <2>5, <2>6, CreeStructure
       DEF Creation
  <2>8. QED
    BY <1>5, <2>2, <2>7
<1>6. QED
  BY <1>4, <1>5

LEMMA LitCompteStructure ==
  Structure /\ LitCompte =>
    Structure' /\ Pc' = "cree7" /\ Sommet'.local = Sommet.local
<1> SUFFICES ASSUME Structure, LitCompte
             PROVE  Structure' /\ Pc' = "cree7" /\ Sommet'.local = Sommet.local
  OBVIOUS
<1> DEFINE n == processus_crees
<1>1. /\ Types /\ Pc = "cree6" /\ VaAvec("cree7", n)
      /\ UNCHANGED <<etat, reveil_prevu, processus_crees, elu, next_elu,
                     actif, ancien, nb_interruptions, nb_secondes, mie, mpie,
                     mepc, ctx_mepc, cpu, egare>>
  BY DEF Structure, LitCompte, globales, indices, horloge, registres
<1>2. /\ Front(pile[cpu]) = <<Code>> /\ actif = cpu
      /\ cpu = 0 <=> Lancement
      /\ n \in Cases /\ n \in Int /\ n # cpu
      /\ Sommet.local = n /\ n \in 1 .. n
      /\ n < NB_PROCESSUS_MAX
      /\ etat[n] = "ACTIVABLE" /\ pile[n] = <<Code>> /\ reveil_prevu[n] = 0
  BY <1>1, CreationCourante DEF CreationEnCours, PcsCree, Creation, Pc
<1>3. /\ pile' \in [Cases -> Seq(Cadres) \ {<<>>}]
      /\ Pc' = "cree7" /\ Sommet'.local = n
      /\ Front(pile'[cpu]) = Front(pile[cpu])
      /\ \A i \in Cases : i # cpu => pile'[i] = pile[i]
  BY <1>1, <1>2, EffetVaPc DEF Pcs, PcsCree, Creation
<1>4. Types'
  BY <1>1, <1>3 DEF Types
<1>5. Vivants'
  BY <1>1 DEF Structure, Vivants, Lancement
<1>6. CreationEnCours(Sommet)'
  <2>1. pile'[n] = <<Code>>
    BY <1>2, <1>3
  <2>2. QED
    BY <1>1, <1>2, <1>3, <2>1 DEF CreationEnCours, Pc
<1>7. pile'[0] = pile[0] \/ cpu = 0
  BY <1>1, <1>3, SommetType
<1>8. Structure'
  BY <1>1, <1>2, <1>3, <1>4, <1>5, <1>6, <1>7, CreeStructure DEF Creation
<1>9. QED
  BY <1>2, <1>3, <1>8

\* The slot that the count takes in is complete.
LEMMA EcritCompteStructure ==
  Structure /\ EcritCompte =>
    /\ Structure' /\ Pc' = "cree8"
    /\ processus_crees \in Cases /\ processus_crees' = processus_crees + 1
    /\ Sommet.local = processus_crees
    /\ etat[processus_crees] = "ACTIVABLE"
    /\ reveil_prevu[processus_crees] = 0
    /\ pile[processus_crees] = <<Code>>
<1> DEFINE n == processus_crees
<1> SUFFICES ASSUME Structure, EcritCompte
             PROVE  /\ Structure' /\ Pc' = "cree8"
                    /\ n \in Cases /\ processus_crees' = n + 1
                    /\ Sommet.local = n
                    /\ etat[n] = "ACTIVABLE" /\ reveil_prevu[n] = 0
                    /\ pile[n] = <<Code>>
  OBVIOUS
<1>1. /\ Types /\ Pc = "cree7" /\ VaAvec("cree8", Sommet.local)
      /\ processus_crees' = Sommet.local + 1
      /\ UNCHANGED <<etat, reveil_prevu, elu, next_elu,
                     actif, ancien, nb_interruptions, nb_secondes, mie, mpie,
                     mepc, ctx_mepc, cpu, egare>>
  BY DEF Structure, EcritCompte, Va, indices, horloge, registres
<1>2. /\ Front(pile[cpu]) = <<Code>> /\ actif = cpu
      /\ cpu = 0 <=> Lancement
      /\ n \in Cases /\ n \in Int /\ n # cpu /\ n # 0
      /\ Sommet.local = n
      /\ n < NB_PROCESSUS_MAX
      /\ etat[n] = "ACTIVABLE" /\ pile[n] = <<Code>> /\ reveil_prevu[n] = 0
  BY <1>1, CreationCourante DEF CreationEnCours, PcsCree, Creation, Pc
<1>3. /\ pile' \in [Cases -> Seq(Cadres) \ {<<>>}]
      /\ Pc' = "cree8"
      /\ Front(pile'[cpu]) = Front(pile[cpu])
      /\ \A i \in Cases : i # cpu => pile'[i] = pile[i]
  BY <1>1, <1>2, EffetVaPc DEF Pcs, PcsCree, Creation
<1>4. Types'
  <2>1. n + 1 \in 1 .. NB_PROCESSUS_MAX /\ processus_crees' = n + 1
    BY <1>1, <1>2 DEF Types
  <2>2. \A i \in Crees(n) : i \in Crees(n + 1)
    BY <1>2 DEF Crees
  <2>3. QED
    BY <1>1, <1>3, <2>1, <2>2 DEF Types
<1>5. Vivants'
  <2>1. \A i \in Crees(n + 1) : i \in Crees(n) \/ i = n
    BY <1>2 DEF Crees
  <2>2. Lancement' => Lancement
    BY <1>1, <1>2 DEF Lancement
  <2>3. QED
    BY <1>1, <1>2, <2>1, <2>2 DEF Structure, Vivants
<1>6. Courant' /\ Registres'
  BY <1>1, <1>2, <1>3 DEF Structure, Courant, Registres, Pcs, PcsTrappe,
       PcsCree, Creation, PcsOrdonnance, CreationAutre, CreationEnCours, Pc
<1>7. Suspendus'
  <2>1. \A i \in Cases : i >= n + 1 => i >= n
    BY <1>2 DEF Cases
  <2>2. ASSUME NEW i \in Cases \ {0, cpu}
        PROVE  \/ pile'[i] = <<Code>>
               \/ Front(pile'[i]) = <<Code>> /\ Last(pile'[i]).pc = "retour"
               \/ i >= n + 1 /\ pile'[i] = <<Nul>>
    <3>1. CASE i = n
      BY <1>2, <1>3, <3>1
    <3>2. CASE i # n
      <4>1. i >= n => i >= n + 1
        BY <1>2, <3>2 DEF Cases
      <4>2. QED
        BY <1>3, <4>1 DEF Structure, Suspendus
    <3>3. QED
      BY <3>1, <3>2
  <2>3. QED
    BY <1>1, <1>2, <2>2 DEF Suspendus
<1>8. Idle'
  <2>1. CASE cpu # 0
    <3>1. Sol' = Sol /\ MepcIdle' = MepcIdle /\ IdleTrappe /\ IdleTrappe'
            /\ pile'[0] = pile[0]
      BY <1>1, <1>3, <2>1, SommetType DEF Sol, MepcIdle, IdleTrappe
    <3>2. ~Lancement /\ ~Lancement'
      BY <1>1, <1>2, <2>1 DEF Lancement
    <3>3. CreationIdle(Last(Sol)) => CreationIdle(Last(Sol))'
      BY <3>1, <3>2
         DEF CreationIdle, CreationEnCours, PcsCree, Creation
    <3>4. QED
      BY <1>1, <2>1, <3>1, <3>3 DEF Structure, Idle
  <2>2. CASE cpu = 0
    <3>1. Sol' = pile'[0] /\ ~IdleTrappe'
      BY <1>1, <1>3, <2>2 DEF Sol, IdleTrappe, PcsTrappe, PcsOrdonnance
    <3>2. Last(pile'[0]).pc = "cree8" /\ Front(pile'[0]) = <<Code>>
      BY <1>1, <1>2, <1>3, <2>2 DEF Pc, Sommet
    <3>3. CreationIdle(Last(Sol))'
      BY <3>1, <3>2 DEF CreationIdle, CreationEnCours, PcsCree, Creation
    <3>4. QED
      BY <1>1, <2>2, <3>1, <3>2, <3>3 DEF Idle
  <2>3. QED
    BY <2>1, <2>2
<1>9. QED
  BY <1>1, <1>2, <1>3, <1>4, <1>5, <1>6, <1>7, <1>8 DEF Structure

LEMMA RetourCreeStructure ==
  Structure /\ RetourCree => Structure' /\ Pc' = "code"
<1> SUFFICES ASSUME Structure, RetourCree
             PROVE  Structure' /\ Pc' = "code"
  OBVIOUS
<1>1. /\ Depile /\ Pc \in PcsCree
      /\ UNCHANGED <<etat, processus_crees, indices, horloge, registres, cpu,
                     egare>>
      /\ reveil_prevu' = reveil_prevu
  BY DEF RetourCree, globales, PcsCree
<1>2. reveil_prevu' \in [Cases -> Nat]
  BY <1>1 DEF Structure, Types
<1>3. QED
  BY <1>1, <1>2, FinCreeStructure

\* The enable_it of idle finds the interrupts open.
LEMMA EnableItNeutre ==
  ASSUME Structure, EnableIt, ~Preemptif
  PROVE  UNCHANGED reel
  BY DEF Structure, Courant, EnableIt, reel, registres, Types

LEMMA StructureNeutre ==
  Structure /\ UNCHANGED reel =>
    Structure' /\ Pc' = Pc /\ Sommet' = Sommet /\ Cliche' = Cliche
<1> SUFFICES ASSUME Structure, UNCHANGED reel
             PROVE  /\ Structure' /\ Pc' = Pc /\ Sommet' = Sommet
                    /\ Cliche' = Cliche
  OBVIOUS
<1>1. UNCHANGED <<etat, reveil_prevu, processus_crees, elu, next_elu,
                  actif, ancien, nb_interruptions, nb_secondes, mie, mpie,
                  mepc, ctx_mepc, pile, cpu, egare>>
  BY DEF reel, globales, indices, horloge, registres
<1>2. Pc' = Pc /\ Sommet' = Sommet /\ Cliche' = Cliche
  BY <1>1 DEF Pc, Sommet, Cliche, DansTraitant
<1>3. Types' /\ Courant' /\ Registres'
  BY <1>1, <1>2 DEF Structure, Types, Courant, Registres, CreationAutre,
                    CreationEnCours, Lancement
<1>4. Suspendus' /\ Vivants'
  BY <1>1 DEF Structure, Suspendus, Vivants, Lancement
<1>5. Idle'
  BY <1>1, <1>2 DEF Structure, Idle, Sol, IdleTrappe, MepcIdle,
                    CreationIdle, CreationEnCours, Lancement
<1>6. QED
  BY <1>1, <1>2, <1>3, <1>4, <1>5 DEF Structure

-----------------------------------------------------------------------------
(* The initial state.                                                      *)

LEMMA InitStructure == Init => Structure
<1> SUFFICES ASSUME Init
             PROVE  Structure
  OBVIOUS
<1>1. 0 \in Cases /\ cpu = 0 /\ processus_crees = 1 /\ 0 \in Crees(1)
  BY DEF Init, Cases, Crees
<1>2. /\ pile[0] = <<Code>>
      /\ \A i \in Cases \ {0} : pile[i] = <<Nul>> /\ i >= processus_crees
  BY <1>1 DEF Init, Code, Nul, Cases
<1>3. /\ <<Code>> \in Seq(Cadres) /\ <<Nul>> \in Seq(Cadres)
      /\ <<Code>> # <<>> /\ <<Nul>> # <<>>
  BY CadreType DEF Code, Nul, Pcs
<1>4. pile \in [Cases -> Seq(Cadres) \ {<<>>}]
  <2>1. ASSUME NEW i \in Cases
        PROVE  pile[i] \in Seq(Cadres) \ {<<>>}
    BY <1>2, <1>3
  <2>2. DOMAIN pile = Cases /\ pile = [i \in Cases |-> pile[i]]
    BY DEF Init
  <2>3. QED
    BY <2>1, <2>2
<1>5. Nulle \in Lieux
  BY DEF Nulle, Lieux, Pcs
<1>6. Types
  BY <1>1, <1>4, <1>5 DEF Init, Types, Etats, Cases
<1>7. Pc = "code"
  BY <1>1, <1>2, PileCode DEF Pc, Sommet
<1>8. Courant /\ Registres
  BY <1>1, <1>7 DEF Init, Courant, Registres, Pcs, PcsTrappe, PcsCree,
                    Creation
<1>9. Idle
  BY <1>1, <1>2, <1>7 DEF Idle, Sol, IdleTrappe, PcsOrdonnance, PcsTrappe
<1>10. Suspendus /\ Vivants
  <2>1. \A i \in Crees(processus_crees) : i \in Cases
    BY <1>6 DEF Types, Crees, Cases
  <2>2. QED
    BY <1>2, <2>1 DEF Suspendus, Vivants, Init
<1>11. QED
  BY <1>6, <1>8, <1>9, <1>10 DEF Structure, Init

-----------------------------------------------------------------------------
(* What is observed of a state.                                            *)

\* Only idle is ever in the trap handler, and it stays there as long as
\* another process runs.
Reprise ==
  [i \in Cases |-> IF i = 0 /\ (IdleTrappe \/ Pc = "traitant2")
                   THEN "traitant" ELSE "code"]

\* A stack with a frame of trap_handler, on top or below.
Piege(s) == \E k \in DOMAIN s : s[k].pc = "traitant2"

LEMMA PiegeDepile ==
  ASSUME NEW s \in Seq(Cadres), s # <<>>
  PROVE  Piege(s) <=> Piege(Front(s)) \/ Last(s).pc = "traitant2"
<1> DEFINE t == Front(s)
<1>1. /\ t \in Seq(Cadres) /\ Len(t) = Len(s) - 1
      /\ \A k \in 1 .. Len(s) - 1 : t[k] = s[k]
  BY Depilee
<1>2. /\ DOMAIN s = 1 .. Len(s) /\ Len(s) \in Nat \ {0}
      /\ Last(s) = s[Len(s)]
  BY EmptySeq DEF Last
<1>3. DOMAIN t = 1 .. Len(s) - 1
  BY <1>1
<1> HIDE DEF t
<1>4. Piege(s) <=> Piege(t) \/ Last(s).pc = "traitant2"
  BY <1>1, <1>2, <1>3 DEF Piege
<1>5. QED
  BY <1>4 DEF t

LEMMA PiegeRien ==
  /\ ~Piege(<<>>)
  /\ ~Piege(<<Code>>)
  /\ ~Piege(<<Nul>>)
<1>1. ~Piege(<<>>)
  BY DEF Piege
<1>2. <<Nul>> \in Seq(Cadres) /\ Front(<<Nul>>) = <<>> /\ <<Nul>> # <<>>
  BY CadreType DEF Nul, Pcs, Front
<1>3. QED
  BY <1>1, <1>2, PileCode, PiegeDepile

\* Cliche, field by field.
ClicheJuste ==
  Cliche = [etat |-> Vus, reveil_prevu |-> Dates,
            processus_crees |-> processus_crees, elu |-> elu,
            actif |-> actif, mie |-> mie,
            nb_interruptions |-> nb_interruptions,
            nb_secondes |-> nb_secondes, reprise |-> Reprise]

LEMMA ClicheVaut == Structure => ClicheJuste
<1> SUFFICES ASSUME Structure
             PROVE  ClicheJuste
  OBVIOUS
<1>1. /\ Types
      /\ \A i \in Cases : /\ Front(pile[i]) \in Seq(Cadres)
                          /\ pile[i] \in Seq(Cadres) /\ pile[i] # <<>>
      /\ cpu \in Cases /\ 0 \in Cases
  BY SommetType DEF Structure
<1>2. ASSUME NEW i \in Cases \ {0}
      PROVE  ~Piege(pile[i])
  <2>1. CASE i = cpu
    <3>1. Pc # "traitant2" /\ cpu # 0
      BY <1>1, <1>2, <2>1 DEF Structure, Courant, PcsTrappe
    <3>2. pile[cpu] = <<Code>> \/ Front(pile[cpu]) = <<Code>>
      BY <3>1 DEF Structure, Courant
    <3>3. Piege(pile[cpu]) => Piege(Front(pile[cpu])) \/ Pc = "traitant2"
      BY <1>1, PiegeDepile DEF Pc, Sommet
    <3>4. QED
      BY <2>1, <3>1, <3>2, <3>3, PiegeRien
  <2>2. CASE i # cpu
    <3>1. \/ pile[i] = <<Code>> \/ pile[i] = <<Nul>>
          \/ Front(pile[i]) = <<Code>> /\ Last(pile[i]).pc = "retour"
      BY <2>2 DEF Structure, Suspendus
    <3>2. Piege(pile[i]) =>
            Piege(Front(pile[i])) \/ Last(pile[i]).pc = "traitant2"
      BY <1>1, PiegeDepile
    <3>3. QED
      BY <3>1, <3>2, PiegeRien
  <2>3. QED
    BY <2>1, <2>2
<1>3. ~Piege(Sol)
  <2>1. \/ Sol = <<Code>>
        \/ Front(Sol) = <<Code>> /\ Last(Sol).pc \in PcsCree
    BY DEF Structure, Idle, CreationIdle
  <2>2. Sol \in Seq(Cadres) /\ Sol # <<>>
    BY SolType DEF Structure
  <2>3. QED
    BY <2>1, <2>2, PiegeDepile, PiegeRien DEF PcsCree, Creation
<1>4. Piege(pile[0]) <=> IdleTrappe \/ Pc = "traitant2"
  <2>1. CASE IdleTrappe
    <3>1. Front(pile[0]) # <<>> /\ Last(Front(pile[0])).pc = "traitant2"
      BY <2>1 DEF Structure, Idle, Cadre
    <3>2. QED
      BY <1>1, <2>1, <3>1, PiegeDepile
  <2>2. CASE ~IdleTrappe
    <3>1. cpu = 0 /\ Pc = Last(pile[0]).pc
      BY <2>2 DEF IdleTrappe, Pc, Sommet
    <3>2. CASE Pc \in PcsTrappe
      <4>1. Sol = Front(pile[0])
        BY <2>2, <3>2 DEF Sol
      <4>2. QED
        BY <1>1, <1>3, <2>2, <3>1, <4>1, PiegeDepile
    <3>3. CASE Pc \notin PcsTrappe
      <4>1. Sol = pile[0]
        BY <2>2, <3>3 DEF Sol
      <4>2. QED
        BY <1>3, <2>2, <3>3, <4>1 DEF PcsTrappe
    <3>4. QED
      BY <3>2, <3>3
  <2>3. QED
    BY <2>1, <2>2
<1>5. ASSUME NEW i \in Cases
      PROVE  DansTraitant(i) <=> i = 0 /\ (IdleTrappe \/ Pc = "traitant2")
  BY <1>2, <1>4 DEF DansTraitant, Piege
<1>6. QED
  BY <1>5 DEF ClicheJuste, Cliche, Reprise, Vus, Dates

LEMMA ClicheSuit == Structure' => ClicheJuste'
  BY ClicheVaut, PTL

\* What the theorems on whole calls say of the last observable state.
LEMMA FigeSain ==
  ASSUME P!IInv
  PROVE  /\ fige.etat \in [Cases -> Etats]
         /\ fige.reveil_prevu \in [Cases -> Nat]
         /\ fige.processus_crees \in 1 .. NB_PROCESSUS_MAX
         /\ fige.elu \in Crees(fige.processus_crees)
         /\ fige.actif = fige.elu /\ fige.etat[fige.elu] = "ELU"
         /\ fige.nb_interruptions \in Nat /\ fige.nb_secondes \in Nat
         /\ fige.reprise \in [Cases -> {"code", "traitant"}]
         /\ fige.mie <=> (fige.actif = 0 /\ fige.reprise[0] = "code")
         /\ \A i \in Cases \ {0} : fige.reprise[i] = "code"
         /\ fige.actif # 0 => fige.reprise[0] = "traitant"
  BY DEF P!IInv, P!TypeOK, P!UnSeulElu, P!Masque, P!SectionMasquee,
         P!IdleSuspendu, P!Cases, P!Crees, P!Etats, P!Reprises, Cases,
         Crees, Etats

-----------------------------------------------------------------------------
(* Every step is a whole kernel call, seen from fige, or is not seen.      *)

\* What Next does to the history variable.
Evolue == fige' = IF Observable' /\ ~egare' THEN Cliche' ELSE fige

Suivi == Structure' /\ Progres' /\ [P!Next]_(P!vars)

LEMMA FigeMuet == fige' = fige => [P!Next]_(P!vars)
  BY DEF P!vars

\* Nothing of a call has been done yet.
LEMMA ReposSuit ==
  ASSUME Repos', fige' = Cliche',
         cpu' # 0 /\ Pc' = "cree3" =>
           EstCaseLibre(Vus', processus_crees', Sommet'.local)
  PROVE  Progres'
<1>1. /\ Pc' # "traitant1" /\ Pc' # "mret" /\ Pc' # "dors2"
      /\ Pc' \notin PcsOrdonnance
      /\ cpu' # 0 => Pc' \notin {"cree4", "cree5", "cree6", "cree7"}
  BY DEF Repos, Creation, PcsOrdonnance
<1>2. fige'.processus_crees = processus_crees' /\ fige'.etat = Vus'
  BY DEF Cliche, Vus
<1>3. QED
  BY <1>1, <1>2 DEF Progres, Creation

\* A step that changes nothing of what is observed.
LEMMA ReposReste ==
  ASSUME Structure, Structure', Progres, Repos, Repos', Evolue,
         UNCHANGED <<processus_crees, elu, actif, mie, nb_interruptions,
                     nb_secondes, cpu>>,
         Vus' = Vus, Dates' = Dates,
         cpu # 0 \/ (Pc # "traitant2" /\ Pc' # "traitant2"),
         cpu' # 0 /\ Pc' = "cree3" =>
           EstCaseLibre(Vus', processus_crees', Sommet'.local)
  PROVE  Suivi
<1>1. fige = Cliche
  BY DEF Progres
<1>2. Reprise' = Reprise
  BY DEF Reprise, IdleTrappe, Repos, PcsOrdonnance, Creation
<1>3. Cliche' = Cliche
  BY <1>2, ClicheVaut, ClicheSuit DEF ClicheJuste
<1>4. fige' = fige /\ fige' = Cliche'
  BY <1>1, <1>3 DEF Evolue
<1>5. QED
  BY <1>4, ReposSuit, FigeMuet DEF Suivi

\* The slots behind processus_crees are not seen.
LEMMA VusReste ==
  ASSUME UNCHANGED <<etat, reveil_prevu, processus_crees>>
  PROVE  Vus' = Vus /\ Dates' = Dates
  BY DEF Vus, Dates

LEMMA AppelDorsSuivi ==
  ASSUME NEW n \in Durees
  PROVE  PInv /\ AppelDors(n) /\ Evolue => Suivi
<1> SUFFICES ASSUME PInv, AppelDors(n), Evolue
             PROVE  Suivi
  OBVIOUS
<1>1. /\ Structure /\ Progres /\ Pc = "code"
      /\ UNCHANGED <<etat, reveil_prevu, processus_crees, elu, actif, mie,
                     nb_interruptions, nb_secondes, cpu>>
  BY DEF PInv, AppelDors, globales, indices, horloge, registres
<1>2. Structure' /\ cpu # 0 /\ Pc' = "dors1"
  BY <1>1, AppelDorsStructure
<1>3. Vus' = Vus /\ Dates' = Dates
  BY <1>1, VusReste
<1>4. QED
  BY <1>1, <1>2, <1>3, ReposReste DEF Repos

LEMMA AppelFinSuivi == PInv /\ AppelFin /\ Evolue => Suivi
<1> SUFFICES ASSUME PInv, AppelFin, Evolue
             PROVE  Suivi
  OBVIOUS
<1>1. /\ Structure /\ Progres /\ Pc = "code"
      /\ UNCHANGED <<etat, reveil_prevu, processus_crees, elu, actif, mie,
                     nb_interruptions, nb_secondes, cpu>>
  BY DEF PInv, AppelFin, globales, indices, horloge, registres
<1>2. Structure' /\ cpu # 0 /\ Pc' = "fin1"
  BY <1>1, AppelFinStructure
<1>3. Vus' = Vus /\ Dates' = Dates
  BY <1>1, VusReste
<1>4. QED
  BY <1>1, <1>2, <1>3, ReposReste DEF Repos

LEMMA AppelCreeSuivi == PInv /\ AppelCree /\ Evolue => Suivi
<1> SUFFICES ASSUME PInv, AppelCree, Evolue
             PROVE  Suivi
  OBVIOUS
<1>1. /\ Structure /\ Progres /\ Pc = "code"
      /\ UNCHANGED <<etat, reveil_prevu, processus_crees, elu, actif, mie,
                     nb_interruptions, nb_secondes, cpu>>
  BY DEF PInv, AppelCree, globales, indices, horloge, registres
<1>2. Structure' /\ Pc' = "cree1"
  BY <1>1, AppelCreeStructure
<1>3. Vus' = Vus /\ Dates' = Dates
  BY <1>1, VusReste
<1>4. QED
  BY <1>1, <1>2, <1>3, ReposReste DEF Repos

LEMMA TesteSuivi == PInv /\ Teste /\ Evolue => Suivi
<1> SUFFICES ASSUME PInv, Teste, Evolue
             PROVE  Suivi
  OBVIOUS
<1>1. /\ Structure /\ Progres /\ Pc = "cree1"
      /\ UNCHANGED <<etat, reveil_prevu, processus_crees, elu, actif, mie,
                     nb_interruptions, nb_secondes, cpu>>
  BY DEF PInv, Teste, globales, indices, horloge, registres
<1>2. Structure' /\ Pc' \in {"code", "cree2"}
  BY <1>1, TesteStructure
<1>3. Vus' = Vus /\ Dates' = Dates
  BY <1>1, VusReste
<1>4. QED
  BY <1>1, <1>2, <1>3, ReposReste DEF Repos

\* The creating process is elected, hence alive.
LEMMA TrouveSuivi == PInv /\ Trouve /\ Evolue => Suivi
<1> SUFFICES ASSUME PInv, Trouve, Evolue
             PROVE  Suivi
  OBVIOUS
<1>1. /\ Structure /\ Progres /\ Pc = "cree2" /\ Types
      /\ UNCHANGED <<etat, reveil_prevu, processus_crees, elu, actif, mie,
                     nb_interruptions, nb_secondes, cpu>>
  BY DEF PInv, Structure, Trouve, globales, indices, horloge, registres
<1>2. etat[cpu] # "MORT"
  <2>1. fige = Cliche
    BY <1>1 DEF Progres, Repos
  <2>2. Cliche.etat[cpu] = "ELU"
    BY <1>1, <2>1, FigeSain, CreationCourante
       DEF PInv, PcsCree, Creation, Cliche
  <2>3. cpu \in Cases /\ cpu < processus_crees
    BY <1>1 DEF Types, Cases, Crees
  <2>4. QED
    BY <2>2, <2>3 DEF Cliche
<1>3. /\ Structure' /\ Pc' = "cree3"
      /\ EstCaseLibre(etat, processus_crees, Sommet'.local)
  BY <1>1, <1>2, TrouveStructure
<1>4. Vus' = Vus /\ Dates' = Dates
  BY <1>1, VusReste
<1>5. EstCaseLibre(Vus, processus_crees, Sommet'.local)
  <2>1. processus_crees \in Nat /\ processus_crees <= NB_PROCESSUS_MAX
    BY <1>1 DEF Types
  <2>2. \A k \in 1 .. processus_crees - 1 : Vus[k] = etat[k]
    BY <2>1 DEF Vus, Cases
  <2>3. QED
    BY <1>3, <2>1, <2>2 DEF EstCaseLibre
<1>6. QED
  BY <1>1, <1>3, <1>4, <1>5, ReposReste DEF Repos

LEMMA RetourCreeSuivi == PInv /\ RetourCree /\ Evolue => Suivi
<1> SUFFICES ASSUME PInv, RetourCree, Evolue
             PROVE  Suivi
  OBVIOUS
<1>1. /\ Structure /\ Progres /\ Pc = "cree8"
      /\ UNCHANGED <<etat, reveil_prevu, processus_crees, elu, actif, mie,
                     nb_interruptions, nb_secondes, cpu>>
  BY DEF PInv, RetourCree, globales, indices, horloge, registres
<1>2. Structure' /\ Pc' = "code"
  BY <1>1, RetourCreeStructure
<1>3. Vus' = Vus /\ Dates' = Dates
  BY <1>1, VusReste
<1>4. QED
  BY <1>1, <1>2, <1>3, ReposReste DEF Repos

\* Nothing but fige could change.
LEMMA NeutreSuivi == PInv /\ UNCHANGED reel /\ fige' = fige => Suivi
<1> SUFFICES ASSUME PInv, UNCHANGED reel, fige' = fige
             PROVE  Suivi
  OBVIOUS
<1>1. /\ Structure' /\ Pc' = Pc /\ Sommet' = Sommet /\ Cliche' = Cliche
      /\ UNCHANGED <<etat, reveil_prevu, processus_crees, elu, next_elu,
                     actif, ancien, nb_interruptions, nb_secondes, mie, cpu>>
  BY StructureNeutre
     DEF PInv, reel, globales, indices, horloge, registres
<1>2. Vus' = Vus /\ Dates' = Dates
  BY <1>1, VusReste
<1>3. EnOrdonnance' = EnOrdonnance
  BY <1>1, <1>2
     DEF EnOrdonnance, Appel, AppelInterruption, AppelSommeil, AppelMort,
         Avance, Eveilles, Rendus
<1>4. Progres'
  BY <1>1, <1>2, <1>3 DEF PInv, Progres, Memes, Repos, P!Horloge
<1>5. QED
  BY <1>1, <1>4, FigeMuet DEF Suivi

LEMMA EnableItSuivi == PInv /\ EnableIt /\ ~Preemptif /\ Evolue => Suivi
<1> SUFFICES ASSUME PInv, EnableIt, ~Preemptif, Evolue
             PROVE  Suivi
  OBVIOUS
<1>1. UNCHANGED reel
  BY EnableItNeutre DEF PInv
<1>2. Cliche' = Cliche
  BY <1>1, StructureNeutre DEF PInv
<1>3. fige = Cliche
  BY DEF PInv, Progres, Repos, EnableIt
<1>4. fige' = fige
  BY <1>2, <1>3 DEF Evolue
<1>5. QED
  BY <1>1, <1>4, NeutreSuivi

-----------------------------------------------------------------------------
(* The trap.                                                               *)

LEMMA TrappeSuivi == PInv /\ Trappe /\ Evolue => Suivi
<1> SUFFICES ASSUME PInv, Trappe, Evolue
             PROVE  Suivi
  OBVIOUS
<1>1. /\ Structure /\ Progres /\ mie /\ mie' = FALSE
      /\ UNCHANGED <<etat, reveil_prevu, processus_crees, elu, actif,
                     nb_interruptions, nb_secondes, cpu>>
  BY DEF PInv, Trappe, globales, indices, horloge
<1>2. Structure' /\ cpu = 0 /\ Pc' = "traitant1"
  BY <1>1, TrappeStructure
<1>3. Pc \in {"code"} \cup PcsCree
  BY <1>1 DEF Structure, Courant
<1>4. fige = Cliche
  BY <1>1, <1>2, <1>3 DEF Progres, Repos, PcsCree
<1>5. fige' = fige
  BY <1>1, <1>2 DEF Evolue, Observable, Creation
<1>6. Vus' = Vus /\ Dates' = Dates
  BY <1>1, VusReste
<1>7. /\ fige.mie /\ fige.etat = Vus /\ fige.reveil_prevu = Dates
      /\ fige.elu = elu /\ fige.actif = actif
      /\ fige.nb_interruptions = nb_interruptions
      /\ fige.nb_secondes = nb_secondes
      /\ fige.processus_crees = processus_crees
  BY <1>1, <1>4, ClicheVaut DEF ClicheJuste
<1>8. Memes'
  BY <1>1, <1>5, <1>6, <1>7 DEF Memes
<1>9. Progres'
  BY <1>1, <1>2, <1>5, <1>6, <1>7, <1>8
     DEF Progres, Repos, Creation, PcsOrdonnance
<1>10. QED
  BY <1>2, <1>5, <1>9, FigeMuet DEF Suivi

LEMMA CompteSuivi == PInv /\ Compte /\ Evolue => Suivi
<1> SUFFICES ASSUME PInv, Compte, Evolue
             PROVE  Suivi
  OBVIOUS
<1>1. /\ Structure /\ Progres /\ Pc = "traitant1"
      /\ nb_interruptions' = nb_interruptions + 1
      /\ UNCHANGED <<etat, reveil_prevu, processus_crees, elu, actif,
                     nb_secondes, mie, cpu>>
  BY DEF PInv, Compte, globales, indices, registres
<1>2. Structure' /\ cpu = 0 /\ Pc' = "reveil"
  BY <1>1, CompteStructure
<1>3. fige' = fige
  BY <1>1, <1>2 DEF Evolue, Observable, Creation
<1>4. Vus' = Vus /\ Dates' = Dates
  BY <1>1, VusReste
<1>5. /\ fige.mie /\ fige.etat = Vus /\ fige.reveil_prevu = Dates
      /\ fige.elu = elu /\ fige.actif = actif
      /\ fige.nb_interruptions = nb_interruptions
      /\ fige.nb_secondes = nb_secondes
      /\ fige.processus_crees = processus_crees
  BY <1>1 DEF Progres, Memes
<1>6. Appel(Vus)'
  BY <1>1, <1>3, <1>4, <1>5 DEF Appel, AppelInterruption
<1>7. Avance(Vus, Eveilles(Vus))'
  BY <1>1, <1>2, <1>3, <1>4, <1>5 DEF Avance
<1>8. Vus \in [Cases -> Etats]
  BY <1>5, FigeSain DEF PInv
<1>9. EnOrdonnance'
  BY <1>4, <1>6, <1>7, <1>8 DEF EnOrdonnance
<1>10. Progres'
  BY <1>1, <1>2, <1>3, <1>5, <1>9
     DEF Progres, Repos, Creation, PcsOrdonnance
<1>11. QED
  BY <1>2, <1>3, <1>10, FigeMuet DEF Suivi

LEMMA SecondeSuivi == PInv /\ Seconde /\ Evolue => Suivi
<1> SUFFICES ASSUME PInv, Seconde, Evolue
             PROVE  Suivi
  OBVIOUS
<1>1. /\ Structure /\ Progres /\ Pc = "traitant2"
      /\ nb_secondes' = IF nb_interruptions % IT_FREQ = 0
                        THEN nb_secondes + 1 ELSE nb_secondes
      /\ UNCHANGED <<etat, reveil_prevu, processus_crees, elu, actif,
                     nb_interruptions, mie, cpu>>
  BY DEF PInv, Seconde, globales, indices, registres
<1>2. Structure' /\ cpu = 0 /\ Pc' = "mret"
  BY <1>1, SecondeStructure
<1>3. fige' = fige /\ fige = Cliche
  BY <1>1, <1>2 DEF Evolue, Observable, Creation, Progres, Repos
<1>4. Vus' = Vus /\ Dates' = Dates
  BY <1>1, VusReste
<1>5. /\ fige.nb_interruptions = nb_interruptions
      /\ fige.nb_secondes = nb_secondes
      /\ fige.reprise = Reprise
      /\ fige.processus_crees = processus_crees
  BY <1>1, <1>3, ClicheVaut DEF ClicheJuste
<1>6. fige.reprise[0] = "traitant"
  BY <1>1, <1>5 DEF Reprise, Cases
<1>7. Memes' /\ fige.etat = Vus'
  BY <1>1, <1>3, <1>4, ClicheVaut DEF Memes, ClicheJuste
<1>8. nb_secondes' = P!Horloge(fige.nb_interruptions, fige.nb_secondes)
  BY <1>1, <1>5 DEF P!Horloge
<1>9. Progres'
  BY <1>1, <1>2, <1>3, <1>5, <1>6, <1>7, <1>8
     DEF Progres, Repos, Creation, PcsOrdonnance, P!Horloge
<1>10. QED
  BY <1>2, <1>3, <1>9, FigeMuet DEF Suivi

\* mret ends the interrupt.
LEMMA MretSuivi == PInv /\ Mret /\ Evolue => Suivi
<1> SUFFICES ASSUME PInv, Mret, Evolue
             PROVE  Suivi
  OBVIOUS
<1>1. /\ Structure /\ Progres /\ Pc = "mret" /\ mie' = TRUE
      /\ UNCHANGED <<etat, reveil_prevu, processus_crees, elu, actif,
                     nb_interruptions, nb_secondes, cpu>>
  BY DEF PInv, Structure, Types, Mret, globales, indices, horloge
<1>2. Structure' /\ cpu = 0 /\ Pc' \in {"code"} \cup PcsCree /\ ~egare'
  BY <1>1, MretStructure DEF Structure
<1>3. fige' = Cliche' /\ Repos'
  BY <1>1, <1>2 DEF Evolue, Observable, PcsCree, Repos
<1>4. Vus' = Vus /\ Dates' = Dates
  BY <1>1, VusReste
<1>5. /\ fige.etat = Vus /\ fige.reveil_prevu = Dates
      /\ fige.processus_crees = processus_crees
      /\ fige.elu = elu /\ fige.actif = actif
      /\ fige.nb_interruptions = nb_interruptions
      /\ nb_secondes = P!Horloge(fige.nb_interruptions, fige.nb_secondes)
      /\ fige.reprise[0] = "traitant"
  BY <1>1 DEF Progres, Memes
<1>6. fige'.reprise = [i \in Cases |-> "code"]
  <2>1. ~IdleTrappe' /\ Pc' # "traitant2"
    BY <1>1, <1>2 DEF IdleTrappe, PcsOrdonnance, PcsCree, Creation
  <2>2. fige'.reprise = Reprise'
    BY <1>2, <1>3, ClicheSuit DEF ClicheJuste
  <2>3. QED
    BY <2>1, <2>2 DEF Reprise
<1>7. actif = 0
  BY <1>1, <1>2 DEF Structure, Registres
<1>8. fige'.reprise = [fige.reprise EXCEPT ![fige.actif] = "code"]
  <2>1. /\ fige.reprise \in [Cases -> {"code", "traitant"}]
        /\ \A i \in Cases \ {0} : fige.reprise[i] = "code"
    BY FigeSain DEF PInv
  <2>2. fige.actif = 0 /\ 0 \in Cases
    BY <1>1, <1>5, <1>7 DEF Structure, Types, Cases
  <2>3. [fige.reprise EXCEPT ![0] = "code"] = [i \in Cases |-> "code"]
    BY <2>1, <2>2
  <2>4. QED
    BY <1>6, <2>2, <2>3
<1>9. P!FinTraitant
  <2>1. /\ fige'.etat = Vus /\ fige'.reveil_prevu = Dates
        /\ fige'.processus_crees = processus_crees
        /\ fige'.elu = elu /\ fige'.actif = actif
        /\ fige'.nb_interruptions = nb_interruptions
        /\ fige'.nb_secondes = nb_secondes
    BY <1>1, <1>2, <1>3, <1>4, ClicheSuit DEF ClicheJuste
  <2>2. fige'.mie = TRUE
    <3>1. fige'.mie = mie'
      BY <1>2, <1>3, ClicheSuit DEF ClicheJuste
    <3>2. QED
      BY <1>1, <3>1
  <2>3. P!Mret
    BY <1>8, <2>2, Zenon DEF P!Mret
  <2>4. fige.reprise[fige.actif] = "traitant"
    BY <1>5, <1>7
  <2>5. QED
    BY <1>5, <2>1, <2>3, <2>4 DEF P!FinTraitant
<1>10. Progres'
  BY <1>1, <1>2, <1>3, ReposSuit
<1>11. QED
  BY <1>2, <1>9, <1>10 DEF Suivi, P!Next

-----------------------------------------------------------------------------
(* dors and fin_processus hand their table to ordonnance.                  *)

\* A call of a process other than idle, which nothing interrupts.
LEMMA AppelCourant ==
  ASSUME PInv, Pc \in {"dors1", "dors2", "fin1"}
  PROVE  /\ cpu # 0 /\ actif = cpu /\ actif \in Cases
         /\ actif < processus_crees
         /\ fige.actif = actif => ~fige.mie
<1>1. Structure /\ P!IInv
  BY DEF PInv
<1>2. actif < processus_crees
  BY <1>1 DEF Structure, Types, Crees
<1>3. QED
  BY <1>1, <1>2, AutreCourant, FigeSain

LEMMA EndortSuivi == PInv /\ Endort /\ Evolue => Suivi
<1> SUFFICES ASSUME PInv, Endort, Evolue
             PROVE  Suivi
  OBVIOUS
<1>1. /\ Structure /\ Progres /\ Types /\ Pc = "dors1"
      /\ etat' = [etat EXCEPT ![actif] = "ENDORMI"]
      /\ UNCHANGED <<reveil_prevu, processus_crees, elu, actif, mie,
                     nb_interruptions, nb_secondes, cpu>>
  BY DEF PInv, Structure, Endort, indices, horloge, registres
<1>2. Structure' /\ Pc' = "dors2"
  BY <1>1, EndortStructure
<1>3. cpu # 0 /\ actif = cpu /\ actif \in Cases /\ actif < processus_crees
  BY <1>1, AppelCourant
<1>4. fige' = fige /\ fige = Cliche
  BY <1>1, <1>2, <1>3 DEF Evolue, Observable, Creation, Progres, Repos
<1>5. Vus' = [Vus EXCEPT ![cpu] = "ENDORMI"] /\ Dates' = Dates
  <2>1. etat \in [Cases -> Etats]
    BY <1>1 DEF Types
  <2>2. QED
    BY <1>1, <1>3, <2>1 DEF Vus, Dates
<1>6. fige.processus_crees = processus_crees
      /\ Memes' /\ fige.nb_secondes = nb_secondes
      /\ fige.etat = Vus
  BY <1>1, <1>4, <1>5, ClicheVaut DEF Memes, ClicheJuste
<1>7. Progres'
  BY <1>1, <1>2, <1>4, <1>5, <1>6
     DEF Progres, Repos, Creation, PcsOrdonnance
<1>8. QED
  BY <1>2, <1>4, <1>7, FigeMuet DEF Suivi

\* A call enters ordonnance with the table e.
LEMMA AppelSuivi ==
  ASSUME PInv, Structure', Evolue, Pc' = "reveil", fige' = fige,
         processus_crees' = processus_crees, elu' = fige.elu,
         actif' = fige.actif,
         NEW e \in [Cases -> Etats], Vus' = e, Appel(e)'
  PROVE  Suivi
<1>1. Avance(e, Eveilles(e))'
  BY DEF Avance
<1>2. EnOrdonnance'
  BY <1>1 DEF EnOrdonnance
<1>3. Progres'
  BY <1>2 DEF PInv, Progres, Repos, Creation, PcsOrdonnance
<1>4. QED
  BY <1>3, FigeMuet DEF Suivi

LEMMA ProgrammeSuivi == PInv /\ Programme /\ Evolue => Suivi
<1> SUFFICES ASSUME PInv, Programme, Evolue
             PROVE  Suivi
  OBVIOUS
<1>1. /\ Structure /\ Progres /\ Types /\ Pc = "dors2"
      /\ reveil_prevu' =
           [reveil_prevu EXCEPT ![actif] = nb_secondes + Sommet.local]
      /\ UNCHANGED <<etat, processus_crees, elu, actif, mie,
                     nb_interruptions, nb_secondes, cpu>>
  BY DEF PInv, Structure, Programme, indices, horloge, registres
<1>2. Structure' /\ Pc' = "reveil"
  BY <1>1, ProgrammeStructure
<1>3. cpu # 0 /\ actif = cpu /\ actif \in Cases /\ actif < processus_crees
  BY <1>1, AppelCourant
<1>4. fige' = fige
  BY <1>1, <1>2, <1>3 DEF Evolue, Observable, Creation
<1>5. /\ Memes /\ fige.nb_secondes = nb_secondes
      /\ Vus = [fige.etat EXCEPT ![cpu] = "ENDORMI"]
  BY <1>1 DEF Progres
<1>6. Vus' = Vus /\ Vus \in [Cases -> Etats]
  BY <1>1 DEF Vus, Types, Etats
<1>7. Dates' = [Dates EXCEPT ![actif] = nb_secondes + Sommet.local]
  <2>1. reveil_prevu \in [Cases -> Nat]
    BY <1>1 DEF Types
  <2>2. QED
    BY <1>1, <1>3, <2>1 DEF Dates
<1>8. Sommet.local \in Durees
  BY <1>1 DEF Structure, Courant
<1>9. Appel(Vus)'
  <2>1. ~fige.mie /\ fige.actif = actif
    BY <1>1, <1>5, AppelCourant DEF Memes
  <2>2. AppelSommeil(Vus)'
    BY <1>1, <1>3, <1>4, <1>5, <1>6, <1>7, <1>8, <2>1
       DEF AppelSommeil, Memes
  <2>3. QED
    BY <1>1, <1>4, <1>5, <2>2 DEF Appel
<1>10. QED
  BY <1>1, <1>2, <1>4, <1>5, <1>6, <1>9, AppelSuivi DEF Memes

LEMMA MeurtSuivi == PInv /\ Meurt /\ Evolue => Suivi
<1> SUFFICES ASSUME PInv, Meurt, Evolue
             PROVE  Suivi
  OBVIOUS
<1>1. /\ Structure /\ Progres /\ Types /\ Pc = "fin1"
      /\ etat' = [etat EXCEPT ![actif] = "MORT"]
      /\ UNCHANGED <<reveil_prevu, processus_crees, elu, actif, mie,
                     nb_interruptions, nb_secondes, cpu>>
  BY DEF PInv, Structure, Meurt, indices, horloge, registres
<1>2. Structure' /\ Pc' = "reveil"
  BY <1>1, MeurtStructure
<1>3. cpu # 0 /\ actif = cpu /\ actif \in Cases /\ actif < processus_crees
  BY <1>1, AppelCourant
<1>4. fige' = fige /\ fige = Cliche
  BY <1>1, <1>2, <1>3 DEF Evolue, Observable, Creation, Progres, Repos
<1>5. /\ fige.actif = actif /\ fige.elu = elu /\ fige.etat = Vus
      /\ fige.reveil_prevu = Dates
      /\ fige.nb_interruptions = nb_interruptions
      /\ fige.nb_secondes = nb_secondes
  BY <1>1, <1>4, ClicheVaut DEF ClicheJuste
<1>6. Vus' = [Vus EXCEPT ![actif] = "MORT"] /\ Dates' = Dates
  <2>1. etat \in [Cases -> Etats]
    BY <1>1 DEF Types
  <2>2. QED
    BY <1>1, <1>3, <2>1 DEF Vus, Dates
<1>7. Vus' \in [Cases -> Etats]
  BY <1>1, <1>6 DEF Vus, Types, Etats
<1>8. PICK e \in [Cases -> Etats] : e = Vus'
  BY <1>7
<1>9. Appel(e)'
  <2>1. ~fige.mie
    BY <1>1, <1>5, AppelCourant
  <2>2. AppelMort(e)'
    BY <1>1, <1>3, <1>4, <1>5, <1>6, <1>8, <2>1 DEF AppelMort
  <2>3. QED
    BY <1>1, <1>4, <1>5, <2>2 DEF Appel
<1>10. QED
  BY <1>1, <1>2, <1>4, <1>5, <1>8, <1>9, AppelSuivi

-----------------------------------------------------------------------------
(* ordonnance.                                                             *)

\* A step inside ordonnance that goes on with the call under way.
LEMMA OrdonnanceSuivi ==
  ASSUME PInv, Structure', Evolue,
         Pc \in PcsOrdonnance, Pc' \in PcsOrdonnance,
         UNCHANGED <<reveil_prevu, processus_crees, nb_interruptions,
                     nb_secondes>>,
         \A e, p \in [Cases -> Etats] :
           Avance(e, p) /\ p = Eveilles(e) => Avance(e, p)'
  PROVE  Suivi
<1>1. fige' = fige /\ Dates' = Dates
  BY DEF Evolue, Observable, Creation, PcsOrdonnance, Dates
<1>2. PICK e \in [Cases -> Etats] : Appel(e) /\ Avance(e, Eveilles(e))
  BY DEF PInv, Progres, EnOrdonnance
<1>3. PICK p \in [Cases -> Etats] : p = Eveilles(e)
  BY DEF Eveilles, Reveille, Etats
<1>4. Avance(e, p)'
  BY <1>2, <1>3
<1>5. Appel(e)'
  BY <1>1, <1>2
     DEF Appel, AppelInterruption, AppelSommeil, AppelMort
<1>6. Eveilles(e)' = p
  BY <1>1, <1>3 DEF Eveilles
<1>7. EnOrdonnance'
  BY <1>4, <1>5, <1>6 DEF EnOrdonnance
<1>8. Progres'
  BY <1>1, <1>7 DEF PInv, Progres, Repos, Creation, PcsOrdonnance
<1>9. QED
  BY <1>1, <1>8, FigeMuet DEF Suivi

\* The loops of ordonnance see the created slots only.
LEMMA EveillesVus ==
  ASSUME Types
  PROVE  [i \in Cases |->
            IF i < processus_crees
            THEN Reveille(etat, [j \in Cases |-> reveil_prevu[j] <= nb_secondes],
                          processus_crees)[i]
            ELSE "ELU"]
         = Eveilles(Vus)
<1>1. processus_crees \in Int
  BY DEF Types
<1>2. QED
  BY <1>1 DEF Types, Eveilles, Reveille, Vus, Dates, Cases

LEMMA SuivantVus ==
  ASSUME Types, NEW t
  PROVE  EstSuivant(etat, elu, processus_crees, t) <=>
           EstSuivant(Vus, elu, processus_crees, t)
<1> DEFINE n == processus_crees
<1>1. n \in Nat \ {0} /\ n <= NB_PROCESSUS_MAX /\ elu \in Crees(n)
  BY DEF Types
<1>2. ASSUME NEW k \in 1 .. n
      PROVE  Vus[(elu + k) % n] = etat[(elu + k) % n]
  <2>1. (elu + k) % n \in Cases /\ (elu + k) % n < n
    BY <1>1, <1>2, PasModulo DEF Crees, Cases
  <2>2. QED
    BY <2>1 DEF Vus
<1>3. QED
  BY <1>1, <1>2 DEF EstSuivant

LEMMA ReveilsSuivi == PInv /\ Reveils /\ Evolue => Suivi
<1> SUFFICES ASSUME PInv, Reveils, Evolue
             PROVE  Suivi
  OBVIOUS
<1>1. /\ Structure /\ Types /\ Pc = "reveil"
      /\ etat' = Reveille(etat,
                          [i \in Cases |-> reveil_prevu[i] <= nb_secondes],
                          processus_crees)
      /\ UNCHANGED <<reveil_prevu, processus_crees, elu, actif,
                     nb_interruptions, nb_secondes>>
  BY DEF PInv, Structure, Reveils, indices, horloge
<1>2. Structure' /\ Pc' = "cherche"
  BY <1>1, ReveilsStructure
<1>3. Vus' = Eveilles(Vus)
  BY <1>1, EveillesVus DEF Vus
<1>4. fige' = fige
  BY <1>2 DEF Evolue, Observable, Creation
<1>5. ASSUME NEW e \in [Cases -> Etats], NEW p \in [Cases -> Etats],
             Avance(e, p), p = Eveilles(e)
      PROVE  Avance(e, p)'
  <2>1. Vus = e /\ elu = fige.elu /\ actif = fige.actif
    BY <1>1, <1>5 DEF Avance
  <2>2. Vus' = p
    BY <1>3, <1>5, <2>1
  <2>3. QED
    BY <1>1, <1>2, <1>4, <2>1, <2>2 DEF Avance
<1>6. QED
  BY <1>1, <1>2, <1>5, OrdonnanceSuivi DEF PcsOrdonnance

LEMMA ChercheSuivi == PInv /\ Cherche /\ Evolue => Suivi
<1> SUFFICES ASSUME PInv, Cherche, Evolue
             PROVE  Suivi
  OBVIOUS
<1>1. /\ Structure /\ Types /\ Pc = "cherche"
      /\ EstSuivant(etat, elu, processus_crees, next_elu')
      /\ UNCHANGED <<etat, reveil_prevu, processus_crees, elu, actif,
                     nb_interruptions, nb_secondes>>
  BY DEF PInv, Structure, Cherche, horloge
<1>2. Structure' /\ Pc' = "rend"
  BY <1>1, ChercheStructure
<1>3. Vus' = Vus
  BY <1>1, VusReste
<1>4. EstSuivant(Vus, elu, processus_crees, next_elu')
  BY <1>1, SuivantVus
<1>5. fige' = fige
  BY <1>2 DEF Evolue, Observable, Creation
<1>6. ASSUME NEW e \in [Cases -> Etats], NEW p \in [Cases -> Etats],
             Avance(e, p), p = Eveilles(e)
      PROVE  Avance(e, p)'
  <2>1. Vus = p /\ elu = fige.elu /\ actif = fige.actif
    BY <1>1, <1>6 DEF Avance
  <2>2. QED
    BY <1>1, <1>2, <1>3, <1>4, <1>5, <2>1 DEF Avance
<1>7. QED
  BY <1>1, <1>2, <1>6, OrdonnanceSuivi DEF PcsOrdonnance

LEMMA RendSuiviElit ==
  ASSUME PInv, Rend, Evolue, etat[next_elu] = "ACTIVABLE"
  PROVE  Suivi
<1>1. /\ Structure /\ Types /\ Pc = "rend"
      /\ etat' = IF etat[elu] = "ELU"
                 THEN [etat EXCEPT ![elu] = "ACTIVABLE"] ELSE etat
      /\ UNCHANGED <<reveil_prevu, processus_crees, elu, next_elu, actif,
                     nb_interruptions, nb_secondes>>
  BY DEF PInv, Structure, Registres, Rend, indices, horloge
<1>2. Structure' /\ Pc' = "elit"
  BY <1>1, RendStructure
<1>3. /\ elu \in Cases /\ elu < processus_crees
      /\ next_elu \in Cases /\ next_elu < processus_crees
      /\ etat \in [Cases -> Etats]
  BY <1>1 DEF Types, Crees, Cases
<1>4. Vus' = [Vus EXCEPT ![elu] = IF @ = "ELU" THEN "ACTIVABLE" ELSE @]
  BY <1>1, <1>3 DEF Vus
<1>5. fige' = fige
  BY <1>2 DEF Evolue, Observable, Creation
<1>6. ASSUME NEW e \in [Cases -> Etats], NEW p \in [Cases -> Etats],
             Avance(e, p), p = Eveilles(e)
      PROVE  Avance(e, p)'
  <2>1. /\ Vus = p /\ elu = fige.elu /\ actif = fige.actif
        /\ EstSuivant(p, fige.elu, processus_crees, next_elu)
    BY <1>1, <1>6 DEF Avance
  <2>2. p[next_elu] = "ACTIVABLE"
    BY <1>3, <2>1 DEF Vus
  <2>3. Vus' = Rendus(p)'
    BY <1>4, <1>5, <2>1 DEF Rendus
  <2>4. QED
    BY <1>1, <1>2, <1>5, <2>1, <2>2, <2>3 DEF Avance
<1>7. QED
  BY <1>1, <1>2, <1>6, OrdonnanceSuivi DEF PcsOrdonnance

LEMMA EluNouveauSuivi == PInv /\ EluNouveau /\ Evolue => Suivi
<1> SUFFICES ASSUME PInv, EluNouveau, Evolue
             PROVE  Suivi
  OBVIOUS
<1>1. /\ Structure /\ Types /\ Pc = "elit" /\ elu' = next_elu
      /\ etat' = [etat EXCEPT ![next_elu] = "ELU"]
      /\ UNCHANGED <<reveil_prevu, processus_crees, next_elu, actif,
                     nb_interruptions, nb_secondes>>
  BY DEF PInv, Structure, EluNouveau, horloge
<1>2. Structure' /\ Pc' = "active"
  BY <1>1, EluNouveauStructure
<1>3. /\ next_elu \in Cases /\ next_elu < processus_crees
      /\ etat \in [Cases -> Etats]
  BY <1>1 DEF Types, Crees, Cases
<1>4. Vus' = [Vus EXCEPT ![next_elu] = "ELU"]
  BY <1>1, <1>3 DEF Vus
<1>5. fige' = fige
  BY <1>2 DEF Evolue, Observable, Creation
<1>6. ASSUME NEW e \in [Cases -> Etats], NEW p \in [Cases -> Etats],
             Avance(e, p), p = Eveilles(e)
      PROVE  Avance(e, p)'
  <2>1. /\ Vus = Rendus(p) /\ actif = fige.actif
        /\ EstSuivant(p, fige.elu, processus_crees, next_elu)
        /\ p[next_elu] = "ACTIVABLE"
    BY <1>1, <1>6 DEF Avance
  <2>2. Vus' = Elit(p, fige.elu, next_elu)
    BY <1>4, <2>1 DEF Rendus, Elit
  <2>3. QED
    BY <1>1, <1>2, <1>5, <2>1, <2>2 DEF Avance
<1>7. QED
  BY <1>1, <1>2, <1>6, OrdonnanceSuivi DEF PcsOrdonnance

LEMMA ActiveSuivi == PInv /\ Active /\ Evolue => Suivi
<1> SUFFICES ASSUME PInv, Active, Evolue
             PROVE  Suivi
  OBVIOUS
<1>1. /\ Structure /\ Pc = "active" /\ actif' = elu
      /\ UNCHANGED <<etat, reveil_prevu, processus_crees, elu, next_elu,
                     nb_interruptions, nb_secondes>>
  BY DEF PInv, Structure, Registres, Active, horloge
<1>2. Structure' /\ Pc' = "sauve"
  BY <1>1, ActiveStructure
<1>3. Vus' = Vus
  BY <1>1, VusReste
<1>4. fige' = fige
  BY <1>2 DEF Evolue, Observable, Creation
<1>5. ASSUME NEW e \in [Cases -> Etats], NEW p \in [Cases -> Etats],
             Avance(e, p), p = Eveilles(e)
      PROVE  Avance(e, p)'
  BY <1>1, <1>2, <1>3, <1>4, <1>5 DEF Avance
<1>6. QED
  BY <1>1, <1>2, <1>5, OrdonnanceSuivi DEF PcsOrdonnance

\* The two halves of ctx_sw up to the change of stack.
LEMMA CtxSwSuivi ==
  ASSUME PInv, Structure', Evolue, UNCHANGED globales, UNCHANGED horloge,
         Pc \in {"sauve", "charge", "bascule"},
         Pc' \in {"charge", "bascule", "retour"}
  PROVE  Suivi
<1>1. UNCHANGED <<etat, reveil_prevu, processus_crees, elu, next_elu, actif,
                  nb_interruptions, nb_secondes>>
  BY DEF globales, indices, horloge
<1>2. Vus' = Vus
  BY <1>1, VusReste
<1>3. fige' = fige
  BY DEF Evolue, Observable, Creation
<1>4. ASSUME NEW e \in [Cases -> Etats], NEW p \in [Cases -> Etats],
             Avance(e, p), p = Eveilles(e)
      PROVE  Avance(e, p)'
  BY <1>1, <1>2, <1>3, <1>4 DEF Avance
<1>5. QED
  BY <1>1, <1>4, OrdonnanceSuivi DEF PcsOrdonnance

\* The outcome of ordonnance: start stays elected, or hands the CPU over.
Issue(p) ==
  /\ EstSuivant(p, fige.elu, processus_crees, next_elu)
  /\ \/ /\ p[next_elu] # "ACTIVABLE" /\ Vus' = p
        /\ elu' = fige.elu /\ actif' = fige.actif
     \/ /\ p[next_elu] = "ACTIVABLE" /\ Vus' = Elit(p, fige.elu, next_elu)
        /\ elu' = next_elu /\ actif' = next_elu

LEMMA IssueOrdonnance ==
  ASSUME PInv, NEW e \in [Cases -> Etats], Issue(Eveilles(e)),
         nb_secondes = fige.nb_secondes,
         fige'.etat = Vus', fige'.elu = elu', fige'.actif = actif'
  PROVE  P!Ordonnance(e, Dates)
<1>1. P!Reveille(e, P!Echu(Dates), fige.processus_crees) = Eveilles(e)
  BY DEF PInv, Progres, P!Reveille, Reveille, P!Echu, Eveilles, P!Cases,
         Cases
<1>2. next_elu \in Crees(processus_crees)
  BY DEF PInv, Structure, Types
<1>3. QED
  BY <1>1, <1>2
     DEF Issue, PInv, Progres, P!Ordonnance, P!EstSuivant, EstSuivant,
         P!Elit, Elit, P!CtxSw, P!Crees, Crees

\* The end of a call that went through ordonnance: the CPU is in the handler
\* for idle, in its code for another process.
LEMMA AppelFini ==
  ASSUME PInv, Structure', Evolue, Pc \in PcsOrdonnance,
         Pc' = IF cpu' = 0 THEN "traitant2" ELSE "code",
         UNCHANGED <<reveil_prevu, processus_crees, nb_interruptions,
                     nb_secondes>>,
         \A e, p \in [Cases -> Etats] :
           Avance(e, p) /\ p = Eveilles(e) => Issue(p)
  PROVE  Suivi
<1>1. PICK e \in [Cases -> Etats] : Appel(e) /\ Avance(e, Eveilles(e))
  BY DEF PInv, Progres, EnOrdonnance
<1>2. Issue(Eveilles(e))
  <2>1. PICK p \in [Cases -> Etats] : p = Eveilles(e)
    BY DEF Eveilles, Reveille, Etats
  <2>2. QED
    BY <1>1, <2>1
<1>3. fige' = Cliche' /\ Repos' /\ Pc' # "cree3"
  BY DEF Evolue, Observable, Repos, Structure
<1>4. Progres'
  BY <1>3, ReposSuit
<1>5. fige.processus_crees = processus_crees /\ Dates' = Dates
  BY DEF PInv, Progres, Dates
<1>6. /\ fige'.etat = Vus' /\ fige'.reveil_prevu = Dates
      /\ fige'.processus_crees = processus_crees
      /\ fige'.elu = elu' /\ fige'.actif = actif'
      /\ fige'.nb_interruptions = nb_interruptions
      /\ fige'.nb_secondes = nb_secondes
      /\ fige'.reprise = Reprise'
  BY <1>3, <1>5, ClicheSuit DEF ClicheJuste
<1>7. fige'.mie = FALSE
  <2>1. fige'.mie = mie'
    BY <1>3, ClicheSuit DEF ClicheJuste
  <2>2. mie' \in BOOLEAN /\ ~mie'
    BY DEF Structure, Types, Courant, PcsCree, Creation
  <2>3. QED
    BY <2>1, <2>2
<1>8. fige'.reprise =
        [i \in Cases |-> IF i = 0 THEN "traitant" ELSE "code"]
  BY <1>6 DEF Reprise, IdleTrappe
<1>9. nb_secondes = fige.nb_secondes
  BY <1>1 DEF Appel
<1>10. P!Ordonnance(e, Dates)
  BY <1>2, <1>6, <1>9, IssueOrdonnance
<1>11. P!Next
  <2>1. CASE AppelInterruption(e)
    <3>1. fige.mie /\ e = fige.etat /\ Dates = fige.reveil_prevu
            /\ nb_interruptions = fige.nb_interruptions + 1
      BY <2>1 DEF AppelInterruption
    <3>2. fige'.reprise = [fige.reprise EXCEPT ![fige.actif] = "traitant"]
      <4>1. /\ fige.actif = 0
            /\ fige.reprise \in [Cases -> {"code", "traitant"}]
            /\ \A i \in Cases \ {0} : fige.reprise[i] = "code"
        BY <3>1, FigeSain DEF PInv
      <4>2. QED
        BY <1>8, <4>1
    <3>3. P!Interruption
      BY <1>5, <1>6, <1>7, <1>9, <1>10, <3>1, <3>2 DEF P!Interruption
    <3>4. QED
      BY <3>3 DEF P!Next
  <2>2. CASE AppelSommeil(e) \/ AppelMort(e)
    <3>1. ~fige.mie /\ fige.actif # 0
            /\ nb_interruptions = fige.nb_interruptions
      BY <2>2 DEF AppelSommeil, AppelMort
    <3>2. fige'.reprise = fige.reprise /\ P!EnCode
      <4>1. fige.actif \in Cases
        BY FigeSain DEF PInv, Crees, Cases
      <4>2. /\ fige.reprise \in [Cases -> {"code", "traitant"}]
            /\ \A i \in Cases \ {0} : fige.reprise[i] = "code"
            /\ fige.reprise[0] = "traitant"
        BY <3>1, FigeSain DEF PInv
      <4>3. fige'.reprise = fige.reprise
        BY <1>8, <4>2
      <4>4. P!EnCode
        BY <3>1, <4>1, <4>2 DEF P!EnCode
      <4>5. QED
        BY <4>3, <4>4
    <3>3. fige'.mie = fige.mie
      <4>1. fige.mie \in BOOLEAN
        BY DEF PInv, P!IInv, P!TypeOK
      <4>2. QED
        BY <1>7, <3>1, <4>1
    <3>4. CASE AppelSommeil(e)
      <4>1. PICK n \in Durees :
              Dates = [fige.reveil_prevu EXCEPT ![fige.actif] =
                         nb_secondes + n]
        BY <3>4 DEF AppelSommeil
      <4>2. e = [fige.etat EXCEPT ![fige.actif] = "ENDORMI"]
        BY <3>4 DEF AppelSommeil
      <4>3. P!Dors(n)
        BY <1>5, <1>6, <1>9, <1>10, <3>1, <3>2, <3>3, <4>1, <4>2
           DEF P!Dors
      <4>4. QED
        BY <4>3 DEF P!Next
    <3>5. CASE AppelMort(e)
      <4>1. /\ e = [fige.etat EXCEPT ![fige.actif] = "MORT"]
            /\ Dates = fige.reveil_prevu
        BY <3>5 DEF AppelMort
      <4>2. P!FinProcessus
        BY <1>5, <1>6, <1>9, <1>10, <3>1, <3>2, <3>3, <4>1
           DEF P!FinProcessus
      <4>3. QED
        BY <4>2 DEF P!Next
    <3>6. QED
      BY <2>2, <3>4, <3>5
  <2>3. QED
    BY <1>1, <2>1, <2>2 DEF Appel
<1>12. QED
  BY <1>4, <1>11 DEF Suivi

LEMMA RendSuivi == PInv /\ Rend /\ Evolue => Suivi
<1> SUFFICES ASSUME PInv, Rend, Evolue, etat[next_elu] # "ACTIVABLE"
             PROVE  Suivi
  BY RendSuiviElit
<1>1. /\ Structure /\ Types /\ Pc = "rend" /\ Depile
      /\ UNCHANGED <<globales, horloge, registres, cpu, egare>>
  BY DEF PInv, Structure, Rend, globales
<1>2. UNCHANGED <<etat, reveil_prevu, processus_crees, elu, next_elu, actif,
                  nb_interruptions, nb_secondes, cpu>>
  BY <1>1 DEF globales, indices, horloge
<1>3. Structure' /\ Pc' = IF cpu = 0 THEN "traitant2" ELSE "code"
  BY <1>1, RetourStructure
<1>4. Vus' = Vus
  BY <1>2, VusReste
<1>5. ASSUME NEW e \in [Cases -> Etats], NEW p \in [Cases -> Etats],
             Avance(e, p), p = Eveilles(e)
      PROVE  Issue(p)
  <2>1. /\ Vus = p /\ elu = fige.elu /\ actif = fige.actif
        /\ EstSuivant(p, fige.elu, processus_crees, next_elu)
    BY <1>1, <1>5 DEF Avance
  <2>2. p[next_elu] # "ACTIVABLE"
    BY <1>1, <2>1 DEF Vus, Types, Crees, Cases
  <2>3. QED
    BY <1>2, <1>4, <2>1, <2>2 DEF Issue
<1>6. QED
  BY <1>1, <1>2, <1>3, <1>5, AppelFini DEF PcsOrdonnance

\* A call that has elected ends where its process resumes.
LEMMA EluSuivi ==
  ASSUME PInv, Structure', Evolue, UNCHANGED <<globales, horloge>>,
         Pc \in {"bascule", "retour"},
         Pc' = IF cpu' = 0 THEN "traitant2" ELSE "code"
  PROVE  Suivi
<1>1. UNCHANGED <<etat, reveil_prevu, processus_crees, elu, next_elu, actif,
                  nb_interruptions, nb_secondes>>
  BY DEF globales, indices, horloge
<1>2. Vus' = Vus
  BY <1>1, VusReste
<1>3. ASSUME NEW e \in [Cases -> Etats], NEW p \in [Cases -> Etats],
             Avance(e, p), p = Eveilles(e)
      PROVE  Issue(p)
  BY <1>1, <1>2, <1>3 DEF Avance, Issue
<1>4. QED
  BY <1>1, <1>3, AppelFini DEF PcsOrdonnance

LEMMA SauveSuivi == PInv /\ Sauve /\ Evolue => Suivi
  BY SauveStructure, CtxSwSuivi DEF PInv, Sauve

LEMMA ChargeMepcSuivi == PInv /\ ChargeMepc /\ Evolue => Suivi
  BY ChargeMepcStructure, CtxSwSuivi DEF PInv, ChargeMepc

LEMMA BasculeSuivi == PInv /\ Bascule /\ Evolue => Suivi
<1> SUFFICES ASSUME PInv, Bascule, Evolue
             PROVE  Suivi
  OBVIOUS
<1>1. /\ Structure /\ Pc = "bascule" /\ UNCHANGED <<globales, horloge>>
  BY DEF PInv, Bascule
<1>2. Structure' /\ Pc' \in {"retour", "code"}
  BY <1>1, BasculeStructure
<1>3. CASE Pc' = "retour"
  BY <1>1, <1>2, <1>3, CtxSwSuivi
<1>4. CASE Pc' = "code"
  <2>1. cpu' # 0
    <3>1. cpu' = actif /\ Types
      BY DEF PInv, Structure, Registres, Bascule
    <3>2. actif = 0 => Pc' # "code"
      <4>1. ASSUME actif = 0
            PROVE  Pc' # "code"
        <5>1. ~mie /\ ~mie'
          BY <1>1 DEF Structure, Courant, PcsCree, Creation, Bascule,
                      registres
        <5>2. QED
          BY <1>2, <3>1, <4>1, <5>1 DEF Structure, Courant
      <4>2. QED
        BY <4>1
    <3>3. QED
      BY <1>4, <3>1, <3>2
  <2>2. QED
    BY <1>1, <1>2, <1>4, <2>1, EluSuivi
<1>5. QED
  BY <1>2, <1>3, <1>4

LEMMA RetourSuivi == PInv /\ Retour /\ Evolue => Suivi
<1> SUFFICES ASSUME PInv, Retour, Evolue
             PROVE  Suivi
  OBVIOUS
<1>1. /\ Structure /\ Pc = "retour" /\ Depile
      /\ UNCHANGED <<globales, horloge, registres, cpu, egare>>
  BY DEF PInv, Retour
<1>2. Structure' /\ Pc' = IF cpu = 0 THEN "traitant2" ELSE "code"
  BY <1>1, RetourStructure
<1>3. QED
  BY <1>1, <1>2, EluSuivi

-----------------------------------------------------------------------------
(* cree_processus.                                                         *)

\* The slot that idle fills is not seen, another one is seen in fige as it
\* was.
LEMMA PrepareSuivi == PInv /\ Prepare /\ Evolue => Suivi
<1> SUFFICES ASSUME PInv, Prepare, Evolue
             PROVE  Suivi
  OBVIOUS
<1> DEFINE c == Sommet.local
<1>1. /\ Structure /\ Progres /\ Types /\ Pc = "cree3"
      /\ etat' = [etat EXCEPT ![c] = "ACTIVABLE"]
      /\ UNCHANGED <<reveil_prevu, processus_crees, elu, actif, mie,
                     nb_interruptions, nb_secondes, cpu>>
  BY DEF PInv, Structure, Prepare, indices, horloge, registres
<1>2. Structure' /\ Pc' = "cree4" /\ Sommet'.local = c
  BY <1>1, PrepareStructure
<1>3. /\ c \in Cases /\ c \in Int
      /\ cpu = 0 => c = processus_crees
  BY <1>1, CreationCourante DEF PcsCree, Creation
<1>4. Vus' = [Vus EXCEPT ![c] = IF c < processus_crees
                                THEN "ACTIVABLE" ELSE @]
      /\ Dates' = Dates
  <2>1. etat \in [Cases -> Etats] /\ processus_crees \in Int
    BY <1>1 DEF Types
  <2>2. QED
    BY <1>1, <1>3, <2>1 DEF Vus, Dates
<1>5. CASE cpu = 0
  <2>1. Vus' = Vus
    <3>1. processus_crees \in Int
      BY <1>1 DEF Types
    <3>2. QED
      BY <1>3, <1>4, <1>5, <3>1 DEF Vus
  <2>2. QED
    BY <1>1, <1>2, <1>4, <1>5, <2>1, ReposReste DEF Repos, Creation
<1>6. CASE cpu # 0
  <2>1. fige' = fige /\ fige = Cliche
    BY <1>1, <1>2, <1>6 DEF Evolue, Observable, Creation, Progres, Repos
  <2>2. /\ fige.etat = Vus /\ fige.processus_crees = processus_crees
        /\ fige.nb_secondes = nb_secondes /\ Memes'
    BY <1>1, <1>4, <2>1, ClicheVaut DEF ClicheJuste, Memes
  <2>3. EstCaseLibre(fige.etat, processus_crees, c)
    BY <1>1, <1>6 DEF Progres, Creation
  <2>4. Progres'
    BY <1>1, <1>2, <1>4, <1>6, <2>1, <2>2, <2>3
       DEF Progres, Repos, Creation, PcsOrdonnance
  <2>5. QED
    BY <1>2, <2>1, <2>4, FigeMuet DEF Suivi
<1>7. QED
  BY <1>5, <1>6

\* A step of a creation that is not seen.
LEMMA CreeSuivi ==
  ASSUME PInv, Structure', Evolue,
         Pc \in {"cree4", "cree5", "cree6"},
         Pc' \in {"cree5", "cree6", "cree7"},
         UNCHANGED <<processus_crees, elu, actif, mie, nb_interruptions,
                     nb_secondes, cpu>>,
         Vus' = Vus, Dates' = Dates, Sommet'.local = Sommet.local
  PROVE  Suivi
<1>1. Structure /\ Progres
  BY DEF PInv
<1>2. CASE cpu = 0
  BY <1>1, <1>2, ReposReste DEF Repos, Creation
<1>3. CASE cpu # 0
  <2>1. fige' = fige
    BY <1>3 DEF Evolue, Observable, Creation
  <2>2. /\ Memes /\ fige.nb_secondes = nb_secondes
        /\ fige.processus_crees = processus_crees
        /\ Vus = [fige.etat EXCEPT ![Sommet.local] =
                    IF Sommet.local < processus_crees
                    THEN "ACTIVABLE" ELSE @]
        /\ EstCaseLibre(fige.etat, processus_crees, Sommet.local)
    BY <1>1, <1>3 DEF Progres, Creation
  <2>3. Memes'
    BY <2>1, <2>2 DEF Memes
  <2>4. Progres'
    BY <1>3, <2>1, <2>2, <2>3
       DEF Progres, Repos, Creation, PcsOrdonnance
  <2>5. QED
    BY <2>1, <2>4, FigeMuet DEF Suivi
<1>4. QED
  BY <1>2, <1>3

LEMMA ContexteSuivi == PInv /\ Contexte /\ Evolue => Suivi
<1> SUFFICES ASSUME PInv, Contexte, Evolue
             PROVE  Suivi
  OBVIOUS
<1>1. /\ Structure /\ Pc = "cree4"
      /\ UNCHANGED <<etat, reveil_prevu, processus_crees, elu, actif, mie,
                     nb_interruptions, nb_secondes, cpu>>
  BY DEF PInv, Contexte, globales, indices, horloge, registres
<1>2. Structure' /\ Pc' = "cree5" /\ Sommet'.local = Sommet.local
  BY <1>1, ContexteStructure
<1>3. Vus' = Vus /\ Dates' = Dates
  BY <1>1, VusReste
<1>4. QED
  BY <1>1, <1>2, <1>3, CreeSuivi

LEMMA LitCompteSuivi == PInv /\ LitCompte /\ Evolue => Suivi
<1> SUFFICES ASSUME PInv, LitCompte, Evolue
             PROVE  Suivi
  OBVIOUS
<1>1. /\ Structure /\ Pc = "cree6"
      /\ UNCHANGED <<etat, reveil_prevu, processus_crees, elu, actif, mie,
                     nb_interruptions, nb_secondes, cpu>>
  BY DEF PInv, LitCompte, globales, indices, horloge, registres
<1>2. Structure' /\ Pc' = "cree7" /\ Sommet'.local = Sommet.local
  BY <1>1, LitCompteStructure
<1>3. Vus' = Vus /\ Dates' = Dates
  BY <1>1, VusReste
<1>4. QED
  BY <1>1, <1>2, <1>3, CreeSuivi

\* What a creation has done of the process that makes it.
LEMMA CreateurFige ==
  ASSUME PInv, Pc \in {"cree5", "cree7"}
  PROVE  /\ Memes /\ fige.nb_secondes = nb_secondes
         /\ fige.processus_crees = processus_crees
         /\ fige.mie = mie /\ fige.reprise = Reprise
         /\ Reprise[actif] = "code" /\ actif \in Cases
<1>1. /\ Structure /\ Progres /\ P!IInv /\ mie \in BOOLEAN
      /\ actif = cpu /\ actif \in Cases
  BY CreationCourante, AutreCourant
     DEF PInv, PcsCree, Creation, Structure, Types
<1>2. CASE cpu = 0
  <2>1. fige = Cliche
    BY <1>1, <1>2 DEF Progres, Repos, Creation
  <2>2. Reprise[actif] = "code"
    BY <1>1, <1>2 DEF Reprise, IdleTrappe, PcsOrdonnance
  <2>3. Memes /\ fige.nb_secondes = nb_secondes
        /\ fige.processus_crees = processus_crees
        /\ fige.mie = mie /\ fige.reprise = Reprise
    BY <1>1, <2>1, ClicheVaut DEF Memes, ClicheJuste
  <2>4. QED
    BY <1>1, <2>2, <2>3
<1>3. CASE cpu # 0
  <2>1. Memes /\ fige.nb_secondes = nb_secondes
        /\ fige.processus_crees = processus_crees
    BY <1>1, <1>3 DEF Progres
  <2>2. fige.actif # 0
    BY <1>1, <1>3, <2>1 DEF Memes
  <2>3. /\ fige.reprise \in [Cases -> {"code", "traitant"}]
        /\ \A i \in Cases \ {0} : fige.reprise[i] = "code"
        /\ fige.reprise[0] = "traitant"
    BY <1>1, <2>2, FigeSain
  <2>4. Reprise = [i \in Cases |-> IF i = 0 THEN "traitant" ELSE "code"]
    BY <1>3 DEF Reprise, IdleTrappe
  <2>5. fige.reprise = Reprise
    BY <2>3, <2>4
  <2>6. fige.mie = mie
    <3>1. ~fige.mie /\ fige.mie \in BOOLEAN
      BY <1>1, <2>2, FigeSain DEF P!IInv, P!TypeOK
    <3>2. ~mie
      BY <1>1, <1>3 DEF Structure, Courant
    <3>3. QED
      BY <1>1, <3>1, <3>2
  <2>7. QED
    BY <1>1, <1>3, <2>1, <2>4, <2>5, <2>6
<1>4. QED
  BY <1>2, <1>3

\* The last assignment of cree_processus makes the new process visible.
LEMMA CreationFinie ==
  ASSUME PInv, Structure', Evolue, Pc \in {"cree5", "cree7"},
         Pc' \in {"code", "cree8"},
         UNCHANGED <<elu, actif, mie, nb_interruptions, nb_secondes, cpu>>,
         NEW c \in 1 .. processus_crees, c \in Cases,
         processus_crees < NB_PROCESSUS_MAX,
         EstCaseLibre(fige.etat, processus_crees, c),
         Vus' = [fige.etat EXCEPT ![c] = "ACTIVABLE"],
         Dates' = [Dates EXCEPT ![c] = 0],
         processus_crees' = NouveauCompte(processus_crees, c)
  PROVE  Suivi
<1>1. fige' = Cliche' /\ Repos' /\ Pc' # "cree3"
  BY DEF Evolue, Observable, Repos, Structure
<1>2. Progres'
  BY <1>1, ReposSuit
<1>3. /\ Memes /\ fige.nb_secondes = nb_secondes
      /\ fige.processus_crees = processus_crees
      /\ fige.mie = mie /\ fige.reprise = Reprise
      /\ Reprise[actif] = "code" /\ actif \in Cases
  BY CreateurFige
<1>4. /\ fige'.etat = Vus' /\ fige'.reveil_prevu = Dates'
      /\ fige'.processus_crees = processus_crees'
      /\ fige'.elu = elu /\ fige'.actif = actif /\ fige'.mie = mie
      /\ fige'.nb_interruptions = nb_interruptions
      /\ fige'.nb_secondes = nb_secondes
      /\ fige'.reprise = Reprise'
  BY <1>1, ClicheSuit DEF ClicheJuste
<1>5. Reprise' = [Reprise EXCEPT ![c] = "code"]
  <2>1. Reprise' = Reprise
    BY DEF Reprise, IdleTrappe, PcsOrdonnance
  <2>2. Reprise[c] = "code"
    <3>1. processus_crees \in Int /\ c # 0
      BY DEF PInv, Structure, Types
    <3>2. QED
      BY <3>1 DEF Reprise
  <2>3. QED
    BY <2>1, <2>2 DEF Reprise
<1>6. P!EnCode /\ ~P!TablePleine(fige.processus_crees)
  <2>1. P!EnCode
    BY <1>3 DEF P!EnCode, Memes
  <2>2. processus_crees \in Int
    BY DEF PInv, Structure, Types
  <2>3. QED
    BY <1>3, <2>1, <2>2 DEF P!TablePleine
<1>7. P!EstCaseLibre(fige.etat, fige.processus_crees, c)
  BY <1>3 DEF P!EstCaseLibre, EstCaseLibre
<1>8. fige'.processus_crees = P!NouveauCompte(fige.processus_crees, c)
  BY <1>3, <1>4 DEF P!NouveauCompte, NouveauCompte
<1>9. P!CreeProcessus(c)
  <2>1. fige'.mie = fige.mie
    BY <1>3, <1>4
  <2>2. /\ fige'.reprise = [fige.reprise EXCEPT ![c] = "code"]
        /\ fige'.reveil_prevu = [fige.reveil_prevu EXCEPT ![c] = 0]
        /\ fige'.etat = [fige.etat EXCEPT ![c] = "ACTIVABLE"]
    BY <1>3, <1>4, <1>5 DEF Memes
  <2>3. UNCHANGED <<fige.elu, fige.actif, fige.nb_interruptions,
                    fige.nb_secondes>>
    BY <1>3, <1>4 DEF Memes
  <2>4. QED
    BY <1>6, <1>7, <1>8, <2>1, <2>2, <2>3 DEF P!CreeProcessus
<1>10. P!Next
  BY <1>3, <1>9 DEF P!Next
<1>11. QED
  BY <1>2, <1>10 DEF Suivi

LEMMA DateSuivi == PInv /\ Date /\ Evolue => Suivi
<1> SUFFICES ASSUME PInv, Date, Evolue
             PROVE  Suivi
  OBVIOUS
<1> DEFINE c == Sommet.local
<1>1. /\ Structure /\ Progres /\ Types /\ Pc = "cree5"
      /\ reveil_prevu' = [reveil_prevu EXCEPT ![c] = 0]
      /\ UNCHANGED <<etat, processus_crees, elu, actif, mie,
                     nb_interruptions, nb_secondes, cpu>>
  BY DEF PInv, Structure, Date, indices, horloge, registres
<1>2. /\ Structure'
      /\ Pc' = IF c = processus_crees THEN "cree6" ELSE "code"
      /\ Pc' = "cree6" => Sommet'.local = processus_crees
      /\ Pc' = "code" => cpu # 0
  BY <1>1, DateStructure
<1>3. /\ c \in Cases /\ c \in 1 .. processus_crees
      /\ processus_crees < NB_PROCESSUS_MAX
      /\ etat[c] = "ACTIVABLE"
  BY <1>1, CreationCourante DEF CreationEnCours, PcsCree, Creation, Pc
<1>4. processus_crees \in Int /\ c \in Int
      /\ reveil_prevu \in [Cases -> Nat]
  BY <1>1, <1>3 DEF Types
<1>5. Vus' = Vus
  BY <1>1 DEF Vus
<1>6. CASE c = processus_crees
  <2>1. Dates' = Dates
    BY <1>1, <1>3, <1>4, <1>6 DEF Dates
  <2>2. QED
    BY <1>1, <1>2, <1>5, <1>6, <2>1, CreeSuivi
<1>7. CASE c # processus_crees
  <2>1. c < processus_crees
    BY <1>3, <1>4, <1>7
  <2>2. Dates' = [Dates EXCEPT ![c] = 0]
    BY <1>1, <1>3, <1>4, <2>1 DEF Dates
  <2>3. cpu # 0 /\ Pc' = "code"
    BY <1>2, <1>7
  <2>4. /\ Vus = [fige.etat EXCEPT ![c] = "ACTIVABLE"]
        /\ EstCaseLibre(fige.etat, processus_crees, c)
    BY <1>1, <2>1, <2>3 DEF Progres, Creation
  <2>5. processus_crees' = NouveauCompte(processus_crees, c)
    BY <1>1, <1>7 DEF NouveauCompte
  <2> HIDE DEF c
  <2>6. QED
    BY <1>1, <1>2, <1>3, <1>5, <2>2, <2>3, <2>4, <2>5, CreationFinie
<1>8. QED
  BY <1>6, <1>7

LEMMA EcritCompteSuivi == PInv /\ EcritCompte /\ Evolue => Suivi
<1> SUFFICES ASSUME PInv, EcritCompte, Evolue
             PROVE  Suivi
  OBVIOUS
<1> DEFINE n == processus_crees
<1>1. /\ Structure /\ Progres /\ Types /\ Pc = "cree7"
      /\ UNCHANGED <<etat, reveil_prevu, elu, actif, mie,
                     nb_interruptions, nb_secondes, cpu>>
  BY DEF PInv, Structure, EcritCompte, indices, horloge, registres
<1>2. /\ Structure' /\ Pc' = "cree8"
      /\ n \in Cases /\ processus_crees' = n + 1 /\ Sommet.local = n
      /\ etat[n] = "ACTIVABLE" /\ reveil_prevu[n] = 0
  BY <1>1, EcritCompteStructure
<1>3. /\ n < NB_PROCESSUS_MAX /\ n \in Nat \ {0} /\ n \in 1 .. n
      /\ reveil_prevu \in [Cases -> Nat] /\ etat \in [Cases -> Etats]
  BY <1>1, <1>2 DEF Types, Cases
<1>4. fige.etat = Vus /\ EstCaseLibre(Vus, n, n)
  <2>1. CASE cpu = 0
    <3>1. fige.etat = Vus
      BY <1>1, <2>1, ClicheVaut DEF Progres, Repos, Creation, ClicheJuste
    <3>2. Lancement
      BY <1>1, <2>1, CreationCourante DEF PcsCree, Creation
    <3>3. \A k \in 1 .. n - 1 : Vus[k] # "MORT"
      BY <1>1, <1>3, <3>2
         DEF Structure, Vivants, Vus, Crees, Cases
    <3>4. QED
      BY <3>1, <3>3 DEF EstCaseLibre
  <2>2. CASE cpu # 0
    <3>1. /\ Vus = [fige.etat EXCEPT ![n] = @]
          /\ EstCaseLibre(fige.etat, n, n)
      BY <1>1, <1>2, <1>3, <2>2 DEF Progres, Creation
    <3>2. fige.etat \in [Cases -> Etats]
      BY FigeSain DEF PInv
    <3>3. fige.etat = Vus
      BY <3>1, <3>2
    <3>4. QED
      BY <3>1, <3>3
  <2>3. QED
    BY <2>1, <2>2
<1>5. /\ Vus' = [Vus EXCEPT ![n] = "ACTIVABLE"]
      /\ Dates' = [Dates EXCEPT ![n] = 0]
  <2>1. \A i \in Cases : i < n + 1 <=> i < n \/ i = n
    BY <1>3 DEF Cases
  <2>2. QED
    BY <1>1, <1>2, <1>3, <2>1 DEF Vus, Dates
<1>6. processus_crees' = NouveauCompte(n, n)
  BY <1>2 DEF NouveauCompte
<1>7. QED
  BY <1>1, <1>2, <1>3, <1>4, <1>5, <1>6, CreationFinie

-----------------------------------------------------------------------------
(* The invariant.                                                          *)

LEMMA InitPInv == Init => PInv /\ P!Init
<1> SUFFICES ASSUME Init
             PROVE  PInv /\ P!Init
  OBVIOUS
<1>1. Structure
  BY InitStructure
<1>2. /\ processus_crees = 1 /\ 0 \in Cases /\ cpu = 0 /\ Pc = "code"
      /\ fige = Cliche
  <2>1. 0 \in Cases
    BY DEF Cases
  <2>2. pile[0] = <<Code>> /\ cpu = 0
    BY <2>1 DEF Init, Code
  <2>3. Pc = "code"
    BY <2>2, PileCode DEF Pc, Sommet
  <2>4. QED
    BY <2>1, <2>2, <2>3 DEF Init
<1>3. /\ Vus = [i \in Cases |-> "ELU"] /\ Dates = [i \in Cases |-> 0]
      /\ Reprise = [i \in Cases |-> "code"]
  BY <1>2 DEF Init, Vus, Dates, Reprise, IdleTrappe, PcsOrdonnance
<1>4. /\ fige.etat = Vus /\ fige.reveil_prevu = Dates
      /\ fige.processus_crees = 1 /\ fige.elu = 0 /\ fige.actif = 0
      /\ fige.nb_interruptions = 0 /\ fige.nb_secondes = 0
      /\ fige.reprise = Reprise
  <2>1. elu = 0 /\ actif = 0 /\ nb_interruptions = 0 /\ nb_secondes = 0
    BY DEF Init
  <2>2. QED
    BY <1>1, <1>2, <2>1, ClicheVaut DEF ClicheJuste
<1>5. fige.mie = TRUE
  <2>1. fige.mie = mie
    BY <1>1, <1>2, ClicheVaut DEF ClicheJuste
  <2>2. mie = TRUE
    BY DEF Init
  <2>3. QED
    BY <2>1, <2>2
<1>6. P!Init
  BY <1>3, <1>4, <1>5 DEF P!Init, P!Cases, Cases
<1>7. P!IInv
  BY <1>6, P!InitIInv
<1>8. Progres
  BY <1>2, <1>4 DEF Progres, Creation, PcsOrdonnance
<1>9. QED
  BY <1>1, <1>6, <1>7, <1>8 DEF PInv

\* One step per action of the kernel.
LEMMA PasSuivi == PInv /\ Pas /\ ~Preemptif /\ Evolue => Suivi
<1> SUFFICES ASSUME PInv, Pas, ~Preemptif, Evolue
             PROVE  Suivi
  OBVIOUS
<1>1. CASE Trappe \/ Compte \/ Seconde \/ Mret
  BY <1>1, TrappeSuivi, CompteSuivi, SecondeSuivi, MretSuivi
<1>2. CASE (\E n \in Durees : AppelDors(n)) \/ Endort \/ Programme
  BY <1>2, AppelDorsSuivi, EndortSuivi, ProgrammeSuivi
<1>3. CASE Reveils \/ Cherche \/ Rend \/ EluNouveau \/ Active
  BY <1>3, ReveilsSuivi, ChercheSuivi, RendSuivi, EluNouveauSuivi,
     ActiveSuivi
<1>4. CASE Sauve \/ ChargeMepc \/ Bascule \/ Retour
  BY <1>4, SauveSuivi, ChargeMepcSuivi, BasculeSuivi, RetourSuivi
<1>5. CASE AppelFin \/ Meurt
  BY <1>5, AppelFinSuivi, MeurtSuivi
<1>6. CASE AppelCree \/ Teste \/ Trouve \/ Prepare \/ Contexte \/ Date
  BY <1>6, AppelCreeSuivi, TesteSuivi, TrouveSuivi, PrepareSuivi,
     ContexteSuivi, DateSuivi
<1>7. CASE LitCompte \/ EcritCompte \/ RetourCree
  BY <1>7, LitCompteSuivi, EcritCompteSuivi, RetourCreeSuivi
<1>8. CASE EnableIt
  BY <1>8, EnableItSuivi
<1>9. QED
  BY <1>1, <1>2, <1>3, <1>4, <1>5, <1>6, <1>7, <1>8 DEF Pas

LEMMA NextPInv ==
  ASSUME ~Preemptif
  PROVE  PInv /\ [Next]_vars => PInv' /\ [P!Next]_(P!vars)
<1> SUFFICES ASSUME PInv, [Next]_vars
             PROVE  PInv' /\ [P!Next]_(P!vars)
  OBVIOUS
<1>1. Suivi
  <2>1. CASE Next
    BY <2>1, PasSuivi DEF Next, Evolue
  <2>2. CASE UNCHANGED vars
    BY <2>2, NeutreSuivi DEF vars
  <2>3. QED
    BY <2>1, <2>2
<1>2. P!IInv'
  BY <1>1, P!NextIInv DEF Suivi, PInv
<1>3. QED
  BY <1>1, <1>2 DEF Suivi, PInv

LEMMA PInvariance ==
  ASSUME ~Preemptif
  PROVE  Spec => []PInv
<1>1. Init => PInv
  BY InitPInv
<1>2. PInv /\ [Next]_vars => PInv'
  BY NextPInv
<1>3. QED
  BY <1>1, <1>2, PTL DEF Spec

\* A whole call of OrdonnanceurPreuves is one of Ordonnanceur.
LEMMA MemeAppel == [P!Next]_(P!vars) => [O!Next]_(O!vars)
  BY DEF P!Next, P!Interruption, P!FinTraitant, P!Dors, P!FinProcessus,
         P!CreationRefusee, P!CreeProcessus, P!Ordonnance, P!Echu, P!CtxSw,
         P!Horloge, P!Mret, P!EnCode, P!vars, P!Reveille, P!EstSuivant,
         P!Elit, P!EstCaseLibre, P!TablePleine, P!NouveauCompte, P!Cases,
         P!Crees,
         O!Next, O!Interruption, O!FinTraitant, O!Dors, O!FinProcessus,
         O!CreationRefusee, O!CreeProcessus, O!Ordonnance, O!Echu, O!CtxSw,
         O!Horloge, O!Mret, O!EnCode, O!vars, O!Reveille, O!EstSuivant,
         O!Elit, O!EstCaseLibre, O!TablePleine, O!NouveauCompte, O!Cases,
         O!Crees

-----------------------------------------------------------------------------
(* The theorems, about the programs of start.c as they stand.              *)

\* The steps of dors, fin_processus, cree_processus, ordonnance, ctx_sw and
\* the trap never interleave: seen from outside the kernel's code, each call
\* is one action of Ordonnanceur.
THEOREM AppelsAtomiquesTheoreme ==
  ASSUME ~Preemptif
  PROVE  Spec => AppelsAtomiques
<1>1. PInv /\ [Next]_vars => [O!Next]_(O!vars)
  BY NextPInv, MemeAppel
<1>2. QED
  BY <1>1, PInvariance, PTL DEF Spec, AppelsAtomiques

\* The kernel with its traps, stacks and contexts, seen from outside its own
\* code, is the process manager that OrdonnanceurPreuves is about, and so the
\* round-robin scheduler that this one implements.
THEOREM AppelsSuivis ==
  ASSUME ~Preemptif
  PROVE  Spec => P!Spec /\ P!TourniquetSpec
<1>1. Init => P!Init
  BY InitPInv
<1>2. PInv /\ [Next]_vars => [P!Next]_(P!vars)
  BY NextPInv
<1>3. Spec => P!Spec
  BY <1>1, <1>2, PInvariance, PTL DEF Spec, P!Spec
<1>4. P!Spec => P!TourniquetSpec
  BY P!TourniquetTheoreme
<1>5. QED
  BY <1>3, <1>4, PTL

\* What is proved of the process manager call by call holds of the kernel
\* that runs it step by step: one process elected, interrupts open in idle
\* alone, no process back before its deadline, none overdue for more than an
\* interrupt, the clock exact, and no deadline changed but by its owner.
THEOREM AppelsSurs ==
  ASSUME ~Preemptif
  PROVE  Spec => /\ []P!UnSeulElu /\ []P!SectionMasquee
                 /\ []P!ReveilRespecte /\ []P!RetardDUnTickAuPlus
                 /\ []P!HorlogeExacte /\ P!SommeilIntact
<1>1. Spec => P!Spec
  BY AppelsSuivis, PTL
<1>2. /\ P!Spec => []P!UnSeulElu
      /\ P!Spec => []P!SectionMasquee
      /\ P!Spec => []P!ReveilRespecte
      /\ P!Spec => []P!RetardDUnTickAuPlus
      /\ P!Spec => []P!HorlogeExacte
      /\ P!Spec => P!SommeilIntact
  BY P!UnSeulEluTheoreme, P!SectionMasqueeTheoreme,
     P!ReveilRespecteTheoreme, P!RetardTheoreme, P!HorlogeTheoreme,
     P!SommeilIntactTheoreme, PTL
<1>3. QED
  BY <1>1, <1>2, PTL

\* mret always finds in mepc the place its own trap came from, and ctx_sw
\* always saves the registers of the process that calls it.
THEOREM ContextesFidelesTheoreme ==
  ASSUME ~Preemptif
  PROVE  Spec => []ContextesFideles
<1>1. PInv => ContextesFideles
  BY DEF PInv, Structure, ContextesFideles
<1>2. QED
  BY <1>1, PInvariance, PTL

\* When dors returns to a process, its deadline is behind it.
THEOREM SommeilCompletTheoreme ==
  ASSUME ~Preemptif
  PROVE  Spec => []SommeilComplet
<1>1. PInv => SommeilComplet
  <2>1. SUFFICES ASSUME PInv, cpu # 0, Pc = "code"
                 PROVE  reveil_prevu[cpu] <= nb_secondes
    BY DEF SommeilComplet
  <2>2. fige = Cliche /\ actif = cpu /\ cpu \in Cases /\ cpu < processus_crees
    BY <2>1, AutreCourant
       DEF PInv, Progres, Repos, Structure, Types, Crees
  <2>3. /\ fige.actif = actif /\ fige.etat = Vus
        /\ fige.reveil_prevu = Dates /\ fige.nb_secondes = nb_secondes
        /\ fige.processus_crees = processus_crees
    BY <2>1, <2>2, ClicheVaut DEF ClicheJuste, PInv
  <2>4. fige.reveil_prevu[actif] <= fige.nb_secondes
    BY <2>1, <2>3, FigeSain DEF PInv, P!IInv, P!ReveilRespecte, P!Crees,
                                Crees
  <2>5. QED
    BY <2>2, <2>3, <2>4 DEF Dates
<1>2. QED
  BY <1>1, PInvariance, PTL

\* The count of interrupts is within the second in progress, or completes it.
LEMMA SecondeEnCours ==
  ASSUME PInv
  PROVE  IT_FREQ * nb_secondes <= nb_interruptions
           /\ nb_interruptions <= IT_FREQ * (nb_secondes + 1)
<1> DEFINE n == nb_interruptions
           s == nb_secondes
           nf == fige.nb_interruptions
           sf == fige.nb_secondes
<1>1. n \in Nat /\ s \in Nat /\ nf \in Nat /\ sf \in Nat
  BY FigeSain DEF PInv, Structure, Types
<1>2. /\ fige.mie => IT_FREQ * sf <= nf /\ nf < IT_FREQ * (sf + 1)
      /\ ~fige.mie => IT_FREQ * sf < nf /\ nf <= IT_FREQ * (sf + 1)
  BY DEF PInv, P!IInv, P!HorlogeEncadree
<1>3. /\ IT_FREQ * (sf + 1) = IT_FREQ * sf + IT_FREQ
      /\ IT_FREQ * sf \in Nat
      /\ IT_FREQ * (sf + 2) = IT_FREQ * sf + IT_FREQ + IT_FREQ
  BY <1>1
<1> HIDE DEF n, s, nf, sf
<1>4. CASE n = nf /\ s = sf
  <2>1. fige.mie \/ ~fige.mie
    OBVIOUS
  <2>2. IT_FREQ * sf <= nf /\ nf <= IT_FREQ * (sf + 1)
    BY <1>1, <1>2, <1>3
  <2>3. QED
    BY <1>4, <2>2 DEF n, s
<1>5. CASE fige.mie /\ n = nf + 1 /\ s = sf
  <2>1. IT_FREQ * sf <= n /\ n <= IT_FREQ * (sf + 1)
    BY <1>1, <1>2, <1>3, <1>5
  <2>2. QED
    BY <1>5, <2>1 DEF n, s
<1>6. CASE ~fige.mie /\ n = nf /\ s = P!Horloge(nf, sf)
  <2>1. CASE nf % IT_FREQ = 0
    <3>1. nf = IT_FREQ * (sf + 1)
      BY <1>1, <1>2, <1>6, <2>1, P!SecondeComplete
    <3>2. s = sf + 1
      BY <1>6, <2>1 DEF P!Horloge
    <3>3. IT_FREQ * s <= n /\ n <= IT_FREQ * (s + 1)
      BY <1>1, <1>3, <1>6, <3>1, <3>2
    <3>4. QED
      BY <3>3 DEF n, s
  <2>2. CASE nf % IT_FREQ # 0
    <3>1. s = sf
      BY <1>6, <2>2 DEF P!Horloge
    <3>2. QED
      BY <1>4, <1>6, <3>1
  <2>3. QED
    BY <2>1, <2>2
<1>7. CASE Repos
  <2>1. fige = Cliche
    BY <1>7 DEF PInv, Progres
  <2>2. n = nf /\ s = sf
    BY <2>1, ClicheVaut DEF ClicheJuste, PInv, n, s, nf, sf
  <2>3. QED
    BY <1>4, <2>2
<1>8. CASE Pc = "traitant1" \/ Pc = "dors2"
             \/ (cpu # 0 /\ Pc \in {"cree4", "cree5", "cree6", "cree7"})
  BY <1>4, <1>8 DEF PInv, Progres, Memes, n, s, nf, sf
<1>9. CASE Pc = "mret"
  <2>1. /\ n = nf /\ s = P!Horloge(nf, sf) /\ fige.actif = actif
        /\ fige.reprise[0] = "traitant"
    BY <1>9 DEF PInv, Progres, Memes, n, s, nf, sf
  <2>2. ~fige.mie
    BY <2>1, FigeSain DEF PInv
  <2>3. QED
    BY <1>6, <2>1, <2>2
<1>10. CASE Pc \in PcsOrdonnance
  <2>1. PICK e \in [Cases -> Etats] : Appel(e)
    BY <1>10 DEF PInv, Progres, EnOrdonnance
  <2>2. s = sf /\ (n = nf \/ (fige.mie /\ n = nf + 1))
    BY <2>1
       DEF Appel, AppelInterruption, AppelSommeil, AppelMort, n, s, nf, sf
  <2>3. QED
    BY <1>4, <1>5, <2>2
<1>11. QED
  <2>1. Pc \in Pcs \ {"nulle"}
    BY DEF PInv, Structure, Courant
  <2>2. QED
    BY <1>7, <1>8, <1>9, <1>10, <2>1
       DEF Pcs, Repos, PcsTrappe, PcsCree, Creation

\* nb_secondes counts the full seconds of interrupts, the one that is being
\* completed included or not.
THEOREM HorlogeJusteTheoreme ==
  ASSUME ~Preemptif
  PROVE  Spec => []HorlogeJuste
<1>1. PInv => HorlogeJuste
  <2>1. SUFFICES ASSUME PInv
                 PROVE  nb_secondes \in
                          {nb_interruptions \div IT_FREQ,
                           nb_interruptions \div IT_FREQ - 1}
    BY DEF HorlogeJuste
  <2> DEFINE n == nb_interruptions
             s == nb_secondes
             r == n - IT_FREQ * s
  <2>2. n \in Nat /\ s \in Nat
    BY <2>1 DEF PInv, Structure, Types
  <2>3. /\ IT_FREQ * s <= n /\ n <= IT_FREQ * (s + 1)
        /\ IT_FREQ * (s + 1) = IT_FREQ * s + IT_FREQ
        /\ IT_FREQ * s \in Nat
    BY <2>1, <2>2, SecondeEnCours
  <2> HIDE DEF n, s
  <2>4. CASE n = IT_FREQ * (s + 1)
    <3>1. n = IT_FREQ * (s + 1) + 0 /\ s + 1 \in Nat /\ 0 \in 0 .. IT_FREQ - 1
      BY <2>2, <2>4
    <3>2. n \div IT_FREQ = s + 1
      BY <2>2, <3>1, P!DivisionUnique
    <3>3. QED
      BY <2>2, <3>2 DEF n, s
  <2>5. CASE n # IT_FREQ * (s + 1)
    <3>1. r \in 0 .. IT_FREQ - 1 /\ n = IT_FREQ * s + r
      BY <2>2, <2>3, <2>5
    <3> HIDE DEF r
    <3>2. n \div IT_FREQ = s
      BY <2>2, <3>1, P!DivisionUnique
    <3>3. QED
      BY <3>2 DEF n, s
  <2>6. QED
    BY <2>4, <2>5
<1>2. QED
  BY <1>1, PInvariance, PTL

-----------------------------------------------------------------------------
(* The stacks.                                                             *)

SansTrappe(s) == \A k \in DOMAIN s : s[k].pc \notin PcsTrappe
UneTrappe(s) ==
  \A j, k \in DOMAIN s : s[j].pc \in PcsTrappe /\ s[k].pc \in PcsTrappe => j = k

LEMMA TrappeSurPile ==
  ASSUME NEW s \in Seq(Cadres), s # <<>>
  PROVE  /\ SansTrappe(Front(s)) => UneTrappe(s)
         /\ SansTrappe(Front(s)) /\ Last(s).pc \notin PcsTrappe =>
              SansTrappe(s)
         /\ UneTrappe(Front(s)) /\ Last(s).pc \notin PcsTrappe =>
              UneTrappe(s)
         /\ SansTrappe(s) => UneTrappe(s)
<1> DEFINE t == Front(s)
<1>1. /\ t \in Seq(Cadres) /\ Len(t) = Len(s) - 1
      /\ \A k \in 1 .. Len(s) - 1 : t[k] = s[k]
  BY Depilee
<1>2. /\ DOMAIN s = 1 .. Len(s) /\ Len(s) \in Nat \ {0}
      /\ Last(s) = s[Len(s)]
  BY EmptySeq DEF Last
<1>3. DOMAIN t = 1 .. Len(s) - 1
  BY <1>1
<1> HIDE DEF t
<1>4. \A k \in DOMAIN s : k \in DOMAIN t \/ k = Len(s)
  BY <1>2, <1>3
<1>5. QED
  BY <1>1, <1>2, <1>3, <1>4 DEF SansTrappe, UneTrappe, t

Seule(s) == s = <<Code>> \/ s = <<Nul>>

LEMMA CodeSansTrappe ==
  ASSUME NEW s, Seule(s)
  PROVE  SansTrappe(s) /\ Len(s) = 1
<1>1. CASE s = <<Code>>
  BY <1>1 DEF SansTrappe, Code, Cadre, PcsTrappe
<1>2. CASE s = <<Nul>>
  BY <1>2 DEF SansTrappe, Nul, Cadre, PcsTrappe
<1>3. QED
  BY <1>1, <1>2 DEF Seule

\* Idle is at most twice above its code when it is interrupted, then in
\* trap_handler and in ordonnance; the others are at most once above theirs.
THEOREM PilesBorneesTheoreme ==
  ASSUME ~Preemptif
  PROVE  Spec => []PilesBornees
<1>1. PInv => PilesBornees
  <2>1. SUFFICES ASSUME PInv, NEW i \in Cases
                 PROVE  Len(pile[i]) <= 4 /\ UneTrappe(pile[i])
    BY DEF PilesBornees, UneTrappe, PcsTrappe
  <2>2. Structure /\ Types
    BY <2>1 DEF PInv, Structure
  <2>3. /\ Front(pile[i]) \in Seq(Cadres)
        /\ pile[i] \in Seq(Cadres) /\ pile[i] # <<>>
        /\ Len(Front(pile[i])) = Len(pile[i]) - 1 /\ Len(pile[i]) \in Nat
    <3>1. pile[i] \in Seq(Cadres) /\ pile[i] # <<>>
      BY <2>2, SommetType
    <3>2. QED
      BY <3>1, Depilee
  <2>4. CASE i # 0
    <3>1. Seule(pile[i]) \/ Seule(Front(pile[i]))
      BY <2>1, <2>2, <2>4 DEF Structure, Courant, Suspendus, Seule
    <3>2. Len(pile[i]) = 1 \/ Len(Front(pile[i])) = 1
      BY <3>1, CodeSansTrappe, Zenon
    <3>5. Len(pile[i]) <= 2
      BY <2>3, <3>2
    <3>3. UneTrappe(pile[i])
      <4>1. SansTrappe(pile[i]) \/ SansTrappe(Front(pile[i]))
        BY <3>1, CodeSansTrappe
      <4>2. QED
        BY <2>3, <4>1, TrappeSurPile
    <3>4. QED
      BY <2>3, <3>5, <3>3
  <2>5. CASE i = 0
    <3>1. Sol \in Seq(Cadres) /\ Sol # <<>> /\ Len(Sol) \in Nat
      BY <2>2, SolType DEF Structure
    <3>2. \/ Seule(Sol)
          \/ Seule(Front(Sol)) /\ Last(Sol).pc \in PcsCree
      BY <2>2 DEF Structure, Idle, CreationIdle, Seule
    <3>3. Len(Sol) <= 2
      <4> DEFINE n == Len(Sol)
                 m == Len(Front(Sol))
      <4>1. m = n - 1 /\ n \in Nat
        BY <3>1, Depilee
      <4>2. n = 1 \/ m = 1
        BY <3>2, CodeSansTrappe, Zenon
      <4> HIDE DEF n, m
      <4>3. n <= 2
        BY <4>1, <4>2
      <4>4. QED
        BY <4>3 DEF n
    <3>4. SansTrappe(Sol)
      BY <3>1, <3>2, CodeSansTrappe, TrappeSurPile
         DEF PcsCree, PcsTrappe, Creation
    <3>5. CASE IdleTrappe
      <4> DEFINE t == Front(pile[0])
      <4>1. t \in Seq(Cadres) /\ t # <<>> /\ Front(t) = Sol
        BY <2>2, <2>3, <2>5, <3>5 DEF Structure, Idle, Sol
      <4>2. Last(pile[0]).pc \notin PcsTrappe
        BY <2>2, <3>5
           DEF Structure, Idle, IdleTrappe, Pc, Sommet, PcsTrappe,
               PcsOrdonnance
      <4>3. Len(t) = Len(pile[0]) - 1
        BY <2>3, <2>5
      <4> HIDE DEF t
      <4>4. Len(Sol) = Len(t) - 1 /\ Len(t) \in Nat
        BY <4>1, Depilee
      <4>5. UneTrappe(t)
        BY <3>4, <4>1, TrappeSurPile
      <4>6. UneTrappe(pile[0])
        BY <2>3, <2>5, <4>2, <4>5, TrappeSurPile DEF t
      <4>7. QED
        BY <2>3, <2>5, <3>1, <3>3, <4>3, <4>4, <4>6
    <3>6. CASE ~IdleTrappe /\ Pc \in PcsTrappe
      <4>1. Front(pile[0]) = Sol
        BY <3>6 DEF Sol
      <4>2. QED
        BY <2>3, <2>5, <3>1, <3>3, <3>4, <4>1, TrappeSurPile
    <3>7. CASE ~IdleTrappe /\ Pc \notin PcsTrappe
      <4>1. pile[0] = Sol
        BY <3>7 DEF Sol
      <4>2. QED
        BY <2>3, <2>5, <3>1, <3>3, <3>4, <4>1, TrappeSurPile
    <3>8. QED
      BY <3>5, <3>6, <3>7
  <2>6. QED
    BY <2>4, <2>5
<1>2. QED
  BY <1>1, PInvariance, PTL
=============================================================================
