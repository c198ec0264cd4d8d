----------------------------- MODULE Preemption ------------------------------
(***************************************************************************)
(* The kernel at the granularity of its accesses to shared state: dors,    *)
(* fin_processus, cree_processus, ordonnance, ctx_sw, the trap entry and   *)
(* trap_handler, each cut into the steps between which a timer interrupt   *)
(* may come.                                                               *)
(*                                                                         *)
(* It serves two purposes.  For the programs of start.c as they stand      *)
(* (Preemptif = FALSE) it shows that the kernel calls are atomic, which is *)
(* what module Ordonnanceur takes for granted.  For the first commented    *)
(* variant of start.c, whose processes call enable_it (Preemptif = TRUE),  *)
(* it shows what the same kernel then does.                                *)
(*                                                                         *)
(* kernel_start, running as idle with interrupts open, first creates       *)
(* Lances processes.  The processes of start.c end and create others only  *)
(* after several seconds of sleep, when this is long over; Lancement says  *)
(* so.  Each process has a stack of frames; the CPU executes the top frame *)
(* of the stack cpu.                                                       *)
(***************************************************************************)
EXTENDS Table, SequencesExt

CONSTANTS
  IT_FREQ,       \* timer interrupts per second (20 in timer.h)
  Durees,        \* the arguments that processes give to dors
  Lances,        \* the processes that kernel_start creates
  Preemptif      \* the processes call enable_it at their beginning

ASSUME FrequenceOK == IT_FREQ \in Nat \ {0}
ASSUME DureesOK == Durees \subseteq Nat
ASSUME ModeOK == Preemptif \in BOOLEAN
ASSUME LancesOK == Lances \in 0 .. NB_PROCESSUS_MAX - 1

VARIABLES
  etat, reveil_prevu,                                \* globals of processus.c
  processus_crees, elu, next_elu, actif, ancien,
  nb_interruptions, nb_secondes,                     \* globals of timer.c
  mie, mpie, mepc,                                   \* machine registers
  ctx_mepc,      \* ctx[17] of each process
  pile,          \* the stack of each process
  cpu,           \* the process whose stack is in use
  egare,         \* the CPU has left the code: a wrong mepc or a wrong context
  fige           \* the state as of the last moment outside the kernel's code

indices == <<elu, next_elu, actif, ancien>>
globales == <<etat, reveil_prevu, processus_crees, indices>>
horloge == <<nb_interruptions, nb_secondes>>
registres == <<mie, mpie, mepc, ctx_mepc>>

\* All of the state but the history variable fige.
reel == <<globales, horloge, registres, pile, cpu, egare>>
vars == <<reel, fige>>

-----------------------------------------------------------------------------
(* Frames.  pc is where the frame runs, or where it resumes; local is its  *)
(* only local variable that outlives a step.                               *)

Cadre(pc, local) == [pc |-> pc, local |-> local]

Sommet == Last(pile[cpu])
Pc == Sommet.pc

VaAvec(pc, local) ==
  pile' = [pile EXCEPT ![cpu] = Append(Front(@), Cadre(pc, local))]
Va(pc) == VaAvec(pc, Sommet.local)
Empile(cadre) == pile' = [pile EXCEPT ![cpu] = Append(@, cadre)]
Depile == pile' = [pile EXCEPT ![cpu] = Front(@)]

\* A place in the code of the interrupted context, what the trap puts in mepc.
Lieu == <<cpu, Len(pile[cpu]), Pc>>

\* ctx[17] of a process that has never run.
Nulle == <<0, 0, "nulle">>

DansTraitant(i) == \E k \in DOMAIN pile[i] : pile[i][k].pc = "traitant2"

\* The state as Ordonnanceur sees it: a slot that is being filled behind
\* processus_crees is still unused.
Cliche ==
  [etat |-> [i \in Cases |-> IF i < processus_crees THEN etat[i] ELSE "ELU"],
   reveil_prevu |->
     [i \in Cases |-> IF i < processus_crees THEN reveil_prevu[i] ELSE 0],
   processus_crees |-> processus_crees, elu |-> elu,
   actif |-> actif, mie |-> mie, nb_interruptions |-> nb_interruptions,
   nb_secondes |-> nb_secondes,
   reprise |-> [i \in Cases |-> IF DansTraitant(i) THEN "traitant"
                                ELSE "code"]]

\* Where a state of Ordonnanceur can be observed: outside the kernel's code,
\* between ordonnance and the clock in trap_handler, behind the last
\* assignment of cree_processus, and anywhere in the creations of idle, which
\* only fill new slots.
Creation == {"cree1", "cree2", "cree3", "cree4", "cree5", "cree6", "cree7"}
Observable ==
  \/ Pc \in {"code", "traitant2", "cree8"}
  \/ cpu = 0 /\ Pc \in Creation

Init ==
  /\ etat = [i \in Cases |-> "ELU"]
  /\ reveil_prevu = [i \in Cases |-> 0]
  /\ processus_crees = 1
  /\ elu = 0 /\ next_elu = 0 /\ actif = 0 /\ ancien = 0
  /\ nb_interruptions = 0 /\ nb_secondes = 0
  /\ mie = TRUE /\ mpie = TRUE /\ mepc = Nulle
  /\ ctx_mepc = [i \in Cases |-> Nulle]
  /\ pile = [i \in Cases |-> <<Cadre(IF i = 0 THEN "code" ELSE "nulle", 0)>>]
  /\ cpu = 0
  /\ egare = FALSE
  /\ fige = Cliche

-----------------------------------------------------------------------------
(* The trap.                                                               *)

\* Mutant: interrupts stay open in the handler.
TrappeOuverte ==
  /\ mie
  /\ mpie' = TRUE /\ mepc' = Lieu
  /\ Empile(Cadre("traitant1", Lieu))
  /\ UNCHANGED <<globales, horloge, mie, ctx_mepc, cpu, egare>>

\* The timer interrupt: the hardware masks, saves pc in mepc and jumps to
\* mon_traitant, which saves the registers on the stack in use.
Trappe ==
  /\ mie
  /\ mie' = FALSE /\ mpie' = TRUE /\ mepc' = Lieu
  /\ Empile(Cadre("traitant1", Lieu))
  /\ UNCHANGED <<globales, horloge, ctx_mepc, cpu, egare>>

\* trap_handler up to the call to ordonnance.
Compte ==
  /\ Pc = "traitant1"
  /\ nb_interruptions' = nb_interruptions + 1
  /\ pile' = [pile EXCEPT ![cpu] =
                Front(@) \o <<Cadre("traitant2", Sommet.local),
                              Cadre("reveil", 0)>>]
  /\ UNCHANGED <<globales, nb_secondes, registres, cpu, egare>>

\* Mutant: the clock is advanced one interrupt before the full second.
SecondeEnAvance ==
  /\ Pc = "traitant2"
  /\ nb_secondes' = IF (nb_interruptions + 1) % IT_FREQ = 0
                    THEN nb_secondes + 1 ELSE nb_secondes
  /\ Va("mret")
  /\ UNCHANGED <<globales, nb_interruptions, registres, cpu, egare>>

\* The clock, with the count of interrupts as it is now.
Seconde ==
  /\ Pc = "traitant2"
  /\ nb_secondes' = IF nb_interruptions % IT_FREQ = 0
                    THEN nb_secondes + 1 ELSE nb_secondes
  /\ Va("mret")
  /\ UNCHANGED <<globales, nb_interruptions, registres, cpu, egare>>

\* mret jumps to mepc, whatever the frame below is.
Mret ==
  /\ Pc = "mret"
  /\ mie' = mpie /\ mpie' = TRUE
  /\ egare' = (mepc # Sommet.local)
  /\ Depile
  /\ UNCHANGED <<globales, horloge, mepc, ctx_mepc, cpu>>

-----------------------------------------------------------------------------
(* dors.                                                                   *)

AppelDors(n) ==
  /\ Pc = "code" /\ actif # 0
  /\ Empile(Cadre("dors1", n))
  /\ UNCHANGED <<globales, horloge, registres, cpu, egare>>

Endort ==
  /\ Pc = "dors1"
  /\ etat' = [etat EXCEPT ![actif] = "ENDORMI"]
  /\ Va("dors2")
  /\ UNCHANGED <<reveil_prevu, processus_crees, indices, horloge, registres,
                 cpu, egare>>

\* The deadline; ordonnance is called next and dors returns with it.
Programme ==
  /\ Pc = "dors2"
  /\ reveil_prevu' =
       [reveil_prevu EXCEPT ![actif] = nb_secondes + Sommet.local]
  /\ Va("reveil")
  /\ UNCHANGED <<etat, processus_crees, indices, horloge, registres, cpu,
                 egare>>

-----------------------------------------------------------------------------
(* ordonnance.  Each of its two loops is one step.                         *)

Reveils ==
  /\ Pc = "reveil"
  /\ etat' = Reveille(etat, [i \in Cases |-> reveil_prevu[i] <= nb_secondes],
                      processus_crees)
  /\ Va("cherche")
  /\ UNCHANGED <<reveil_prevu, processus_crees, indices, horloge, registres,
                 cpu, egare>>

\* start, the local, is the elected slot when the search begins.
Cherche ==
  /\ Pc = "cherche"
  /\ \E t \in Cases :
       EstSuivant(etat, elu, processus_crees, t) /\ next_elu' = t
  /\ VaAvec("rend", elu)
  /\ UNCHANGED <<etat, reveil_prevu, processus_crees, elu, actif, ancien,
                 horloge, registres, cpu, egare>>

\* Mutant: the state of start is not tested.
RendSansTester ==
  /\ Pc = "rend"
  /\ \/ /\ etat[next_elu] # "ACTIVABLE"
        /\ Depile
        /\ UNCHANGED etat
     \/ /\ etat[next_elu] = "ACTIVABLE"
        /\ etat' = [etat EXCEPT ![Sommet.local] = "ACTIVABLE"]
        /\ Va("elit")
  /\ UNCHANGED <<reveil_prevu, processus_crees, indices, horloge, registres,
                 cpu, egare>>

\* The early return, or start gives the CPU back.
Rend ==
  /\ Pc = "rend"
  /\ \/ /\ etat[next_elu] # "ACTIVABLE"
        /\ Depile
        /\ UNCHANGED etat
     \/ /\ etat[next_elu] = "ACTIVABLE"
        /\ etat' = IF etat[Sommet.local] = "ELU"
                   THEN [etat EXCEPT ![Sommet.local] = "ACTIVABLE"] ELSE etat
        /\ Va("elit")
  /\ UNCHANGED <<reveil_prevu, processus_crees, indices, horloge, registres,
                 cpu, egare>>

\* Mutant: elu is not updated, so every search starts from the same slot.
EluAncien ==
  /\ Pc = "elit"
  /\ etat' = [etat EXCEPT ![next_elu] = "ELU"]
  /\ VaAvec("active", next_elu)
  /\ UNCHANGED <<reveil_prevu, processus_crees, indices, horloge, registres,
                 cpu, egare>>

\* p, the local from here on, is the address of the new elected slot.
EluNouveau ==
  /\ Pc = "elit"
  /\ elu' = next_elu
  /\ etat' = [etat EXCEPT ![next_elu] = "ELU"]
  /\ VaAvec("active", next_elu)
  /\ UNCHANGED <<reveil_prevu, processus_crees, next_elu, actif, ancien,
                 horloge, registres, cpu, egare>>

\* Mutant: ancien keeps the process of an earlier switch.
ActiveSansAncien ==
  /\ Pc = "active"
  /\ actif' = Sommet.local
  /\ Va("sauve")
  /\ UNCHANGED <<etat, reveil_prevu, processus_crees, elu, next_elu, ancien,
                 horloge, registres, cpu, egare>>

Active ==
  /\ Pc = "active"
  /\ ancien' = actif
  /\ actif' = Sommet.local
  /\ Va("sauve")
  /\ UNCHANGED <<etat, reveil_prevu, processus_crees, elu, next_elu, horloge,
                 registres, cpu, egare>>

\* ctx_sw, first half: the registers go to ctx of ancien, which had better
\* be the process whose stack is in use.
Sauve ==
  /\ Pc = "sauve"
  /\ ctx_mepc' = [ctx_mepc EXCEPT ![ancien] = mepc]
  /\ egare' = (ancien # cpu)
  /\ VaAvec("charge", actif)
  /\ UNCHANGED <<globales, horloge, mie, mpie, mepc, cpu>>

ChargeMepc ==
  /\ Pc = "charge"
  /\ mepc' = ctx_mepc[Sommet.local]
  /\ Va("bascule")
  /\ UNCHANGED <<globales, horloge, mie, mpie, ctx_mepc, cpu, egare>>

\* ctx_sw, second half: the CPU is on the other stack, if there is one.  The
\* one it leaves will return from ctx_sw, hence from ordonnance.
Bascule ==
  /\ Pc = "bascule"
  /\ cpu' = Sommet.local
  /\ egare' = (Last(pile[Sommet.local]).pc = "nulle")
  /\ Va("retour")
  /\ UNCHANGED <<globales, horloge, registres>>

Retour ==
  /\ Pc = "retour"
  /\ Depile
  /\ UNCHANGED <<globales, horloge, registres, cpu, egare>>

-----------------------------------------------------------------------------
(* fin_processus.                                                          *)

Lancement == processus_crees <= Lances

AppelFin ==
  /\ Pc = "code" /\ actif # 0 /\ ~Lancement
  /\ Empile(Cadre("fin1", 0))
  /\ UNCHANGED <<globales, horloge, registres, cpu, egare>>

Meurt ==
  /\ Pc = "fin1"
  /\ etat' = [etat EXCEPT ![actif] = "MORT"]
  /\ Va("reveil")
  /\ UNCHANGED <<reveil_prevu, processus_crees, indices, horloge, registres,
                 cpu, egare>>

-----------------------------------------------------------------------------
(* cree_processus.  Its search loop is one step; local is then the slot.   *)

AppelCree ==
  /\ Pc = "code"
  /\ cpu = 0 <=> Lancement
  /\ Empile(Cadre("cree1", 0))
  /\ UNCHANGED <<globales, horloge, registres, cpu, egare>>

Teste ==
  /\ Pc = "cree1"
  /\ IF TablePleine(processus_crees) THEN Depile ELSE Va("cree2")
  /\ UNCHANGED <<globales, horloge, registres, cpu, egare>>

\* Mutant: processus_crees grows before the new slot is filled.
TrouveEnComptant ==
  /\ Pc = "cree2"
  /\ \E c \in Cases :
       /\ EstCaseLibre(etat, processus_crees, c)
       /\ VaAvec("cree3", c)
       /\ processus_crees' = NouveauCompte(processus_crees, c)
  /\ UNCHANGED <<etat, reveil_prevu, indices, horloge, registres, cpu, egare>>

Trouve ==
  /\ Pc = "cree2"
  /\ \E c \in Cases :
       EstCaseLibre(etat, processus_crees, c) /\ VaAvec("cree3", c)
  /\ UNCHANGED <<globales, horloge, registres, cpu, egare>>

Prepare ==
  /\ Pc = "cree3"
  /\ etat' = [etat EXCEPT ![Sommet.local] = "ACTIVABLE"]
  /\ Va("cree4")
  /\ UNCHANGED <<reveil_prevu, processus_crees, indices, horloge, registres,
                 cpu, egare>>

\* ctx: an empty stack, on which proc_launcher will start.
Contexte ==
  /\ Pc = "cree4"
  /\ pile' = [pile EXCEPT ![Sommet.local] = <<Cadre("code", 0)>>,
                          ![cpu] = Append(Front(@),
                                          Cadre("cree5", Sommet.local))]
  /\ UNCHANGED <<globales, horloge, registres, cpu, egare>>

\* The deadline; a reused slot is then complete.
Date ==
  /\ Pc = "cree5"
  /\ reveil_prevu' = [reveil_prevu EXCEPT ![Sommet.local] = 0]
  /\ IF Sommet.local = processus_crees THEN Va("cree6") ELSE Depile
  /\ UNCHANGED <<etat, processus_crees, indices, horloge, registres, cpu,
                 egare>>

\* processus_crees++ reads, then writes.
LitCompte ==
  /\ Pc = "cree6"
  /\ VaAvec("cree7", processus_crees)
  /\ UNCHANGED <<globales, horloge, registres, cpu, egare>>

EcritCompte ==
  /\ Pc = "cree7"
  /\ processus_crees' = Sommet.local + 1
  /\ Va("cree8")
  /\ UNCHANGED <<etat, reveil_prevu, indices, horloge, registres, cpu, egare>>

RetourCree ==
  /\ Pc = "cree8"
  /\ Depile
  /\ UNCHANGED <<globales, horloge, registres, cpu, egare>>

-----------------------------------------------------------------------------
(* The code of the processes.                                              *)

\* enable_it, at each turn of idle and at the beginning of the processes of
\* the preemptive variant.
EnableIt ==
  /\ Pc = "code"
  /\ cpu = 0 \/ Preemptif
  /\ mie' = TRUE
  /\ UNCHANGED <<globales, horloge, mpie, mepc, ctx_mepc, pile, cpu, egare>>

Pas ==
  \/ Trappe \/ Compte \/ Seconde \/ Mret
  \/ (\E n \in Durees : AppelDors(n)) \/ Endort \/ Programme
  \/ Reveils \/ Cherche \/ Rend \/ EluNouveau \/ Active
  \/ Sauve \/ ChargeMepc \/ Bascule \/ Retour
  \/ AppelFin \/ Meurt
  \/ AppelCree \/ Teste \/ Trouve \/ Prepare \/ Contexte \/ Date
  \/ LitCompte \/ EcritCompte \/ RetourCree
  \/ EnableIt

\* Where a wrong mret or a wrong context leads is not modelled.
Next ==
  /\ ~egare
  /\ Pas
  /\ fige' = IF Observable' /\ ~egare' THEN Cliche' ELSE fige

Spec == Init /\ [][Next]_vars

-----------------------------------------------------------------------------
(* Properties.                                                             *)

O == INSTANCE Ordonnanceur WITH
       etat <- fige.etat, reveil_prevu <- fige.reveil_prevu,
       reprise <- fige.reprise, processus_crees <- fige.processus_crees,
       elu <- fige.elu, actif <- fige.actif, mie <- fige.mie,
       nb_interruptions <- fige.nb_interruptions,
       nb_secondes <- fige.nb_secondes

\* Between two moments outside the kernel's code, what happened is one kernel
\* call of Ordonnanceur: the steps of dors, fin_processus, ordonnance, ctx_sw
\* and the trap of different processes never interleave, and a creation by
\* kernel_start, which may be interrupted at any step, takes effect at once.
AppelsAtomiques == [][O!Next]_(O!vars)

\* mret returns to where its own trap came from, and ctx_sw saves the
\* registers of the process it takes them from.
ContextesFideles == ~egare

\* A stack never holds more than one trap: the fixed stacks of processus.h
\* and of crt0.S cannot be filled by nested interrupts.
PilesBornees ==
  \A i \in Cases :
    Len(pile[i]) <= 4
    /\ \A j, k \in DOMAIN pile[i] :
         pile[i][j].pc \in {"traitant1", "traitant2", "mret"}
           /\ pile[i][k].pc \in {"traitant1", "traitant2", "mret"} => j = k

\* A process that is out of dors has slept: its deadline is behind it.
SommeilComplet ==
  ~egare /\ cpu # 0 /\ Pc = "code" => reveil_prevu[cpu] <= nb_secondes

\* The clock is never more than the second in progress away from the count
\* of interrupts.
HorlogeJuste ==
  ~egare => nb_secondes \in
    {nb_interruptions \div IT_FREQ, nb_interruptions \div IT_FREQ - 1}
=============================================================================
