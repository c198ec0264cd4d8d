---------------------------- MODULE Ordonnanceur ----------------------------
(***************************************************************************)
(* The process manager (processus.c), the timer (timer.c) and the trap     *)
(* entry (traitant.S), at the granularity of whole kernel calls.           *)
(*                                                                         *)
(* The processes of start.c never call enable_it, and ctx_sw does not save *)
(* mstatus: a process that is elected inside the trap handler runs with    *)
(* interrupts masked until the CPU comes back to idle, whose mret unmasks  *)
(* them.  Only idle is ever interrupted, so a kernel call made by another  *)
(* process is one action here.  SectionMasquee states this discipline and  *)
(* module Preemption checks, instruction by instruction, that it makes     *)
(* these actions atomic.                                                   *)
(***************************************************************************)
EXTENDS Table

CONSTANTS
  IT_FREQ,     \* timer interrupts per second (20 in timer.h)
  Durees       \* the arguments that processes give to dors

ASSUME FrequenceOK == IT_FREQ \in Nat \ {0}
ASSUME DureesOK == Durees \subseteq Nat

VARIABLES
  etat,              \* table_processus[i].etat
  reveil_prevu,      \* table_processus[i].reveil_prevu
  reprise,           \* ctx: where i runs, or resumes when it is elected
  processus_crees,
  elu,               \* index of the elected slot
  actif,             \* slot whose context is on the CPU
  mie,               \* mstatus.MIE
  nb_interruptions,
  nb_secondes

vars == <<etat, reveil_prevu, reprise, processus_crees, elu, actif, mie,
          nb_interruptions, nb_secondes>>

\* A context is saved by ctx_sw inside ordonnance: what matters of it is who
\* called ordonnance.  "code" is the code of the process (dors returns to it,
\* proc_launcher enters it), "traitant" is trap_handler after its call to
\* ordonnance.
Reprises == {"code", "traitant"}

TypeOK ==
  /\ etat \in [Cases -> Etats]
  /\ reveil_prevu \in [Cases -> Nat]
  /\ reprise \in [Cases -> Reprises]
  /\ processus_crees \in 1 .. NB_PROCESSUS_MAX
  /\ elu \in Crees(processus_crees)
  /\ actif \in Crees(processus_crees)
  /\ mie \in BOOLEAN
  /\ nb_interruptions \in Nat
  /\ nb_secondes \in Nat

\* The state init_proc leaves: slot 0 is idle (kernel_start runs as idle),
\* the other slots are zeroed, and enable_timer has already set MIE.
Init ==
  /\ etat = [i \in Cases |-> "ELU"]
  /\ reveil_prevu = [i \in Cases |-> 0]
  /\ reprise = [i \in Cases |-> "code"]
  /\ processus_crees = 1
  /\ elu = 0
  /\ actif = 0
  /\ mie = TRUE
  /\ nb_interruptions = 0
  /\ nb_secondes = 0

-----------------------------------------------------------------------------
(* ordonnance: wake, search, hand over, switch contexts.  e and r are the  *)
(* table and the deadlines as the caller left them.  The scratch globals   *)
(* next_elu and ancien carry nothing from one call to the next.            *)

\* ctx_sw: from here on the CPU runs what reprise[t] says.
CtxSw(t) == actif' = t

\* Mutant: a deadline is reached one second too late.
EchuApres(r) == [i \in Cases |-> r[i] < nb_secondes]

Echu(r) == [i \in Cases |-> r[i] <= nb_secondes]

Ordonnance(e, r) ==
  LET reveilles == Reveille(e, Echu(r), processus_crees) IN
  \E t \in Crees(processus_crees) :
    /\ EstSuivant(reveilles, elu, processus_crees, t)
    /\ \/ /\ reveilles[t] # "ACTIVABLE"           \* stay on the elected one
          /\ etat' = reveilles
          /\ UNCHANGED <<elu, actif>>
       \/ /\ reveilles[t] = "ACTIVABLE"
          /\ etat' = Elit(reveilles, elu, t)
          /\ elu' = t
          /\ CtxSw(t)

-----------------------------------------------------------------------------
(* mon_traitant and trap_handler.  ordonnance is called in the middle, so  *)
(* the second half is run by whoever is elected next among the contexts    *)
(* suspended there.                                                        *)

\* The trap clears MIE, saves the registers on the interrupted stack, counts
\* the interrupt and schedules.  mtimecmp is set again: another one follows.
Interruption ==
  /\ mie
  /\ mie' = FALSE
  /\ reprise' = [reprise EXCEPT ![actif] = "traitant"]
  /\ nb_interruptions' = nb_interruptions + 1
  /\ Ordonnance(etat, reveil_prevu)
  /\ UNCHANGED <<reveil_prevu, processus_crees, nb_secondes>>

\* mret: back to the interrupted code, interrupts unmasked.
\* Mutant: the code resumes with interrupts still masked.
MretMasque ==
  /\ reprise' = [reprise EXCEPT ![actif] = "code"]
  /\ mie' = mie

Mret ==
  /\ reprise' = [reprise EXCEPT ![actif] = "code"]
  /\ mie' = TRUE

\* Mutant: the clock is advanced one interrupt before the full second.
HorlogeEnAvance(nb, s) == IF (nb + 1) % IT_FREQ = 0 THEN s + 1 ELSE s

\* The clock advances when the count of interrupts, read after ordonnance
\* has returned, is a multiple of IT_FREQ.
Horloge(nb, s) == IF nb % IT_FREQ = 0 THEN s + 1 ELSE s

FinTraitant ==
  /\ reprise[actif] = "traitant"
  /\ nb_secondes' = Horloge(nb_interruptions, nb_secondes)
  /\ Mret
  /\ UNCHANGED <<etat, reveil_prevu, processus_crees, elu, actif,
                 nb_interruptions>>

-----------------------------------------------------------------------------
(* The calls a process makes.                                              *)

EnCode == reprise[actif] = "code"

\* dors; for idle (pid 0) it does nothing.
Dors(n) ==
  /\ EnCode
  /\ actif # 0
  /\ reveil_prevu' = [reveil_prevu EXCEPT ![actif] = nb_secondes + n]
  /\ Ordonnance([etat EXCEPT ![actif] = "ENDORMI"], reveil_prevu')
  /\ UNCHANGED <<reprise, processus_crees, mie, nb_interruptions, nb_secondes>>

\* fin_processus, called explicitly or by proc_launcher; nothing for idle.
FinProcessus ==
  /\ EnCode
  /\ actif # 0
  /\ Ordonnance([etat EXCEPT ![actif] = "MORT"], reveil_prevu)
  /\ UNCHANGED <<reveil_prevu, reprise, processus_crees, mie,
                 nb_interruptions, nb_secondes>>

\* The calls that return -1 without changing anything.
CreationRefusee ==
  /\ EnCode
  /\ TablePleine(processus_crees)
  /\ UNCHANGED vars

\* The new context starts in proc_launcher, its deadline is reset.
CreeProcessus(c) ==
  /\ EnCode
  /\ ~TablePleine(processus_crees)
  /\ EstCaseLibre(etat, processus_crees, c)
  /\ etat' = [etat EXCEPT ![c] = "ACTIVABLE"]
  /\ reprise' = [reprise EXCEPT ![c] = "code"]
  /\ reveil_prevu' = [reveil_prevu EXCEPT ![c] = 0]
  /\ processus_crees' = NouveauCompte(processus_crees, c)
  /\ UNCHANGED <<elu, actif, mie, nb_interruptions, nb_secondes>>

Next ==
  \/ Interruption
  \/ FinTraitant
  \/ \E n \in Durees : Dors(n)
  \/ FinProcessus
  \/ CreationRefusee
  \/ \E c \in 1 .. processus_crees : CreeProcessus(c)

Spec == Init /\ [][Next]_vars

-----------------------------------------------------------------------------
(* Safety.                                                                 *)

\* The process on the CPU is the elected slot and the only one of the created
\* slots in state ELU: nobody ever runs while asleep, dead or merely ready,
\* and fin_processus never returns to the process it ended.
UnSeulElu ==
  /\ actif = elu
  /\ \A i \in Crees(processus_crees) : etat[i] = "ELU" <=> i = elu

\* Interrupts are open exactly when idle runs its own code, and a process
\* other than idle is never suspended inside the trap handler.  This is what
\* makes the table updates of the other processes atomic.
SectionMasquee ==
  /\ mie <=> (actif = 0 /\ reprise[0] = "code")
  /\ \A i \in Cases \ {0} : reprise[i] = "code"

\* A slot able to run has its deadline behind it: dors(n) never gives the CPU
\* back before n seconds of nb_secondes have passed.
ReveilRespecte ==
  \A i \in Crees(processus_crees) :
    etat[i] \in {"ELU", "ACTIVABLE"} => reveil_prevu[i] <= nb_secondes

\* trap_handler schedules before it advances the clock, so a deadline that
\* the clock has just reached is served at the next interrupt: whenever idle
\* runs, an overdue sleeper exists only between the interrupt that completes
\* a second and the following one.
RetardDUnTickAuPlus ==
  \A i \in Crees(processus_crees) :
    (etat[i] = "ENDORMI" /\ reveil_prevu[i] <= nb_secondes)
      => mie /\ nb_interruptions % IT_FREQ = 0

\* Seen from idle, nb_secondes is exactly the number of full seconds of
\* interrupts: the check that follows ordonnance in trap_handler is made once
\* per interrupt, however many context switches happen in between.
HorlogeExacte ==
  mie => nb_secondes = nb_interruptions \div IT_FREQ

\* A deadline is rewritten only by its owner, or when its dead or unused slot
\* is handed out again: no call disturbs the sleep of another process.
SommeilIntact ==
  [][\A i \in Crees(processus_crees) :
       reveil_prevu'[i] # reveil_prevu[i] => i = actif \/ etat[i] = "MORT"]_vars

\* What the comment of cree_processus on the slots of dead processes says: a
\* dead slot can be handed out again.
CaseMorteReutilisable ==
  (\E i \in Crees(processus_crees) : etat[i] = "MORT")
    => ~TablePleine(processus_crees)

-----------------------------------------------------------------------------
(* Refinement: the dates become the seconds that remain, the two counters  *)
(* become the phase within the second.                                     *)

Restant ==
  [i \in Cases |-> IF etat[i] = "ENDORMI" /\ reveil_prevu[i] > nb_secondes
                   THEN reveil_prevu[i] - nb_secondes ELSE 0]

T == INSTANCE Tourniquet WITH
       restant <- Restant,
       interrompu <- reprise[0] = "traitant",
       phase <- nb_interruptions % IT_FREQ

\* Each kernel call is a step of the round-robin scheduler, or invisible.
TourniquetSpec == T!Spec
=============================================================================
