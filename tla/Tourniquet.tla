----------------------------- MODULE Tourniquet -----------------------------
(***************************************************************************)
(* What the process manager promises, in its own time: a round-robin       *)
(* scheduler over a table of processes, one of which (idle, slot 0) never  *)
(* sleeps or ends and is the only one the timer interrupts.                *)
(*                                                                         *)
(* A sleeper carries the seconds it still has to wait instead of a date,   *)
(* and the clock is reduced to its phase within the second, so the         *)
(* behaviours are unbounded in time over finitely many states: liveness is *)
(* stated here.  Ordonnanceur implements this module, and Start takes its  *)
(* actions for the programs of start.c.                                    *)
(***************************************************************************)
EXTENDS Table

CONSTANTS IT_FREQ, Durees

VARIABLES
  etat,
  restant,           \* seconds a sleeper still has to wait, 0 for the others
  processus_crees,
  elu,
  interrompu,        \* idle was interrupted and has not been resumed since
  phase              \* interrupts since the last full second

varsT == <<etat, restant, processus_crees, elu, interrompu, phase>>

Init ==
  /\ etat = [i \in Cases |-> "ELU"]
  /\ restant = [i \in Cases |-> 0]
  /\ processus_crees = 1
  /\ elu = 0
  /\ interrompu = FALSE
  /\ phase = 0

-----------------------------------------------------------------------------
(* The process chosen after e: the next one able to run, in cyclic order   *)
(* after the elected one.                                                  *)

Passe(e, r) ==
  LET prets == Reveille(e, [i \in Cases |-> r[i] = 0], processus_crees) IN
  \E t \in Crees(processus_crees) :
    /\ EstSuivant(prets, elu, processus_crees, t)
    /\ \/ prets[t] # "ACTIVABLE" /\ etat' = prets /\ UNCHANGED elu
       \/ prets[t] = "ACTIVABLE" /\ etat' = Elit(prets, elu, t) /\ elu' = t

Tick ==
  /\ elu = 0 /\ ~interrompu
  /\ interrompu' = TRUE
  /\ phase' = (phase + 1) % IT_FREQ
  /\ Passe(etat, restant)
  /\ UNCHANGED <<restant, processus_crees>>

\* Every waiting slot is one second closer to its wake-up.
Moins(r) == [i \in Cases |-> IF r[i] > 0 THEN r[i] - 1 ELSE 0]

\* Mutant: the seconds are not counted.
RetourSansSeconde ==
  /\ elu = 0 /\ interrompu
  /\ interrompu' = FALSE
  /\ UNCHANGED <<etat, restant, processus_crees, elu, phase>>

\* Idle gets the CPU back; a second has passed for every sleeper when the
\* interrupt completed one.
Retour ==
  /\ elu = 0 /\ interrompu
  /\ interrompu' = FALSE
  /\ restant' = IF phase = 0 THEN Moins(restant) ELSE restant
  /\ UNCHANGED <<etat, processus_crees, elu, phase>>

Endort(n) ==
  /\ elu # 0
  /\ restant' = [restant EXCEPT ![elu] = n]
  /\ Passe([etat EXCEPT ![elu] = "ENDORMI"], restant')
  /\ UNCHANGED <<processus_crees, interrompu, phase>>

Termine ==
  /\ elu # 0
  /\ Passe([etat EXCEPT ![elu] = "MORT"], restant)
  /\ UNCHANGED <<restant, processus_crees, interrompu, phase>>

\* The elected process runs its own code: idle does so only when resumed.
EnCours == ~(elu = 0 /\ interrompu)

Cree(c) ==
  /\ EnCours
  /\ ~TablePleine(processus_crees)
  /\ EstCaseLibre(etat, processus_crees, c)
  /\ etat' = [etat EXCEPT ![c] = "ACTIVABLE"]
  /\ restant' = [restant EXCEPT ![c] = 0]
  /\ processus_crees' = NouveauCompte(processus_crees, c)
  /\ UNCHANGED <<elu, interrompu, phase>>

Next ==
  \/ Tick
  \/ Retour
  \/ \E n \in Durees : Endort(n)
  \/ Termine
  \/ \E c \in 1 .. processus_crees : Cree(c)

Spec == Init /\ [][Next]_varsT

-----------------------------------------------------------------------------
(* Fairness.  mtimecmp is set again at each interrupt, so the timer keeps  *)
(* firing while idle waits in wfi, and the trap handler runs to its end.   *)

\* What the timer alone guarantees, nothing being assumed of the processes.
TimerSpec == Spec /\ WF_varsT(Tick) /\ WF_varsT(Retour)

\* What the README says of the scheduler: each runnable process gets a time
\* slice, because the timer interrupt selects the next one.
TrancheDeTemps ==
  \A i \in Cases :
    (i < processus_crees /\ etat[i] = "ACTIVABLE") ~> etat[i] = "ELU"

\* No process able to run is passed over for ever, under programs that come
\* back to the manager.
PasDeFamine ==
  \A i \in Cases :
    (i < processus_crees /\ etat[i] = "ACTIVABLE") ~> etat[i] = "ELU"

\* Every sleeper gets the CPU back, under the same programs.
ToutSommeilFinit ==
  \A i \in Cases : etat[i] = "ENDORMI" ~> etat[i] = "ELU"
=============================================================================
