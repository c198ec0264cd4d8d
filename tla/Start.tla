-------------------------------- MODULE Start --------------------------------
(***************************************************************************)
(* The programs of start.c on the process manager: kernel_start, running   *)
(* as process idle, creates proc1, proc2 and proc3; each of them sleeps    *)
(* twice, creates its own successor and ends.  The process manager is      *)
(* module Tourniquet, whose actions are taken here by these programs only. *)
(*                                                                         *)
(* kernel_start runs with interrupts open: the processes it has created    *)
(* may run for any time before it creates the next one.                    *)
(***************************************************************************)
EXTENDS Tourniquet, FiniteSets, Sequences

VARIABLES
  code,        \* the program of a slot, the argument of proc_launcher
  pas          \* the calls to the manager that the program has made so far

varsS == <<varsT, code, pas>>

\* The processes in the order in which kernel_start creates them.
Ordre == <<"proc1", "proc2", "proc3">>

Programmes == {"proc1", "proc2", "proc3"}

\* The argument of dors in each loop, and the iterations of the loop.
Sommeil == [proc1 |-> 2, proc2 |-> 3, proc3 |-> 5]
Tours == 2

InitS ==
  /\ Init
  /\ code = [i \in Cases |-> "idle"]
  /\ pas = [i \in Cases |-> 0]

-----------------------------------------------------------------------------
(* cree_processus: a slot runs prog from its beginning, or the call        *)
(* returns -1, which no caller looks at.                                   *)

CreeProcessus(prog) ==
  \/ \E c \in 1 .. processus_crees :
       /\ Cree(c)
       /\ code' = [code EXCEPT ![c] = prog]
       /\ pas' = [pas EXCEPT ![elu] = @ + 1, ![c] = 0]
  \/ /\ EnCours
     /\ TablePleine(processus_crees)
     /\ pas' = [pas EXCEPT ![elu] = @ + 1]
     /\ UNCHANGED <<varsT, code>>

\* The creations of kernel_start, before it calls idle().
Lancement ==
  /\ elu = 0
  /\ pas[0] < Len(Ordre)
  /\ CreeProcessus(Ordre[pas[0] + 1])

\* One iteration of the loop of proc1, proc2 or proc3.
Dort ==
  /\ elu # 0
  /\ pas[elu] < Tours
  /\ Endort(Sommeil[code[elu]])
  /\ pas' = [pas EXCEPT ![elu] = @ + 1]
  /\ UNCHANGED code

\* Mutant: the process ends without a successor.
RelanceOubliee ==
  /\ elu # 0
  /\ pas[elu] = Tours
  /\ pas' = [pas EXCEPT ![elu] = @ + 1]
  /\ UNCHANGED <<varsT, code>>

\* After the loop, the process creates the next incarnation of its program.
Relance ==
  /\ elu # 0
  /\ pas[elu] = Tours
  /\ CreeProcessus(code[elu])

\* Mutant: the function does not return to proc_launcher, it starts again.
FinSansFin ==
  /\ elu # 0
  /\ pas[elu] = Tours + 1
  /\ pas' = [pas EXCEPT ![elu] = 0]
  /\ UNCHANGED <<varsT, code>>

\* The function returns to proc_launcher, which calls fin_processus.
Fin ==
  /\ elu # 0
  /\ pas[elu] = Tours + 1
  /\ Termine
  /\ UNCHANGED <<code, pas>>

\* The trap handler runs on top of idle.
Horloge == (Tick \/ Retour) /\ UNCHANGED <<code, pas>>

NextS == Lancement \/ Dort \/ Relance \/ Fin \/ Horloge

\* The timer keeps firing, and a process of start.c reaches its next call
\* after finitely many instructions.  kernel_start is interrupted again and
\* again, but it runs for most of a tick between two interrupts.
FairnessS ==
  /\ WF_varsS(Horloge)
  /\ WF_varsS(Dort)
  /\ WF_varsS(Relance)
  /\ WF_varsS(Fin)
  /\ SF_varsS(Lancement)

SpecS == InitS /\ [][NextS]_varsS /\ FairnessS

-----------------------------------------------------------------------------
(* Properties of the whole demonstration.                                  *)

Vivants(prog) ==
  {i \in Crees(processus_crees) \ {0} : code[i] = prog /\ etat[i] # "MORT"}

\* The demonstration runs for ever although every process creates another
\* one: dead slots are reused, so the table never holds more than idle, the
\* three processes and the one that is about to end, and no creation is ever
\* refused.
CreationJamaisRefusee ==
  /\ processus_crees <= Cardinality(Programmes) + 2
  /\ ~TablePleine(processus_crees)

\* A program has one live incarnation from its launch on, except that a
\* process that has created its successor coexists with it; it is then on the
\* CPU, so it ends before the successor runs.
UneIncarnation ==
  \A k \in 1 .. Len(Ordre) :
    LET v == Vivants(Ordre[k]) IN
    IF pas[0] < k THEN v = {}
    ELSE \/ Cardinality(v) = 1 /\ elu \notin {i \in v : pas[i] > Tours}
         \/ Cardinality(v) = 2 /\ \E i \in v : i = elu /\ pas[i] > Tours

\* Every program gets the CPU again and again, in whatever slot it lives.
ChacunSonTour ==
  \A prog \in Programmes : []<>(elu # 0 /\ code[elu] = prog)
=============================================================================
