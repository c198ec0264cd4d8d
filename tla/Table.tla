------------------------------- MODULE Table --------------------------------
(***************************************************************************)
(* The process table of processus.c (table_processus) and the pure parts   *)
(* of the functions that walk it: the wake-up loop and the round-robin     *)
(* search of ordonnance, and the slot search of cree_processus.            *)
(*                                                                         *)
(* A table is a function e from slots to states.  n stands for             *)
(* processus_crees: only the slots 0 .. n-1 are ever examined.             *)
(***************************************************************************)
EXTENDS Integers

CONSTANT NB_PROCESSUS_MAX      \* size of table_processus (50 in processus.h)

ASSUME TableNonVide == NB_PROCESSUS_MAX \in Nat \ {0}

Cases == 0 .. NB_PROCESSUS_MAX - 1

\* enum etat_processus.  ELU is the enumerator 0, which is also the state
\* that init_proc and a zeroed .bss give to a slot that was never used.
Etats == {"ELU", "ACTIVABLE", "ENDORMI", "MORT"}

\* The slots that cree_processus has handed out, idle included.
Crees(n) == 0 .. n - 1

-----------------------------------------------------------------------------
(* The wake-up loop of ordonnance.  du[i] says that the deadline           *)
(* reveil_prevu of slot i is reached.  The loop starts at 1.               *)

\* Mutant: the loop stops one slot too early.
ReveilleUnDeMoins(e, du, n) ==
  [i \in Cases |-> IF i \in 1 .. n - 2 /\ e[i] = "ENDORMI" /\ du[i]
                   THEN "ACTIVABLE" ELSE e[i]]

Reveille(e, du, n) ==
  [i \in Cases |-> IF i \in 1 .. n - 1 /\ e[i] = "ENDORMI" /\ du[i]
                   THEN "ACTIVABLE" ELSE e[i]]

-----------------------------------------------------------------------------
(* The search of ordonnance: from slot s, step through the slots modulo n  *)
(* until one is ACTIVABLE or the walk is back at s.  EstSuivant says that  *)
(* the walk stops at slot t.                                               *)

\* Mutant: the walk never examines the last slot.
SuivantSansDernier(e, s, n, t) ==
  \E d \in 1 .. n :
    /\ t = (s + d) % n
    /\ \A k \in 1 .. d - 1 : (s + k) % n = n - 1 \/ e[(s + k) % n] # "ACTIVABLE"
    /\ (t # n - 1 /\ e[t] = "ACTIVABLE") \/ d = n

EstSuivant(e, s, n, t) ==
  \E d \in 1 .. n :
    /\ t = (s + d) % n
    /\ \A k \in 1 .. d - 1 : e[(s + k) % n] # "ACTIVABLE"
    /\ e[t] = "ACTIVABLE" \/ d = n

\* The two assignments that hand the CPU from slot s to slot t: s goes back
\* to ACTIVABLE only if it is still ELU, that is neither asleep nor dead.

\* Mutant: the state of the slot that loses the CPU is not tested.
ElitSansTester(e, s, t) ==
  [[e EXCEPT ![s] = "ACTIVABLE"] EXCEPT ![t] = "ELU"]

\* Mutant: the slot that loses the CPU keeps its state.
ElitSansRendre(e, s, t) == [e EXCEPT ![t] = "ELU"]

Elit(e, s, t) ==
  [[e EXCEPT ![s] = IF @ = "ELU" THEN "ACTIVABLE" ELSE @]
     EXCEPT ![t] = "ELU"]

-----------------------------------------------------------------------------
(* cree_processus.  The slot count is compared with the size of the table  *)
(* before any dead slot is looked for.                                     *)

\* Mutant: the test lets one process too many through.
TablePleineUnDePlus(n) == n > NB_PROCESSUS_MAX

TablePleine(n) == n >= NB_PROCESSUS_MAX

\* The slot that is filled: the first dead one, else the slot n.

\* Mutant: the reuse loop also takes sleeping slots.
CaseDormeuseOuMorte(e, n, c) ==
  \/ /\ c \in 1 .. n - 1 /\ e[c] \in {"MORT", "ENDORMI"}
     /\ \A k \in 1 .. c - 1 : e[k] \notin {"MORT", "ENDORMI"}
  \/ /\ c = n
     /\ \A k \in 1 .. n - 1 : e[k] \notin {"MORT", "ENDORMI"}

\* Mutant: dead slots are never reused.
CaseNeuve(e, n, c) == c = n

EstCaseLibre(e, n, c) ==
  \/ /\ c \in 1 .. n - 1 /\ e[c] = "MORT"
     /\ \A k \in 1 .. c - 1 : e[k] # "MORT"
  \/ /\ c = n
     /\ \A k \in 1 .. n - 1 : e[k] # "MORT"

\* processus_crees grows only when a slot that was never used is taken.
NouveauCompte(n, c) == IF c = n THEN n + 1 ELSE n
=============================================================================
