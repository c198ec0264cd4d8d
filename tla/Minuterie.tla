----------------------------- MODULE Minuterie -------------------------------
(***************************************************************************)
(* The timer of the hart in real time: the end of kernel_start's boot      *)
(* sequence, which opens the interrupts before everything that a trap      *)
(* needs exists, and trap_handler, which asks for the next interrupt.      *)
(*                                                                         *)
(* The CLINT raises its interrupt while mtime >= mtimecmp.  ou is where    *)
(* the CPU is: in kernel_start, in the code of idle ("code"), or in the    *)
(* trap handler.  While it is there behind its call to ordonnance, any     *)
(* process may run, masked, for any time.                                  *)
(***************************************************************************)
EXTENDS Integers

CONSTANTS
  PERIODE,         \* TIMER_FREQ / IT_FREQ, in units of mtime (500000)
  IT_FREQ,         \* ticks in a second (20)
  AMORCAGE,        \* bound on the time from the read of mtime in
                   \* enable_timer to the write of mtvec
  CMP_INITIAL      \* mtimecmp at reset

ASSUME MinuterieOK ==
  /\ PERIODE \in Nat \ {0} /\ IT_FREQ \in Nat \ {0}
  /\ AMORCAGE \in Nat /\ CMP_INITIAL \in Nat

\* A few dozen instructions, against the 50 ms of a period.
ASSUME AmorcageCourt == AMORCAGE < PERIODE

VARIABLES
  mtime, mtimecmp,       \* registers of the CLINT
  mtie, mie,             \* bits of the registers mie and mstatus
  mtvec,                 \* mtvec holds mon_traitant
  table,                 \* init_proc is done
  timer,                 \* the local of that name
  ou,
  depart,                \* mtime as enable_timer read it
  nb_interruptions, nb_secondes,
  egare                  \* a trap was taken before all was ready

compteurs == <<nb_interruptions, nb_secondes>>
controle == <<mtie, mie, mtvec, table, egare>>
varsH == <<mtime, mtimecmp, controle, timer, ou, depart, compteurs>>

InitH ==
  /\ mtime = 0 /\ mtimecmp = CMP_INITIAL
  /\ mtie = FALSE /\ mie = FALSE
  /\ mtvec = FALSE /\ table = FALSE
  /\ timer = 0 /\ depart = 0
  /\ ou = "lit"
  /\ nb_interruptions = 0 /\ nb_secondes = 0
  /\ egare = FALSE

Ouverte == mtie /\ mie /\ mtime >= mtimecmp

\* Time passes, except over an interrupt that is asked for and not masked.
\* init_proc may take any time: it clears the fifty processes, their stacks
\* included, a byte at a time, which is of the order of a period or more.
Temps ==
  /\ ~Ouverte /\ ~egare
  /\ ou \in {"ecrit", "arme", "ouvre", "vecteur"}
       => mtime < depart + AMORCAGE
  /\ mtime' = mtime + 1
  /\ UNCHANGED <<mtimecmp, controle, timer, ou, depart, compteurs>>

-----------------------------------------------------------------------------
(* kernel_start.                                                           *)

\* Mutant: the interrupt is allowed before mtimecmp is written.
LitTimerArme ==
  /\ ou = "lit"
  /\ timer' = mtime /\ depart' = mtime
  /\ mtie' = TRUE /\ mie' = TRUE
  /\ ou' = "ecrit"
  /\ UNCHANGED <<mtime, mtimecmp, mtvec, table, egare, compteurs>>

LitTimer ==
  /\ ou = "lit"
  /\ timer' = mtime /\ depart' = mtime
  /\ ou' = "ecrit"
  /\ UNCHANGED <<mtime, mtimecmp, controle, compteurs>>

EcritCmp ==
  /\ ou = "ecrit"
  /\ mtimecmp' = timer + PERIODE
  /\ ou' = "arme"
  /\ UNCHANGED <<mtime, controle, timer, depart, compteurs>>

\* Mutant: the bit of the timer is forgotten, which enable_it does not set.
ArmeRien ==
  /\ ou = "arme"
  /\ ou' = "ouvre"
  /\ UNCHANGED <<mtime, mtimecmp, controle, timer, depart, compteurs>>

Arme ==
  /\ ou = "arme"
  /\ mtie' = TRUE
  /\ ou' = "ouvre"
  /\ UNCHANGED <<mtime, mtimecmp, mie, mtvec, table, egare, timer, depart,
                 compteurs>>

Ouvre ==
  /\ ou = "ouvre"
  /\ mie' = TRUE
  /\ ou' = "vecteur"
  /\ UNCHANGED <<mtime, mtimecmp, mtie, mtvec, table, egare, timer, depart,
                 compteurs>>

InitTraitantTimer ==
  /\ ou = "vecteur"
  /\ mtvec' = TRUE
  /\ ou' = "table"
  /\ UNCHANGED <<mtime, mtimecmp, mtie, mie, table, egare, timer, depart,
                 compteurs>>

InitProc ==
  /\ ou = "table"
  /\ table' = TRUE
  /\ ou' = "code"
  /\ UNCHANGED <<mtime, mtimecmp, mtie, mie, mtvec, egare, timer, depart,
                 compteurs>>

-----------------------------------------------------------------------------
(* The trap.                                                               *)

\* Only kernel_start and idle run with interrupts open, so no trap is taken in
\* the handler.  Without mtvec it goes nowhere.  Without the table ordonnance
\* computes a remainder by processus_crees = 0, which is the dividend itself
\* on RISC-V, and its walk runs off the table: the model stops there.
Trappe ==
  /\ Ouverte /\ ~egare
  /\ mie' = FALSE
  /\ egare' = ~(mtvec /\ table)
  /\ ou' = "trappe"
  /\ UNCHANGED <<mtime, mtimecmp, mtie, mtvec, table, timer, depart,
                 compteurs>>

RelitTimer ==
  /\ ou = "trappe" /\ ~egare
  /\ timer' = mtime
  /\ ou' = "reprogramme"
  /\ UNCHANGED <<mtime, mtimecmp, controle, depart, compteurs>>

\* Mutant: mtimecmp is left behind mtime, and the interrupt comes back at once.
ReprogrammeTrop ==
  /\ ou = "reprogramme"
  /\ UNCHANGED mtimecmp
  /\ nb_interruptions' = nb_interruptions + 1
  /\ ou' = "ordonnance"
  /\ UNCHANGED <<mtime, controle, timer, depart, nb_secondes>>

\* The next interrupt counts from now, not from the one being served.
Reprogramme ==
  /\ ou = "reprogramme"
  /\ mtimecmp' = timer + PERIODE
  /\ nb_interruptions' = nb_interruptions + 1
  /\ ou' = "ordonnance"
  /\ UNCHANGED <<mtime, controle, timer, depart, nb_secondes>>

\* Behind ordonnance: the clock and mret.
FinTraitant ==
  /\ ou = "ordonnance"
  /\ nb_secondes' = IF nb_interruptions % IT_FREQ = 0
                    THEN nb_secondes + 1 ELSE nb_secondes
  /\ mie' = TRUE
  /\ ou' = "code"
  /\ UNCHANGED <<mtime, mtimecmp, mtie, mtvec, table, egare, timer, depart,
                 nb_interruptions>>

NextH ==
  \/ Temps
  \/ LitTimer \/ EcritCmp \/ Arme \/ Ouvre \/ InitTraitantTimer \/ InitProc
  \/ Trappe \/ RelitTimer \/ Reprogramme \/ FinTraitant

SpecH == InitH /\ [][NextH]_varsH

-----------------------------------------------------------------------------

\* Whatever mtimecmp holds at reset, no interrupt is taken before mtvec is
\* set, and one comes before the table of processes is only if init_proc has
\* lasted up to the end of the first period: what orders the boot sequence is
\* the distance of the first tick, and nothing else.
PremierTickPret == egare => mtvec /\ mtime >= depart + PERIODE

\* What the comment beside processus_crees says of its initial value, that
\* idle is already created, for those who could see it: whenever a trap is
\* served, idle is in the table.
IdleDejaCree == ou = "trappe" => table

\* However late interrupts are served, the clock never runs ahead of real
\* time: a burst of ticks cannot add seconds that have not passed.
HorlogeJamaisEnAvance ==
  nb_secondes * (IT_FREQ * PERIODE) <= mtime - depart

\* Idle never waits in wfi for more than a period: the interrupt is allowed
\* and its date is near.
AttenteBornee ==
  ou = "code" => mtie /\ mie /\ mtimecmp <= mtime + PERIODE

\* What the comment of trap_handler says of the clock, that it changes every
\* second, and the README of the timer, that it tracks real time.  Idle sees a
\* clock that is at most one second and one tick late.
HorlogeATempsReel ==
  ou = "code" =>
    mtime - depart <= (nb_secondes + 1) * IT_FREQ * PERIODE + PERIODE
=============================================================================
