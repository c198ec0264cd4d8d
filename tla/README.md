# Mini OS on RISC-V: TLA+ models, model checking and proofs

This directory specifies and verifies the mini OS of the repository: a kernel
for one RISC-V hart with a process manager, a timer, a text console and a small
C library. The modules are translated from the code under `src/`. TLC checks
them on small instances and TLAPS proves the main invariants for every value of
the constants. Names come from the source and are French, as they are there.

## 1. The system

### Components

| component | files | state it keeps | operations |
|---|---|---|---|
| process manager | `processus.c` | `table_processus` (etat, ctx, reveil_prevu, nom, pid, pile), `processus_crees`, `elu`, `next_elu`, `actif`, `ancien` | `init_proc`, `ordonnance`, `dors`, `cree_processus`, `fin_processus`, `idle` |
| timer and trap | `timer.c`, `traitant.S` | `nb_interruptions`, `nb_secondes`; `mtimecmp`, `mstatus.MIE`, `mepc` | trap entry and exit, `trap_handler`, `enable_timer`, `affichage_haut` |
| context switch | `ctxt.S` | `ctx[18]` of each process: callee-saved registers, first argument, `mepc` | `ctx_sw` |
| demonstration | `start.c` | locals of `proc1`, `proc2`, `proc3` | `kernel_start` creates them; each sleeps twice, creates its successor and ends |
| text console | `console.c` | `lig_curseur`, `col_curseur`, the frame buffer | `traite_car`, `place_curseur`, `ecrit_car`, `defilement`, `efface_ecran`, `init_ecran` |
| UART | `console.c` | device registers | `init_uart`, `traite_car_uart` |
| formatted output | `printf.c`, `sprintf.c`, `doprnt.c` | buffer of one call | `printf`, `sprintf`, `vsnprintf`, `_doprnt` |
| strings, numbers | `string.c`, `strtoul.c`, `stdfct.c` | none (`strtok`: one pointer) | pure functions |
| boot | `crt0.S` | stack, `.bss` | jump to `kernel_start` |

### How they interact

* The timer interrupt enters `mon_traitant`, which calls `trap_handler`, which
  counts the interrupt, calls `ordonnance`, and only then advances the clock.
  `ordonnance` may switch contexts in the middle, so the end of a trap is
  executed when the CPU comes back to the interrupted process.
* A process calls `dors` or `fin_processus`, which call `ordonnance` themselves.
* `ctx_sw` does not save `mstatus`. A process elected inside a trap therefore
  runs with interrupts masked until it gives the CPU up; the chain of masked
  processes ends with the `mret` of idle. Preemption never happens in the
  demonstration as it stands: only idle is ever interrupted.
* `disable_it` (`cpu.h:18`) clears the bits of operand 0, that is none, so idle
  is interruptible everywhere, also while it prints. Processes print masked,
  so that idle's updates of the UART and of the cursor are the ones cut in two.
* Each interrupt dates the next one a period after its own service. Masked
  processes delay that service, and the ticks that would have come meanwhile are
  lost.
* Everything that is printed goes from `_doprnt` through the buffer of `printf`
  to `console_putbytes`, which initialises the UART and the screen again at each
  call, then sends each character to both. The clock is formatted by `sprintf`
  and drawn on row 0 by `trap_handler`; text scrolls on the rows below through
  `memmove`.

### What is hard, and what correctness means

* *Process manager*. Exactly one process is elected, it is the one on the CPU,
  nobody runs while asleep or dead, a sleep lasts as long as was asked (and at
  most a tick more), the slot of a dead process is reused without disturbing
  anyone, no ready process starves, every sleeper wakes up.
* *Timer*. The clock counts every full second once although the handler is
  split by a context switch; it never runs ahead of real time; the next tick is
  always near; the first one does not come before its handler exists, nor,
  unless the boot is slow, before the table of processes.
* *Kernel atomicity*. The globals of the scheduler are updated without any lock;
  that is correct only because of the masking discipline above.
* *Console*. The cursor stays on the screen, no ghost cursor remains, the clock
  is not scrolled away, scrolling loses no line. With idle cut anywhere in its
  `printf`, no character of the serial line is lost or exchanged, the divisor of
  the UART stays right, and the cursor is sound again at the end of the line.
* *Library*. An overlapping move, a buffer that is flushed when full, a width
  that is used up by the sign, a field that cuts its string: boundary cases.

The complete list of hazards, each at its line, with the properties that cover
it, is `hazards` in `PROJECT.json`.

## 2. Modules

| module | models | notes |
|---|---|---|
| `Table` | the pure parts of `ordonnance` and `cree_processus`: wake-up loop, round-robin walk, slot search | operators over a table of states, shared by the modules below |
| `Tourniquet` | the abstract scheduler: what the process manager promises, in its own time | |
| `Ordonnanceur` | process manager, timer and trap at the granularity of kernel calls | implements `Tourniquet` |
| `Start` | the programs of `start.c` on `Tourniquet` | liveness is checked here |
| `Minuterie` | the CLINT in real time, the boot order from `enable_timer` to `init_proc`, the dates of the interrupts in `trap_handler` | |
| `SerieConsole` | idle's `printf` access by access, the processes' whole lines: UART, power of the screen, cursor | no timer: idle may be cut anywhere |
| `Idle` | idle under its timer | composes the two above and implements both |
| `Preemption` | `dors`, `fin_processus`, `cree_processus`, `ordonnance`, `ctx_sw`, trap entry and `trap_handler`, step by step | implements `Ordonnanceur` for the programs as they stand |
| `Console` | the text screen, by character cells | |
| `ConsoleTexte` | the screen as a window on a text | extends `Console`; `page` is the text |
| `Memoire` | `memmove`, byte by byte | |
| `Recherche` | `memmem`, shift by shift | |
| `Chaines` | `strlcat`, and `strtok` with `strsep` and `__strxspn` | |
| `Arithmetique` | multiplication and division of `stdfct.c` | one width of words stands for both copies; the build for rv64ima does not link them |
| `Impression` | the buffer of `printf`, the destination of `vsnprintf` | |
| `Nombres` | integer conversions of `_doprnt`, and `strtoul` as their inverse | |
| `Champs` | `%s` of `_doprnt`: side, width, precision | |
| `Bibliotheque` | one call of one function of the seven modules above | |
| `TablePreuves`, `OrdonnanceurPreuves`, `PreemptionPreuves`, `StartPreuves` | theorems about the process manager, its steps and its programs | |
| `SerieConsolePreuves`, `IdlePreuves`, `ConsolePreuves` | theorems about the printing of idle, the timer and idle under it, the screen and its text | |
| `BibliothequePreuves` | theorems about the library | |
| `MC*` | instances for TLC | |

### How state and actions correspond to the code

`Ordonnanceur`. `etat` and `reveil_prevu` are the fields of the table.
`reprise[i]` stands for `ctx` of process i: since `ctx_sw` is only called at the
end of `ordonnance`, a suspended process resumes either in its own code (the
caller was `dors` or `fin_processus`, or it has never run) or in `trap_handler`
behind the call to `ordonnance`. `Interruption` is the trap up to and including
`ordonnance`, `FinTraitant` is what is left of it, ending with `mret`. `Dors`,
`FinProcessus`, `CreeProcessus` and `CreationRefusee` are the calls of the
process on the CPU. `Ordonnance(e, r)` is the whole of `ordonnance` for a table
and deadlines as its caller left them. A slot that was never used is `ELU`,
because that enumerator is 0; the code never looks at such slots, and neither
do the properties (`Crees`).

`Tourniquet`. A sleeper carries the seconds it still has to wait, and the
clock is a phase within the second. The refinement mapping is `Restant` in
`Ordonnanceur`; interrupts seen while nothing changes are stuttering steps.

`Start`. `pas` counts the calls a program has made to the manager, which is all
of its control; `code` is the program of a slot. An action is a call of the
program together with the step of `Tourniquet` that it causes.

`Preemption`. Each process has a stack of frames; a frame is a label between
two accesses to shared state and one local variable. Labels follow the code:
`dors1`, `dors2`, then `reveil`, `cherche`, `rend`, `elit`, `active`, `sauve`,
`charge`, `bascule`, `retour` for `ordonnance` and `ctx_sw`, and `traitant1`,
`traitant2`, `mret` for the trap, `fin1` for `fin_processus` and `cree1` to
`cree8` for `cree_processus`. The two loops of `ordonnance` and the search of
`cree_processus` are one step each. `kernel_start` creates `Lances` processes
with interrupts open. `Lancement` restricts the others: they neither end nor
create before it has finished. In `start.c` they first sleep for at least four
seconds, against a few microseconds for the three creations. Without this
restriction `AppelsAtomiques` does not hold: two creations then fill the same
slot, because `processus_crees` is read and written in two steps. The runs and
the theorems therefore say nothing of such programs. `egare` becomes TRUE when
`mret` goes to the wrong place, when `ctx_sw` saves registers over those of
another process or when it loads a context that was never prepared; the model
then stops, because nothing can be said of what follows. `fige` is a history variable: a copy of the state
taken at the last moment outside the code of the kernel, with which
`Ordonnanceur` is instantiated. With `Preemptif`, processes may call `enable_it`
as in the first commented variant of `start.c` (lines 27-62).

`Minuterie`. `mtime` counts by itself, except over an interrupt that is pending
and not masked: it is taken at once. `LitTimer`, `EcritCmp`, `Arme`, `Ouvre`,
`InitTraitantTimer` and `InitProc` are the statements of `enable_timer`,
`init_traitant_timer` and `init_proc` in the order of `kernel_start`;
`RelitTimer` and `Reprogramme` are `trap_handler` up to `ordonnance`,
`FinTraitant` what follows it. The place `ordonnance` is where the CPU is in any
process, masked, for any time. `AMORCAGE` bounds the time from the read of
`mtime` in `enable_timer` to the write of `mtvec`, a few dozen instructions;
nothing else bounds the speed of the code. In particular `init_proc` takes any
time: it clears fifty processes with their stacks, some 1.65 MB, with the byte
loop of `memset` at `-O0`. `egare` records a trap taken before `mtvec` or the
table was set; the model then stops. `mtimecmp` has any value at reset.

`SerieConsole`. `la` is idle's place in its `printf`; an action is one access to
what idle shares with the processes, as the build with `-O0` of the Makefile
makes it: an increment is a load (`LitColonne`, in `reg`) and a store
(`EcritColonne`), and the arguments of `place_curseur` are loaded before it
stores them (`arg`). A line is two `console_putbytes`, the text and the newline,
because `printf_char` flushes at a newline. `Registre0` is the register that DLAB
switches between the divisor and the transmitter. A process's `printf` is
masked: `ProcessusImprime` is `init_uart` and `init_ecran`, `ProcessusCar` one
character of `traite_car_uart` and `traite_car`. Characters are numbered, idle's
from 1, a process's from -1 down; `Parasite` is a byte of the divisor that
reached the transmitter. Only `DLL` is followed: `DLH` is zero, and written with
DLAB clear it sets `IER`, which the kernel leaves at zero. The prints of
`kernel_start` behind `init_proc` are lines of idle as well, of other lengths.
A process may print at the first tick, a few seconds before those of
`start.c` do.

`Idle`. The steps of `Minuterie` and of `SerieConsole` side by side: idle
advances while `ou` is `"code"`, processes print while it is `"ordonnance"`, and
`RetourIdle` is `mret`, into the `printf` that was cut or behind `wfi`. A trap
that comes just before `wfi` leaves idle there until the next one.

`Console`. A cell shows a character, nothing, a digit of the clock, or is
damaged; a bar is drawn under a cell (drawing and erasing it also clears the
lowest pixel row of the character of the cell, which is left out).
The call `traite_car(c)` is one action chosen by the kind of `c`. `ConsoleTexte`
adds the text that was printed (`page`), until the cursor leaves the screen or
the text exceeds `MaxLignes`; it is then no longer followed (`Perdu`) but the
screen still is. In the text, backspace replaces the character before the cursor
by `Efface`, of which `TexteFidele` says nothing.

`Memoire`, `Recherche`, `Chaines`, `Impression`, `Nombres`, `Champs`,
`Arithmetique`. One action per iteration of a loop of the
function, except the walks to the end of a string in `Chaines`, which are one
step; each call starts from any arguments within the bounds. In `Arithmetique`
every shift and sum is taken modulo 2 * `PoidsFort`. In `Impression` `Tronque`
stores the size of `vsnprintf`, an unsigned long, in an unsigned int, one of
whose `NbInts` values, the last, means no limit.

## 3. Runs

| run | question | bounds |
|---|---|---|
| `ordonnanceur` | does any mix of calls and interrupts keep table, deadlines and clock consistent, and is it a round-robin scheduler? | 4 slots, 2 ticks per second, sleeps of 0, 1, 2 seconds, 9 interrupts |
| `ordonnanceur_plein` | can a dead slot always be reused? (violated) | 3 slots |
| `tourniquet_tranche` | does the timer alone give each process a time slice? (violated) | 3 slots, unbounded time |
| `start` | does the demonstration run for ever, does a ready process always run, a sleeper always wake up? | 6 slots, sleeps 2, 3, 5 as in the code, unbounded time |
| `preemption` | are the kernel calls atomic? | 4 slots, 2 created by `kernel_start`, 7 interrupts |
| `idle` | is `mtvec` ready for the first tick, does the clock keep behind real time, what does idle cut by the timer do to the UART and to the cursor? | periods of 2, 2 ticks per second, time up to 9; 3 rows, 2 columns, lines of 5 and 1 characters, 2 lines of processes in a line of idle |
| `horloge` | does the clock follow real time? (violated) | periods of 3, 2 ticks per second, unbounded time |
| `amorcage` | is idle in the table whenever a trap is served? (violated) | periods of 2, unbounded time |
| `bibliotheque` | does each library function give what is expected of it? cursor, bars, clock, scrolled text | 5 bytes, strings of 3 characters, widths and precisions of -4 to 4, searches in 6 characters, texts of 5 characters, a buffer of 2 and unsigned ints of 2 bits, words of 5 bits; 4 rows and 3 columns, tab stops at 2, texts of 4 lines |
| `champ` | does a field have its width? (violated) | strings of 3 characters, widths and precisions up to 4 |
| `console_visible` | does the cursor stay on the screen? (violated) | 4 rows and 4 columns |
| `console_efface` | does backspace erase a character? (violated) | 4 rows and 4 columns, texts of 1 line |

A behaviour of `bibliotheque` is one call of a library function or any sequence
of calls of the console: `MCBibliotheque` leaves the variables of the one alone
while the other runs.

Why the bounds are enough. Three processes beside idle are needed for one to
run, one to be ready and one to sleep or be dead, and for the walk to skip one;
with four slots the table also fills up. With two ticks per second both values
of the phase occur, and nine interrupts span more than four seconds, more than
two sleeps of the longest duration one after the other. In `start` the table of
six slots is one larger than the demonstration needs, so that reaching it would
be seen. The console needs one row above, one between and one below any row that
scrolls, a tab stop inside a row and one behind its end (that a stop may be the
end itself is left to the theorems, which hold for every width). In `bibliotheque` every
overlap of two areas occurs, texts cross two flushes, and five bits give two
decimal digits, two hexadecimal digits, the most negative number and divisors
whose highest bit is set. In `idle` a line of five characters and its newline
wrap twice and reach the last row from every first one, on which processes add
up to two lines; two lines are enough to move the row from the first to the
last of three, and the bounds of `CurseurBorneEntrelace` are reached. Four
periods pass: two complete seconds, a line of idle cut twice and the next one.

`nb_interruptions` and the length of `texte` are bounded by the runs
(`MaxInterruptions` in the MC modules, `MaxLignes`); the sleeps of a bounded run
go on until the CPU is back in idle. `MaxTemps` bounds `mtime` in `MCIdle`,
where time stops in `Horizon`; `LIGNES_MAX` bounds the lines that processes put
into one line of idle, for the theorems as for the run. Deadlock is checked except where
the system stops: a library call returns (`bibliotheque`, `champ`), and
`Minuterie` stops in `egare` (`amorcage`, `horloge`; `idle` has a step for it).

### Fairness

`Start` assumes weak fairness of the timer interrupt (`trap_handler` sets
`mtimecmp` again each time, and idle waits in `wfi` with interrupts open), of the
end of the handler (straight-line code) and of each step of the programs, and
strong fairness of `kernel_start`'s creations: it is interrupted again and again,
but each time resumed for most of a tick, so it cannot be interrupted for ever
just before its next call. That processes come back to the manager is not
assumed but a property of the programs of `start.c`, each of which sleeps or
ends after finitely many steps; the run `tourniquet_tranche`, with fair
interrupts only, shows that the scheduler starves everyone without it.

### Findings

1. `cree_processus` refuses once every slot was used, although its comment says
   that the slots of dead processes are filled (`processus.c:132`, run
   `ordonnanceur_plein`). With 50 slots and the programs of `start.c` it cannot
   happen: the run `start` shows that five slots are ever used.
2. No time slice: a process elected by the timer is never preempted
   (`README.md:199`, run `tourniquet_tranche`).
3. A character in the last cell of the screen sends the cursor below the screen
   instead of scrolling (`console.c:256`, run `console_visible`).
4. The clock does not follow real time: the next tick is dated from the service
   of the last one, and each period spent masked beyond the first is lost
   (`timer.c:32`, run `horloge`). `HorlogeJamaisEnAvance` shows that the error
   has one sign. A sleep may still be shorter than asked by the part of a second
   that had passed when `dors` was called, since `dors` adds to whole seconds.
5. Interrupts are open while `init_proc` clears the table (`start.c:155-157`).
   If that outlasts the first period, 50 ms, the trap calls `ordonnance` with
   `processus_crees` at 0 (`processus.c:79`, run `amorcage`), although the comment
   of `processus.c:12` says that idle is already created. Whether it does depends
   on the speed of the hart; nothing in the code excludes it. `PremierTickPret`
   says what is left: no trap comes before `mtvec`, and none before the table
   unless a period has passed.
6. Backspace does not erase the previous character, as its comment says
   (`console.c:170`): it moves the cursor only (`console.c:175`, run
   `console_efface`).
7. `%-m.ns` pads a string that it cuts with one blank too few, because the loop
   counts the character at which it stops (`doprnt.c:365`, run `champ`), against
   the description of widths, precisions and left adjustment (`doprnt.c:81-82`).
   `ChampRespecte` says that all other fields are right.

Observations that no run reports.

* In the first commented variant of `start.c` (lines 27-62), whose processes call
  `enable_it`, a process interrupted in `dors` between its two assignments comes
  out before its time (`processus.c:117`), `mepc` is lost when a voluntary switch
  leads to a suspended trap, and seconds are lost or counted twice: `Preemptif =
  TRUE` in `MCPreemption.cfg`, without the check of deadlock, violates
  `SommeilComplet`, `ContextesFideles` and `HorlogeJuste`.
* `disable_it` does nothing.
* `vsnprintf` puts its NUL at `s[size]` when the text does not fit, one byte
  behind an array of `size` bytes, which is what its callers pass
  (`processus.c:182` and `205`). It also stores `size` in 32 bits: 2^32 - 1 means no
  limit and 2^32 means 0. No line of the repository says what `size` counts, so
  there is no claim to violate; `EcritureBornee` holds `savechar` to the array and
  leaves these cases open.
* `strtok` returns empty words between two delimiters, unlike the one of C.
* A byte of the divisor may leave the UART as a character when `init_uart` is cut
  (`SerieFidele` allows one before idle's text and one before its newline).
* Idle may store an old row, so that its next characters are drawn over a line
  that a process has printed meanwhile (`CurseurBorneEntrelace` bounds how far the
  cursor may go, `CurseurRetabli` says until when).
* A sleeper whose deadline has come wakes up one tick late, because
  `trap_handler` schedules before it advances the clock (`RetardDUnTickAuPlus`).

## 4. Proofs

All proofs are checked by TLAPS from the assumptions on the constants that the
modules state (`TableNonVide`, `FrequenceOK`, `DureesOK`, `TailleOK`,
`CaracteresOK`, `TailleMemoireOK`, `TamponOK`, `LimitesOK`, `FormatsOK`,
`LongsOK`, `DemandesOK`, `ChainesOK`, `PoidsFortOK`, `MinuterieOK`,
`AmorcageCourt`, `EcranOK`, `EffaceOK`, `LongueursOK`), with two more
hypotheses that are written in the theorems they concern. `AmorcageCourt` says
that the few dozen instructions from the read of `mtime` in `enable_timer` to the
write of `mtvec` take less than a period, 50 ms; nothing is assumed of
`init_proc`. `~Preemptif`, in `PreemptionPreuves`, says that programs do not call `enable_it`, which is how
`start.c` is compiled; `TableSuffisante`, in `StartPreuves`, that the table has
at least six slots, where `processus.h` gives it fifty. `ChainesOK` says among
other things that the characters of strings and of delimiters are not the NUL.

TLC has checked the strengthened invariants too, on the constants of the runs:
`PInv`, `SInv`, and `ChampEnCours`, `RechercheEnCours`, `AjoutEnCours`,
`DecoupeEnCours` and `RelectureEnCours` (with its quotients computed) of the
library.

* `TablePreuves`. The walk of `ordonnance`, which is defined by the first
  distance at which it stops, stops on an ACTIVABLE slot if there is one
  (`SuivantTrouve`); `PassePartout` says that it passes every slot.
* `OrdonnanceurPreuves`. The inductive invariant is the conjunction of the type
  invariant, `UnSeulElu`, `SectionMasquee`, `ReveilRespecte`, and the statements
  about the clock and the overdue sleepers. None is inductive alone. `UnSeulElu`
  needs `SectionMasquee` because a call is made by `actif` but the table is
  updated at `elu`. The delay of one tick needs that idle is the only suspended
  trap, and that a trap resumed at a multiple of `IT_FREQ` has woken every
  overdue sleeper beforehand. `OrdonnanceElit` and `OrdonnanceEffet` collect what
  `ordonnance` does to the table and are used for its three callers;
  `DivisionUnique` and `SecondeComplete` are the arithmetic of the clock.
  Proved: `TypeOK`, `UnSeulElu`, `SectionMasquee`, `ReveilRespecte`,
  `RetardDUnTickAuPlus`, `HorlogeExacte`, the action property `SommeilIntact`,
  and the refinement `TourniquetSpec`: `OrdonnancePasse` shows that a slot is due
  when it has nothing left to sleep, so that both schedulers choose the same
  process, `OrdonnanceReste` that `ordonnance` wakes only such slots, and there
  is one lemma for each kernel call. The safety of `Tourniquet` thus holds of
  `Ordonnanceur`; its liveness also needs the fairness, which stays with TLC.
* `PreemptionPreuves`. The refinement of the atomic calls of `Ordonnanceur` by
  the steps of the kernel (`AppelsAtomiques`), and with it `ContextesFideles`,
  `SommeilComplet`, `HorlogeJuste` and `PilesBornees`. The inductive invariant
  `PInv` has three parts. `Structure` gives the shape of each stack by the place
  of its process, who is on the CPU and whether interrupts are open: a process
  that is not on the CPU is suspended in `ctx_sw`, or has never run.
  `Progres` relates the state to `fige`, the copy of the state at the last
  moment outside the kernel: at each label it says how much of the call in
  progress has been done. The third part is the invariant of `Ordonnanceur` for
  `fige`. A step inside a call leaves `fige` alone; the last step of a call
  makes one atomic call of what `Progres` has accumulated.
  `AppelsSuivis` joins this refinement to the one of `OrdonnanceurPreuves`: the
  kernel step by step implements `Ordonnanceur`, and therefore `Tourniquet`.
  `AppelsSurs` carries over to it what is proved of the process manager.
* `StartPreuves`. `CreationJamaisRefusee` and `UneIncarnation` from `SInv`. Beside
  the types, its parts say that one process has the CPU (`Tour`), that one
  which has created its successor has not lost the CPU since (`Sortant`), that no
  slot holds a program before its launch (`Lances`), that each launched program
  has exactly one process which has not created its successor yet (`UnFrais`),
  and how many slots are used (`PeuDeCases`). The last one is the property
  itself; it is inductive because a new slot is only taken when no slot is dead,
  and `PasPlusDeQuatre` then counts: four live processes before the creation
  would be four processes of three programs.
* `IdlePreuves`, the timer. The invariant says what has been done at each place, and
  that until the first trap `mtimecmp` is a period after `depart`. This and
  `AmorcageCourt` give `PremierTickPret`; a trap during `init_proc` (`Perdu`)
  comes when that period is over. For the clock, `mtimecmp` is at least
  `nb_interruptions + 1` periods after `depart` whenever no interrupt is being
  dated, since each one is dated from its service, which is never early;
  `UnePeriode` and `MultipleSuivant` are the arithmetic of the division by
  `IT_FREQ`.
* `IdlePreuves`, the composition. `Idle` implements `Minuterie` and `SerieConsole`: each of its
  steps is a step of each or leaves its variables unchanged. All seven
  properties follow for the composition (`IdleSur`).
* `ConsolePreuves`. `TypeOK`, `CurseurBorne`, `UneSeuleBarre`, `HorlogeIntacte`,
  for every size of screen. `CurseurBorne` is inductive with the types;
  `UneSeuleBarre` uses it for the scroll, which moves bars up. `TexteFidele` is
  inductive with them and with `TexteSuivi`, which gives the types of the text
  and keeps the cursor on the screen while the text is followed; `Montre` says
  what a row shows, and each kind of character is an effect on the rows and
  the same effect on the lines of the text; `Conforme` compares a row with a line
  where nothing was rubbed out. `DefilementDesOctets` goes down to
  the frame buffer: `Copie` of `Memoire` with the arguments of the `memmove` of
  `defilement`, then zeros, is `Defilement` on the rows of cells, whatever the
  bytes of a row look like. With `CopieExacteTheoreme` the scroll is right
  although its source and its destination overlap.
* `BibliothequePreuves`, one inductive invariant for each function.
  * `CopieEnCours` (`memmove`): the bytes moved so far are a copy of the original
    ones, the rest is untouched.
  * `FluxEnCours` (`printf`): received, buffered and remaining characters are
    together the text. `EcritureEnCours` (`vsnprintf`): what is written is what
    has been read of the text, as far as it fits in what `max` holds of the size;
    `len` is its length until it wraps.
  * `ChampEnCours` (`%s`) and `LargeurEnCours` (integers): at each place, what
    has been printed of the field, and how much of the width is left.
  * `CalculEnCours` (`stdfct.c`): the product that is left and the one that is
    accumulated are together the product of the arguments modulo a word;
    `DivisionEnCours` for the division, with `aux` a power of two
    (`PuissanceDeDeux`), so that its shifts down undo its shifts up exactly. The
    lemmas are the arithmetic: `DivisionUnique`, `OpposeModulo`,
    `ProduitConserve`, `ResteConserve`, then the signs (`ProduitJuste`,
    `QuotientJuste`).
  * `RechercheEnCours` (`memmem`): no occurrence is before `j` (`Depassees`).
    `PlaceVaut` states an occurrence character by character, and `Decale` that
    a shift passes over none: a shift of two is taken only when the first two
    characters of the word exclude the place in between.
  * `AjoutEnCours` (`strlcat`): the bytes before `fin` are the string and the
    beginning of what is appended, those behind are untouched.
    `DecoupeEnCours` (`strtok`): each word ends where the next one, or `holder`,
    begins; everything from `holder` on is as it was. `TerminaisonVaut` and
    `SpanVaut` say what the walks to the end of a string or of a word find;
    both rest on `PlusPetit`, the least element of a set of numbers.
  * `RelectureEnCours` (`_doprnt`, then `strtoul`): the digits stored so far and
    `u` are together the number, as the quotients of `Deroule`: `u` is the one
    after as many divisions as digits are stored, and each digit is the remainder
    between two of them. `Disposition` gives the layout of what is printed:
    blanks, prefix, zeros, digits, blanks. `MarcheVaut` says where a loop of
    `strtoul` stops, and `LectureVaut` that the values which obey its equation
    are the values it computes: two functions that obeyed it would have a first
    place where they differ (`PlusPetit`), and the equation excludes it. The
    quotients, read backwards, obey it, so `strtoul` goes back through them to
    the number. This takes the place of an induction over the digits.
  * `AppelTheoreme`: `SpecB`, which the run checks, implies the specification of
    each function, about which the theorems above are.

Only model-checked: liveness (`PasDeFamine`, `ToutSommeilFinit`,
`ChacunSonTour`), which involves fairness and ENABLED. Every other property of a
passing run is a theorem. Eight modules hold the proofs.

## 5. Not modelled

The search of the PCI device and the geometry registers of the Bochs screen; the
boot before `enable_timer` (`crt0.S`, sequential); exceptions other than the
timer; the line status of the UART, which the code never reads; the pixels that
idle and a process draw while their lines interleave (`SerieConsole` has the
cursor, `Console` the cells, one line at a time); the strings of processes
(`nom`); `affiche_etats`; the characters of formats and the conversions other
than d, i, u, x, o, s; the functions of `string.c` that walk a string once;
fonts, types, build files.

## 6. Plan

What is left: the cells of the screen while idle's line and a process's
interleave (`SerieConsole` follows the cursor, `Console` the cells); the
conversions of `_doprnt` other than d, i, u, x, o, s; the end pointer of
`strtoul`.
