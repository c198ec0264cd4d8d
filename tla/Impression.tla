----------------------------- MODULE Impression ------------------------------
(***************************************************************************)
(* The two outputs of the formatter: printf_char of printf.c, which        *)
(* gathers characters in a buffer for console_putbytes, and savechar of    *)
(* sprintf.c, which stores them in the memory of the caller (the clock of  *)
(* trap_handler is formatted with it).                                     *)
(*                                                                         *)
(* _doprnt passes the characters of texte one by one to one of them.       *)
(***************************************************************************)
EXTENDS Integers, Sequences

CONSTANTS
  PRINTF_BUFMAX,     \* bytes of the buffer (128)
  Ordinaires,        \* the characters that printf does not look at
  MaxTexte,          \* bound on the length of the text
  NbInts,            \* the number of unsigned ints (2^32)
  Limites            \* the size arguments of vsnprintf, unsigned longs

ASSUME TamponOK == PRINTF_BUFMAX \in Nat \ {0}
ASSUME LimitesOK == NbInts \in Nat \ {0, 1} /\ Limites \subseteq Nat

\* SPRINTF_UNLIMITED, (unsigned int)(-1).
SansLimite == NbInts - 1

SansTaille == -1     \* vsprintf has no size argument

Signes == Ordinaires \cup {"nl", "nul"}

VARIABLES
  sortie_vers,   \* "printf", "sprintf", or "retour" once the call is over
  texte,         \* what _doprnt prints in this call
  reste,         \* what it has not passed yet
  tampon,        \* buf[0 .. index-1] of printf_state
  recu,          \* what console_putbytes has received
  taille,        \* the size argument of vsnprintf
  max,           \* of sprintf_state
  ecrit,         \* the bytes stored from s[0] on, the final NUL included
  len            \* of sprintf_state, the value that is returned

varsI == <<sortie_vers, texte, reste, tampon, recu, taille, max, ecrit, len>>

\* An unsigned long stored in an unsigned int.
Tronque(v) == v % NbInts

InitI ==
  /\ sortie_vers \in {"printf", "sprintf"}
  /\ texte \in UNION {[1 .. k -> Signes] : k \in 0 .. MaxTexte}
  /\ reste = texte
  /\ tampon = <<>> /\ recu = <<>>
  /\ taille \in IF sortie_vers = "printf" THEN {SansTaille}
                ELSE Limites \cup {SansTaille}
  /\ max = IF taille = SansTaille THEN SansLimite ELSE Tronque(taille)
  /\ ecrit = <<>> /\ len = 0

-----------------------------------------------------------------------------
(* printf.                                                                 *)

\* Mutant: the character that finds the buffer full is dropped.
PrintfCharPerdu ==
  /\ sortie_vers = "printf" /\ reste # <<>>
  /\ reste' = Tail(reste)
  /\ IF Head(reste) \in {"nul", "nl"} THEN
       recu' = recu \o Append(tampon, Head(reste)) /\ tampon' = <<>>
     ELSE IF Len(tampon) >= PRINTF_BUFMAX THEN
       recu' = recu \o tampon /\ tampon' = <<>>
     ELSE tampon' = Append(tampon, Head(reste)) /\ UNCHANGED recu
  /\ UNCHANGED <<sortie_vers, texte, taille, max, ecrit, len>>

\* A newline, a NUL and the character that finds the buffer full are sent at
\* once, behind the buffer; the others wait in it.
PrintfChar ==
  /\ sortie_vers = "printf" /\ reste # <<>>
  /\ reste' = Tail(reste)
  /\ IF Head(reste) \in {"nul", "nl"} \/ Len(tampon) >= PRINTF_BUFMAX
     THEN recu' = recu \o Append(tampon, Head(reste)) /\ tampon' = <<>>
     ELSE tampon' = Append(tampon, Head(reste)) /\ UNCHANGED recu
  /\ UNCHANGED <<sortie_vers, texte, taille, max, ecrit, len>>

\* vprintf after _doprnt: the buffer is flushed if it is not empty.
FinPrintf ==
  /\ sortie_vers = "printf" /\ reste = <<>>
  /\ sortie_vers' = "retour"
  /\ recu' = recu \o tampon /\ tampon' = <<>>
  /\ UNCHANGED <<texte, reste, taille, max, ecrit, len>>

-----------------------------------------------------------------------------
(* sprintf.                                                                *)

\* Mutant: the limit is tested after the character is stored.
SavecharTardif ==
  /\ sortie_vers = "sprintf" /\ reste # <<>>
  /\ reste' = Tail(reste)
  /\ IF max # SansLimite /\ len > max THEN UNCHANGED <<ecrit, len>>
     ELSE ecrit' = Append(ecrit, Head(reste)) /\ len' = Tronque(len + 1)
  /\ UNCHANGED <<sortie_vers, texte, tampon, recu, taille, max>>

Savechar ==
  /\ sortie_vers = "sprintf" /\ reste # <<>>
  /\ reste' = Tail(reste)
  /\ IF max # SansLimite /\ len = max THEN UNCHANGED <<ecrit, len>>
     ELSE ecrit' = Append(ecrit, Head(reste)) /\ len' = Tronque(len + 1)
  /\ UNCHANGED <<sortie_vers, texte, tampon, recu, taille, max>>

\* The NUL goes behind the last character stored, without a look at max.
FinSprintf ==
  /\ sortie_vers = "sprintf" /\ reste = <<>>
  /\ sortie_vers' = "retour"
  /\ ecrit' = Append(ecrit, "nul")
  /\ UNCHANGED <<texte, reste, tampon, recu, taille, max, len>>

NextI == PrintfChar \/ FinPrintf \/ Savechar \/ FinSprintf

SpecI == InitI /\ [][NextI]_varsI

-----------------------------------------------------------------------------

\* Whatever is printed, console_putbytes receives every character exactly
\* once and in order, through any number of flushes; nothing is pending when
\* printf returns, and no finished line waits in the buffer meanwhile.
FluxIntact ==
  /\ sortie_vers = "printf" => recu \o (tampon \o reste) = texte
  /\ sortie_vers = "retour" /\ ecrit = <<>> => recu = texte
  /\ Len(tampon) <= PRINTF_BUFMAX
  /\ \A i \in 1 .. Len(tampon) : tampon[i] \in Ordinaires

\* The memory of the caller of vsnprintf, an array of size bytes with size
\* below the value that means no limit: savechar stays in it.  A text that
\* fits in it with its NUL is stored whole and ended there, and its length is
\* returned; of a longer one, size characters are stored.  Nothing is said of
\* the NUL that FinSprintf puts behind these, which is outside the array, nor
\* of a size that an unsigned int cannot hold.
EcritureBornee ==
  /\ sortie_vers = "sprintf" /\ taille \in 0 .. NbInts - 2 =>
       Len(ecrit) <= taille
  /\ sortie_vers = "retour" /\ ecrit # <<>> =>
       /\ taille = SansTaille \/ taille \in Len(texte) + 1 .. NbInts - 1 =>
            /\ ecrit = Append(texte, "nul")
            /\ Len(texte) < NbInts => len = Len(texte)
       /\ taille <= Len(texte) /\ taille \in 0 .. NbInts - 2 =>
            /\ SubSeq(ecrit, 1, taille) = SubSeq(texte, 1, taille)
            /\ len = taille

\* The inductive invariant: FluxIntact, the types of the sequences, and the
\* calls of sprintf apart from those of printf.
FluxEnCours ==
  /\ sortie_vers \in {"printf", "sprintf", "retour"}
  /\ texte \in Seq(Signes) /\ reste \in Seq(Signes)
  /\ tampon \in Seq(Ordinaires) /\ recu \in Seq(Signes)
  /\ ecrit \in Seq(Signes)
  /\ sortie_vers = "printf" => ecrit = <<>>
  /\ FluxIntact
=============================================================================
