------------------------------- MODULE Memoire -------------------------------
(***************************************************************************)
(* memmove of string.c, byte by byte.  defilement relies on it to scroll   *)
(* the frame buffer, a copy whose source and destination overlap.          *)
(*                                                                         *)
(* The memory is a function from addresses to bytes; memmove moves n bytes *)
(* from src to dst.  p, q and n are its local variables.                   *)
(***************************************************************************)
EXTENDS Integers

CONSTANTS
  Taille,        \* bytes of memory
  Octets         \* the values of a byte

ASSUME TailleMemoireOK == Taille \in Nat

VARIABLES
  mem,
  mem0,          \* the memory when memmove was called
  dst, src, n0,  \* its arguments
  p, q, n,
  sens           \* where memmove is

varsM == <<mem, mem0, dst, src, n0, p, q, n, sens>>

Adresses == 0 .. Taille - 1

\* What memmove does to a memory.
Copie(m, d, s, k) ==
  [a \in DOMAIN m |-> IF a \in d .. d + k - 1 THEN m[s + (a - d)] ELSE m[a]]

Arguments ==
  /\ dst \in 0 .. Taille /\ src \in 0 .. Taille /\ n0 \in 0 .. Taille
  /\ dst + n0 <= Taille /\ src + n0 <= Taille

InitM ==
  /\ mem \in [Adresses -> Octets]
  /\ mem0 = mem
  /\ Arguments
  /\ p = src /\ q = dst /\ n = n0
  /\ sens = "choix"

\* Mutant: the direction of the copy is not chosen, as in memcpy.
ChoisitMemcpy ==
  /\ sens = "choix"
  /\ sens' = "avant"
  /\ UNCHANGED <<mem, mem0, dst, src, n0, p, q, n>>

Choisit ==
  /\ sens = "choix"
  /\ \/ q < p /\ sens' = "avant" /\ UNCHANGED <<p, q>>
     \/ q >= p /\ sens' = "arriere" /\ p' = p + n /\ q' = q + n
  /\ UNCHANGED <<mem, mem0, dst, src, n0, n>>

\* One byte, upwards or downwards.
Avant ==
  /\ sens = "avant" /\ n > 0
  /\ mem' = [mem EXCEPT ![q] = mem[p]]
  /\ p' = p + 1 /\ q' = q + 1 /\ n' = n - 1
  /\ UNCHANGED <<mem0, dst, src, n0, sens>>

Arriere ==
  /\ sens = "arriere" /\ n > 0
  /\ mem' = [mem EXCEPT ![q - 1] = mem[p - 1]]
  /\ p' = p - 1 /\ q' = q - 1 /\ n' = n - 1
  /\ UNCHANGED <<mem0, dst, src, n0, sens>>

Fin ==
  /\ sens \in {"avant", "arriere"} /\ n = 0
  /\ sens' = "fini"
  /\ UNCHANGED <<mem, mem0, dst, src, n0, p, q, n>>

NextM == Choisit \/ Avant \/ Arriere \/ Fin

SpecM == InitM /\ [][NextM]_varsM

-----------------------------------------------------------------------------

\* memmove copies the source as it was before the call, whatever the overlap,
\* and changes no other byte.
CopieExacte == sens = "fini" => mem = Copie(mem0, dst, src, n0)

\* The inductive invariant: the bytes already moved are in place, in the
\* order in which the loop moves them, and the others are intact.
CopieEnCours ==
  /\ mem0 \in [Adresses -> Octets]
  /\ Arguments
  /\ n \in 0 .. n0
  /\ sens \in {"choix", "avant", "arriere", "fini"}
  /\ sens = "choix" =>
       mem = mem0 /\ n = n0 /\ p = src /\ q = dst
  /\ sens = "avant" =>
       /\ dst < src
       /\ p = src + (n0 - n) /\ q = dst + (n0 - n)
       /\ mem = Copie(mem0, dst, src, n0 - n)
  /\ sens = "arriere" =>
       /\ dst >= src
       /\ p = src + n /\ q = dst + n
       /\ mem = Copie(mem0, dst + n, src + n, n0 - n)
  /\ sens = "fini" => mem = Copie(mem0, dst, src, n0)
=============================================================================
