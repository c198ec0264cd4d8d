---------------------------- MODULE TablePreuves ----------------------------
(***************************************************************************)
(* Lemmas about the operators of Table, for every size of the table.       *)
(***************************************************************************)
EXTENDS Table, TLAPS

\* The walk of ordonnance, modulo n, without the modulo: at most one turn is
\* made, so the index wraps around at most once.
LEMMA PasModulo ==
  ASSUME NEW n \in Nat \ {0}, NEW s \in Crees(n), NEW d \in 1 .. n
  PROVE  (s + d) % n = IF s + d < n THEN s + d ELSE s + d - n
<1>1. CASE s + d < n
  BY <1>1 DEF Crees
<1>2. CASE s + d >= n
  BY <1>2 DEF Crees
<1>3. QED
  BY <1>1, <1>2 DEF Crees

\* The walk passes through every slot other than its start.
LEMMA PassePartout ==
  ASSUME NEW n \in Nat \ {0}, NEW s \in Crees(n), NEW j \in Crees(n), j # s
  PROVE  \E k \in 1 .. n - 1 : (s + k) % n = j
<1>1. CASE s < j
  <2>1. j - s \in 1 .. n - 1 /\ s + (j - s) < n
    BY <1>1 DEF Crees
  <2>2. (s + (j - s)) % n = j
    BY <2>1, PasModulo DEF Crees
  <2>3. QED
    BY <2>1, <2>2
<1>2. CASE j < s
  <2>1. j - s + n \in 1 .. n - 1 /\ s + (j - s + n) >= n
    BY <1>2 DEF Crees
  <2>2. (s + (j - s + n)) % n = j
    BY <2>1, PasModulo DEF Crees
  <2>3. QED
    BY <2>1, <2>2
<1>3. QED
  BY <1>1, <1>2 DEF Crees

\* The walk stops on a created slot.
LEMMA SuivantCree ==
  ASSUME NEW n \in Nat \ {0}, NEW s \in Crees(n), NEW t, NEW e,
         EstSuivant(e, s, n, t)
  PROVE  t \in Crees(n)
  BY DEF EstSuivant, Crees

\* If any created slot is ACTIVABLE, the search of ordonnance stops on an
\* ACTIVABLE slot; otherwise it comes back to where it started.
LEMMA SuivantTrouve ==
  ASSUME NEW n \in Nat \ {0}, NEW s \in Crees(n), NEW t, NEW e,
         EstSuivant(e, s, n, t)
  PROVE  /\ (\E j \in Crees(n) : e[j] = "ACTIVABLE") => e[t] = "ACTIVABLE"
         /\ e[t] # "ACTIVABLE" => t = s
<1>1. PICK d \in 1 .. n : /\ t = (s + d) % n
                          /\ \A k \in 1 .. d - 1 : e[(s + k) % n] # "ACTIVABLE"
                          /\ e[t] = "ACTIVABLE" \/ d = n
  BY DEF EstSuivant
<1>2. SUFFICES ASSUME e[t] # "ACTIVABLE"
               PROVE  t = s /\ \A j \in Crees(n) : e[j] # "ACTIVABLE"
  OBVIOUS
<1>3. d = n
  BY <1>1, <1>2
<1>4. t = s
  <2>1. (s + n) % n = IF s + n < n THEN s + n ELSE s + n - n
    BY PasModulo
  <2>2. QED
    BY <1>1, <1>3, <2>1 DEF Crees
<1>5. ASSUME NEW j \in Crees(n), j # s
      PROVE  e[j] # "ACTIVABLE"
  BY <1>1, <1>3, <1>5, PassePartout
<1>6. QED
  BY <1>2, <1>4, <1>5
=============================================================================
