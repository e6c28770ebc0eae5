-------------------------- MODULE OsalTimers_proofs --------------------------
(***************************************************************************)
(* Proofs about OsalTimers.  The properties speak of the list as it is     *)
(* reached from timerHead, step by step (Nth); the proofs follow a path    *)
(* through the records that is infinite and stays at NULL once it gets     *)
(* there, so that a step of the code changes one place of it.              *)
(***************************************************************************)
EXTENDS OsalTimers, FiniteSetTheorems, WellFoundedInduction, TLAPS

N == Cardinality(Block)

\* p follows the next pointers from timerHead and meets no record twice.
IsPath(p) ==
    /\ p \in [Nat -> Block \cup {NULL}]
    /\ p[0] = timerHead
    /\ \A i \in Nat : p[i + 1] = IF p[i] = NULL THEN NULL ELSE next[p[i]]
    /\ \A i, j \in Nat : p[i] = p[j] /\ p[i] # NULL => i = j

\* The list meets no record twice.
Distinct == \A i, j \in DOMAIN Nth : Nth[i] = Nth[j] /\ Nth[i] # NULL => i = j

\* What a path tells: where the list ends, its records, and those that the walk
\* has still to visit.
PathTells(p) ==
    /\ Nth[N] = NULL
    /\ Distinct
    /\ \E n \in 0 .. N : \A i \in Nat : p[i] = NULL <=> n <= i
    /\ Listed \subseteq Block
    /\ \A b \in Block : b \in Listed <=> \E i \in Nat : p[i] = b
    /\ \A k, j \in Nat : srchTimer # NULL /\ pc # "idle" /\ p[k] = srchTimer /\ p[j] # NULL
                            => (p[j] \in ToVisit <=> k <= j)

PathLaw == \A p : IsPath(p) => PathTells(p)

\* The list ends, its records and the one being freed are the allocated ones,
\* and the cursors stand on neighbours: ListSound but for its last conjunct.
Linked ==
    /\ Nth[N] = NULL
    /\ Distinct
    /\ heap = Listed \cup ({freeTimer} \ {NULL})
    /\ freeTimer \notin Listed
    /\ pc # "idle" /\ srchTimer # NULL =>
          /\ srchTimer \in Listed
          /\ srchTimer = IF prevTimer = NULL THEN timerHead ELSE next[prevTimer]
    /\ pc # "idle" /\ prevTimer # NULL => prevTimer \in Listed

OneRecord ==
    \A b, c \in Listed :
        rec[b].timer = rec[c].timer /\ rec[b].timer # NoTimer => b = c

\* Between updates there is no walk, and a record waits to be freed exactly
\* while the loop is at it.
Cursors ==
    /\ pc = "idle" => srchTimer = NULL /\ prevTimer = NULL
    /\ freeTimer # NULL <=> pc \in {"signal", "free"}

\* Free blocks hold nothing, and end the list when they are appended.
Unused == \A b \in Block \ heap : rec[b] = Blank /\ next[b] = NULL

\* The inductive invariant.
IInv == TypeOK /\ Linked /\ OneRecord /\ Cursors /\ Unused /\ CountsRealTime

-----------------------------------------------------------------------------
(* Induction, in the form of least elements and of sets.                   *)

LessNat == {ss \in Nat \X Nat : ss[1] < ss[2]}

LEMMA LessNatWF == IsWellFoundedOn(LessNat, Nat)
  BY NatLessThanWellFounded DEF OpToRel, LessNat

LEMMA LeastOf ==
  ASSUME NEW S, S \subseteq Nat, S # {}
  PROVE  \E m \in S : \A k \in S : m <= k
<1>1. \E m \in S : \A k \in S : ~(<<k, m>> \in LessNat)
  BY LessNatWF, WFMin
<1>2. ASSUME NEW k \in Nat, NEW m \in Nat, k < m
      PROVE  <<k, m>> \in LessNat
  BY <1>2 DEF LessNat
<1>3. PICK m \in S : \A k \in S : ~(<<k, m>> \in LessNat)
  BY <1>1
<1>4. ASSUME NEW k \in S PROVE m <= k
  <2>1. ~(k < m)
    BY <1>2, <1>3
  <2> QED
    BY <2>1
<1> QED
  BY <1>3, <1>4

LEMMA SetInduction ==
  ASSUME NEW S, 0 \in S, \A n \in Nat : n \in S => n + 1 \in S
  PROVE  Nat \subseteq S
<1>1. SUFFICES ASSUME Nat \ S # {} PROVE FALSE
  OBVIOUS
<1>2. PICK m \in Nat \ S : \A k \in Nat \ S : m <= k
  BY <1>1, LeastOf
<1>3. m # 0 /\ m - 1 \in Nat
  BY <1>2
<1>4. m - 1 \in S
  BY <1>2, <1>3
<1>5. (m - 1) + 1 \in S
  BY <1>3, <1>4
<1> QED
  BY <1>2, <1>3, <1>5

-----------------------------------------------------------------------------
(* The list.                                                               *)

LEMMA BlockFinite == IsFiniteSet(Block) /\ N \in Nat /\ NULL \notin Block
  BY TimersAssumption, FS_CardinalityType DEF N

\* Nth satisfies the equation that defines it.
LEMMA NthStep ==
  ASSUME NEW L \in Nat, NEW h, NEW nx, NEW F,
         F = CHOOSE f : f = [i \in 0 .. L |-> IF i = 0 THEN h
                             ELSE IF f[i - 1] = NULL THEN NULL ELSE nx[f[i - 1]]]
  PROVE  F = [i \in 0 .. L |-> IF i = 0 THEN h
              ELSE IF F[i - 1] = NULL THEN NULL ELSE nx[F[i - 1]]]
<1> DEFINE Step(m, f) == f = [i \in 0 .. m |-> IF i = 0 THEN h
                              ELSE IF f[i - 1] = NULL THEN NULL ELSE nx[f[i - 1]]]
<1> DEFINE S == {m \in Nat : \E f : Step(m, f)}
<1>1. 0 \in S
  <2>1. Step(0, [i \in 0 .. 0 |-> h])
    OBVIOUS
  <2> QED
    BY <2>1
<1>2. ASSUME NEW n \in Nat, n \in S
      PROVE  n + 1 \in S
  <2>1. PICK f : Step(n, f)
    BY <1>2
  <2>2. DEFINE g == [i \in 0 .. n + 1 |-> IF i <= n THEN f[i]
                      ELSE IF f[n] = NULL THEN NULL ELSE nx[f[n]]]
  <2>3. \A i \in 0 .. n + 1 : g[i] = IF i = 0 THEN h
                   ELSE IF g[i - 1] = NULL THEN NULL ELSE nx[g[i - 1]]
    <3>1. TAKE i \in 0 .. n + 1
    <3>2. CASE i = 0
      BY <2>1, <3>2
    <3>3. CASE i # 0 /\ i <= n
      <4>1. i \in 0 .. n /\ i - 1 \in 0 .. n + 1 /\ i - 1 <= n
        BY <3>3
      <4>2. f[i] = IF f[i - 1] = NULL THEN NULL ELSE nx[f[i - 1]]
        BY <2>1, <3>3, <4>1
      <4> QED
        BY <3>3, <4>1, <4>2
    <3>4. CASE i = n + 1
      <4>1. g[i - 1] = f[n]
        BY <3>4
      <4> QED
        BY <3>4, <4>1
    <3> QED
      BY <3>2, <3>3, <3>4
  <2>4. Step(n + 1, g)
    BY <2>3
  <2>5. n + 1 \in Nat
    OBVIOUS
  <2> HIDE DEF Step, g
  <2> QED
    BY <2>4, <2>5
<1>3. L \in S
  <2> HIDE DEF S
  <2> QED
    BY <1>1, <1>2, SetInduction
<1>4. \E f : Step(L, f)
  BY <1>3
<1>5. F = CHOOSE f : Step(L, f)
  OBVIOUS
<1>6. Step(L, F)
  <2> HIDE DEF Step
  <2> QED
    BY <1>4, <1>5
<1> QED
  BY <1>6

LEMMA PathStaysNull ==
  ASSUME NEW p, IsPath(p), NEW n \in Nat, p[n] = NULL, NEW i \in Nat, n <= i
  PROVE  p[i] = NULL
<1> DEFINE S == {d \in Nat : p[n + d] = NULL}
<1>1. 0 \in S
  OBVIOUS
<1>2. ASSUME NEW d \in Nat, d \in S
      PROVE  d + 1 \in S
  <2>1. p[(n + d) + 1] = NULL
    BY <1>2 DEF IsPath
  <2> QED
    BY <2>1
<1>3. Nat \subseteq S
  <2> HIDE DEF S
  <2> QED
    BY <1>1, <1>2, SetInduction
<1>4. i - n \in S
  BY <1>3
<1> QED
  BY <1>4

\* There are no more records on a path than blocks.
LEMMA PathEnds ==
  ASSUME NEW p, IsPath(p)
  PROVE  p[N] = NULL
<1>1. SUFFICES ASSUME p[N] # NULL PROVE FALSE
  OBVIOUS
<1> USE BlockFinite
<1> DEFINE f == [i \in 0 .. N |-> p[i]]
<1>2. \A i \in 0 .. N : p[i] \in Block
  <2>1. TAKE i \in 0 .. N
  <2>2. p[i] # NULL
    BY <1>1, PathStaysNull
  <2> QED
    BY <2>2 DEF IsPath
<1>3. f \in [0 .. N -> Block]
  BY <1>2
<1>4. IsFiniteSet(0 .. N) /\ Cardinality(0 .. N) = N + 1
  BY FS_Interval
<1>5. N < Cardinality(0 .. N)
  BY <1>4
<1>6. \E x, y \in 0 .. N : x # y /\ f[x] = f[y]
  <2> HIDE DEF f
  <2> QED
    BY <1>3, <1>4, <1>5, FS_PigeonHole DEF N
<1>7. PICK x \in 0 .. N, y \in 0 .. N : x # y /\ p[x] = p[y]
  BY <1>6
<1>8. x \in Nat /\ y \in Nat /\ p[x] # NULL
  BY <1>2, <1>7
<1> QED
  BY <1>7, <1>8 DEF IsPath

LEMMA NthEquation ==
  Nth = [i \in 0 .. N |-> IF i = 0 THEN timerHead
         ELSE IF Nth[i - 1] = NULL THEN NULL ELSE next[Nth[i - 1]]]
<1>1. Nth = CHOOSE f : f = [i \in 0 .. N |-> IF i = 0 THEN timerHead
            ELSE IF f[i - 1] = NULL THEN NULL ELSE next[f[i - 1]]]
  BY DEF Nth, N
<1>2. N \in Nat
  BY BlockFinite
<1> QED
  BY <1>1, <1>2, NthStep

LEMMA NthIsPath ==
  ASSUME NEW p, IsPath(p)
  PROVE  DOMAIN Nth = 0 .. N /\ \A i \in 0 .. N : Nth[i] = p[i]
<1> USE BlockFinite
<1>1. Nth = [i \in 0 .. N |-> IF i = 0 THEN timerHead
             ELSE IF Nth[i - 1] = NULL THEN NULL ELSE next[Nth[i - 1]]]
  BY NthEquation
<1> DEFINE S == {i \in Nat : i <= N => Nth[i] = p[i]}
<1>2. 0 \in S
  BY <1>1 DEF IsPath
<1>3. ASSUME NEW i \in Nat, i \in S
      PROVE  i + 1 \in S
  <2>1. SUFFICES ASSUME i + 1 <= N PROVE Nth[i + 1] = p[i + 1]
    OBVIOUS
  <2>2. i \in 0 .. N /\ i + 1 \in 0 .. N /\ i + 1 # 0 /\ (i + 1) - 1 = i
    BY <2>1
  <2>3. Nth[i] = p[i]
    BY <1>3, <2>2
  <2>4. Nth[i + 1] = IF Nth[i] = NULL THEN NULL ELSE next[Nth[i]]
    BY <1>1, <2>2
  <2> QED
    BY <2>3, <2>4 DEF IsPath
<1>4. Nat \subseteq S
  <2> HIDE DEF S
  <2> QED
    BY <1>2, <1>3, SetInduction
<1>5. DOMAIN Nth = 0 .. N
  BY <1>1
<1> QED
  BY <1>4, <1>5

LEMMA PathFacts == PathLaw
<1> SUFFICES ASSUME NEW p, IsPath(p) PROVE PathTells(p)
  BY DEF PathLaw
<1> USE BlockFinite
<1>1. DOMAIN Nth = 0 .. N /\ \A i \in 0 .. N : Nth[i] = p[i]
  BY NthIsPath
<1>2. p[N] = NULL
  BY PathEnds
<1> DEFINE S == {i \in Nat : p[i] = NULL}
<1>3. PICK n \in S : \A k \in S : n <= k
  <2>1. N \in S /\ S \subseteq Nat
    BY <1>2
  <2> HIDE DEF S
  <2> QED
    BY <2>1, LeastOf
<1>4. n \in 0 .. N
  BY <1>2, <1>3
<1>5. \A i \in Nat : p[i] = NULL <=> n <= i
  <2>1. TAKE i \in Nat
  <2>2. n <= i => p[i] = NULL
    BY <1>3, PathStaysNull
  <2> QED
    BY <1>3, <2>2
<1>6. ASSUME NEW i \in Nat, p[i] # NULL
      PROVE  i \in 0 .. N /\ p[i] \in Block
  BY <1>4, <1>5, <1>6 DEF IsPath
<1>7. \A b \in Block : b \in Listed <=> \E i \in Nat : p[i] = b
  BY <1>1, <1>6 DEF Listed
<1>8. Nth[N] = NULL /\ Listed \subseteq Block
  BY <1>1, <1>2, <1>6 DEF Listed
<1>9. Distinct
  BY <1>1 DEF Distinct, IsPath
<1>10. ASSUME NEW k \in Nat, NEW j \in Nat, srchTimer # NULL, pc # "idle",
              p[k] = srchTimer, p[j] # NULL
       PROVE  p[j] \in ToVisit <=> k <= j
  <2>1. k \in 0 .. N /\ j \in 0 .. N /\ Nth[k] = srchTimer /\ Nth[j] = p[j]
    BY <1>1, <1>6, <1>10
  <2>2. p[j] \in Listed
    BY <1>6, <1>7, <1>10
  <2>3. p[j] \in ToVisit <=> \E x, y \in 0 .. N : x <= y /\ Nth[x] = Nth[k] /\ Nth[y] = Nth[j]
    BY <1>1, <1>10, <2>1, <2>2 DEF ToVisit
  <2>4. \A x, y \in 0 .. N : Nth[x] = Nth[k] /\ Nth[y] = Nth[j] => x = k /\ y = j
    BY <1>1, <1>9, <1>10, <2>1 DEF Distinct
  <2> QED
    BY <2>1, <2>3, <2>4
<1> QED
  BY <1>4, <1>5, <1>7, <1>8, <1>9, <1>10 DEF PathTells

\* The list of a state that satisfies the invariant is a path.
LEMMA PathExists ==
  ASSUME TypeOK, Nth[N] = NULL, Distinct
  PROVE  \E p : IsPath(p)
<1> USE BlockFinite
<1> DEFINE p == [i \in Nat |-> IF i <= N THEN Nth[i] ELSE NULL]
<1>1. /\ DOMAIN Nth = 0 .. N
      /\ \A i \in 0 .. N : Nth[i] = IF i = 0 THEN timerHead
                           ELSE IF Nth[i - 1] = NULL THEN NULL ELSE next[Nth[i - 1]]
  BY NthEquation
<1> DEFINE S == {i \in Nat : p[i] \in Block \cup {NULL}}
<1>2. 0 \in S
  BY <1>1 DEF TypeOK
<1>3. ASSUME NEW i \in Nat
      PROVE  p[i + 1] = IF p[i] = NULL THEN NULL ELSE next[p[i]]
  <2>1. CASE i + 1 <= N
    <3>1. i \in 0 .. N /\ i + 1 \in 0 .. N /\ i + 1 # 0 /\ (i + 1) - 1 = i
      BY <2>1
    <3> QED
      BY <1>1, <2>1, <3>1
  <2>2. CASE ~(i + 1 <= N)
    BY <2>2
  <2> QED
    BY <2>1, <2>2
<1>4. ASSUME NEW i \in Nat, i \in S
      PROVE  i + 1 \in S
  BY <1>3, <1>4 DEF TypeOK
<1>5. Nat \subseteq S
  <2> HIDE DEF S
  <2> QED
    BY <1>2, <1>4, SetInduction
<1>6. p \in [Nat -> Block \cup {NULL}]
  BY <1>5
<1>7. \A i, j \in Nat : p[i] = p[j] /\ p[i] # NULL => i = j
  BY <1>1 DEF Distinct
<1>8. p[0] = timerHead
  BY <1>1
<1> HIDE DEF p
<1>9. IsPath(p)
  BY <1>3, <1>6, <1>7, <1>8 DEF IsPath
<1> QED
  BY <1>9

LEMMA PathFactsNext == PathLaw'
  BY PathFacts, PTL

LEMMA PathOfInv ==
  ASSUME IInv
  PROVE  \E p : IsPath(p) /\ PathTells(p)
  BY PathExists, PathFacts DEF IInv, Linked, PathLaw

LEMMA ListSoundOfInv == IInv => ListSound
  BY DEF IInv, Linked, OneRecord, ListSound, N

LEMMA InitInv == Init => IInv
<1> SUFFICES ASSUME Init PROVE IInv
  OBVIOUS
<1> USE BlockFinite
<1> DEFINE p == [i \in Nat |-> NULL]
<1>1. IsPath(p)
  BY DEF IsPath, Init
<1>2. PathTells(p)
  <2> HIDE DEF p
  <2> QED
    BY <1>1, PathFacts DEF PathLaw
<1>3. Listed = {}
  BY <1>2 DEF PathTells
<1>4. TypeOK
  BY TimersAssumption DEF Init, TypeOK, Record, Blank
<1>5. Linked
  BY <1>2, <1>3 DEF Init, Linked, PathTells
<1>6. OneRecord /\ CountsRealTime
  BY <1>3 DEF OneRecord, CountsRealTime
<1>7. Cursors /\ Unused
  BY DEF Init, Cursors, Unused
<1> QED
  BY <1>4, <1>5, <1>6, <1>7 DEF IInv

-----------------------------------------------------------------------------
(* What the steps do to the list.                                          *)

\* Where the next pointers stay, so does the list.
LEMMA SameList ==
  ASSUME UNCHANGED <<timerHead, next>>
  PROVE  Nth' = Nth /\ Listed' = Listed /\ Distinct' = Distinct
  BY DEF Nth, Listed, Distinct

LEMMA SameToVisit ==
  ASSUME UNCHANGED <<timerHead, next, pc, srchTimer>>
  PROVE  ToVisit' = ToVisit
  BY SameList DEF ToVisit

\* A record appended by the main loop or, while the loop walks, by an interrupt
\* service routine.
LEMMA AppendKeeps ==
  ASSUME IInv, NEW b \in Block \ heap, AppendRecord(b),
         UNCHANGED <<pc, srchTimer, prevTimer, freeTimer>>
  PROVE  /\ Linked'
         /\ Listed' = Listed \cup {b}
         /\ \A c \in Listed : c \in ToVisit' <=> c \in ToVisit
         /\ timerHead' \in Block \cup {NULL}
         /\ next' \in [Block -> Block \cup {NULL}]
         /\ \A c \in Block \ heap' : next'[c] = NULL
<1> USE BlockFinite
<1>1. PICK p : IsPath(p) /\ PathTells(p)
  BY PathOfInv
<1>2. PICK n \in 0 .. N : \A i \in Nat : p[i] = NULL <=> n <= i
  BY <1>1 DEF PathTells
<1>3. b \notin Listed /\ b # NULL /\ next[b] = NULL /\ b # freeTimer
  BY DEF IInv, Linked, Unused
<1>4. \A i \in Nat : p[i] # NULL => p[i] \in Listed /\ p[i] \in Block
  BY <1>1 DEF IsPath, PathTells
<1> DEFINE q == [p EXCEPT ![n] = b]
<1>5. \A i \in Nat : q[i] = IF i = n THEN b ELSE p[i]
  BY <1>1, <1>2 DEF IsPath
<1>6. /\ timerHead' \in Block \cup {NULL}
      /\ next' \in [Block -> Block \cup {NULL}]
      /\ \A c \in Listed : next[c] # NULL => next'[c] = next[c]
      /\ next'[b] = NULL
      /\ timerHead # NULL => timerHead' = timerHead
      /\ \A c \in Block \ heap : next'[c] = NULL
      /\ n = 0 => timerHead' = b
      /\ n # 0 => next'[p[n - 1]] = b
  <2>1. CASE timerHead = NULL
    <3>1. n = 0
      BY <1>1, <1>2, <2>1 DEF IsPath
    <3>2. timerHead' = b /\ next' = next
      BY <2>1 DEF AppendRecord
    <3> QED
      BY <1>3, <2>1, <3>1, <3>2 DEF IInv, TypeOK, Unused
  <2>2. CASE timerHead # NULL
    <3>1. n # 0 /\ n - 1 \in Nat
      BY <1>1, <1>2, <2>2 DEF IsPath
    <3>2. PICK last \in Listed : next[last] = NULL /\ next' = [next EXCEPT ![last] = b]
      BY <2>2 DEF AppendRecord
    <3>3. last \in Block /\ last # NULL
      BY <1>1, <3>2 DEF PathTells
    <3>4. PICK i \in Nat : p[i] = last
      BY <1>1, <3>2, <3>3 DEF PathTells
    <3>5. p[i + 1] = NULL /\ p[i] # NULL
      BY <1>1, <3>2, <3>3, <3>4 DEF IsPath
    <3>6. i = n - 1
      BY <1>2, <3>5
    <3>7. last # b /\ timerHead' = timerHead /\ last \in heap
      BY <1>3, <2>2, <3>2 DEF AppendRecord, IInv, Linked
    <3> QED
      BY <1>3, <3>1, <3>2, <3>3, <3>4, <3>6, <3>7, <2>2 DEF IInv, TypeOK, Unused
  <2> QED
    BY <2>1, <2>2
<1>7. IsPath(q)'
  <2>1. q \in [Nat -> Block \cup {NULL}]
    BY <1>1 DEF IsPath
  <2>2. q[0] = timerHead'
    <3>1. p[0] = timerHead
      BY <1>1 DEF IsPath
    <3> QED
      BY <1>2, <1>5, <1>6, <3>1
  <2>3. ASSUME NEW i \in Nat
        PROVE  q[i + 1] = IF q[i] = NULL THEN NULL ELSE next'[q[i]]
    <3>1. p[i + 1] = IF p[i] = NULL THEN NULL ELSE next[p[i]]
      BY <1>1 DEF IsPath
    <3>2. CASE i + 1 < n
      BY <1>2, <1>4, <1>5, <1>6, <3>1, <3>2
    <3>3. CASE i + 1 = n
      BY <1>2, <1>5, <1>6, <3>3
    <3>4. CASE i = n
      BY <1>2, <1>3, <1>5, <1>6, <3>4
    <3>5. CASE i > n
      BY <1>2, <1>5, <3>5
    <3> QED
      BY <3>2, <3>3, <3>4, <3>5
  <2>4. ASSUME NEW i \in Nat, NEW j \in Nat, q[i] = q[j], q[i] # NULL
        PROVE  i = j
    <3>1. p[i] # b /\ p[j] # b
      BY <1>3, <1>4
    <3>2. p[i] = p[j] /\ p[i] # NULL => i = j
      BY <1>1 DEF IsPath
    <3> QED
      BY <1>5, <2>4, <3>1, <3>2
  <2> HIDE DEF q
  <2> QED
    BY <2>1, <2>2, <2>3, <2>4 DEF IsPath
<1>8. PathTells(q)'
  <2> HIDE DEF q
  <2> QED
    BY <1>7, PathFactsNext DEF PathLaw
<1>9. Listed' = Listed \cup {b}
  <2>1. Listed \subseteq Block /\ Listed' \subseteq Block
    BY <1>1, <1>8 DEF PathTells
  <2>2. ASSUME NEW c \in Block
        PROVE  (\E i \in Nat : q[i] = c) <=> c = b \/ \E i \in Nat : p[i] = c
    BY <1>2, <1>5
  <2> HIDE DEF q
  <2>3. \A c \in Block : c \in Listed' <=> c = b \/ c \in Listed
    BY <1>1, <1>8, <2>2 DEF PathTells
  <2> QED
    BY <2>1, <2>3
<1>10. ASSUME NEW c \in Listed
       PROVE  c \in ToVisit' <=> c \in ToVisit
  <2>1. CASE pc = "idle" \/ srchTimer = NULL
    BY <2>1 DEF ToVisit
  <2>2. CASE pc # "idle" /\ srchTimer # NULL
    <3>1. srchTimer \in Listed /\ srchTimer \in Block /\ c \in Block
      BY <1>1, <2>2 DEF IInv, Linked, PathTells
    <3>2. PICK k \in Nat : p[k] = srchTimer
      BY <1>1, <3>1 DEF PathTells
    <3>3. PICK j \in Nat : p[j] = c
      BY <1>1, <3>1 DEF PathTells
    <3>4. q[k] = srchTimer /\ q[j] = c /\ c # NULL
      BY <1>2, <1>5, <2>2, <3>1, <3>2, <3>3
    <3> HIDE DEF q
    <3>5. c \in ToVisit <=> k <= j
      BY <1>1, <2>2, <3>2, <3>3, <3>4 DEF PathTells
    <3>6. c \in ToVisit' <=> k <= j
      BY <1>8, <2>2, <3>4 DEF PathTells
    <3> QED
      BY <3>5, <3>6
  <2> QED
    BY <2>1, <2>2
<1>11. Linked'
  <2>1. (Nth[N] = NULL)' /\ Distinct'
    BY <1>8 DEF PathTells
  <2>2. heap' = Listed' \cup ({freeTimer'} \ {NULL}) /\ freeTimer' \notin Listed'
    BY <1>3, <1>9 DEF IInv, Linked, AppendRecord
  <2>3. pc' # "idle" /\ srchTimer' # NULL =>
          /\ srchTimer' \in Listed'
          /\ srchTimer' = IF prevTimer' = NULL THEN timerHead' ELSE next'[prevTimer']
    BY <1>6, <1>9 DEF IInv, Linked
  <2>4. pc' # "idle" /\ prevTimer' # NULL => prevTimer' \in Listed'
    BY <1>9 DEF IInv, Linked
  <2> QED
    BY <2>1, <2>2, <2>3, <2>4 DEF Linked
<1>12. heap' = heap \cup {b}
  BY DEF AppendRecord
<1> QED
  BY <1>6, <1>9, <1>10, <1>11, <1>12

\* Where the walk stands: at a place of the path, prevTimer one before it.
LEMMA CursorAt ==
  ASSUME IInv, NEW p, IsPath(p), PathTells(p), pc # "idle", srchTimer # NULL
  PROVE  /\ srchTimer \in Listed /\ srchTimer \in Block
         /\ \E k \in Nat : /\ p[k] = srchTimer
                           /\ prevTimer = IF k = 0 THEN NULL ELSE p[k - 1]
<1>1. srchTimer \in Listed /\ srchTimer \in Block
  BY DEF IInv, Linked, PathTells
<1>2. CASE prevTimer = NULL
  <2>1. p[0] = srchTimer
    BY <1>2 DEF IInv, Linked, IsPath
  <2> QED
    BY <1>1, <1>2, <2>1
<1>3. CASE prevTimer # NULL
  <2>1. prevTimer \in Listed /\ prevTimer \in Block
    BY <1>3 DEF IInv, Linked, PathTells
  <2>2. PICK j \in Nat : p[j] = prevTimer
    BY <2>1 DEF PathTells
  <2>3. p[j + 1] = srchTimer
    BY <1>3, <2>2 DEF IInv, Linked, IsPath
  <2>4. j + 1 \in Nat /\ j + 1 # 0 /\ (j + 1) - 1 = j
    BY <2>2
  <2> QED
    BY <1>1, <1>3, <2>2, <2>3, <2>4
<1> QED
  BY <1>2, <1>3

\* The walk takes the record it stands on out of the list.
LEMMA UnlinkKeeps ==
  ASSUME IInv, pc = "walk", srchTimer # NULL,
         timerHead' = IF prevTimer = NULL THEN next[srchTimer] ELSE timerHead,
         next' = IF prevTimer # NULL THEN [next EXCEPT ![prevTimer] = next[srchTimer]] ELSE next,
         freeTimer' = srchTimer, prevTimer' = prevTimer, srchTimer' = next[srchTimer],
         pc' = "signal", heap' = heap
  PROVE  /\ Linked'
         /\ srchTimer \in Block
         /\ srchTimer \in Listed
         /\ Listed' = Listed \ {srchTimer}
         /\ \A c \in Listed' : c \in ToVisit' <=> c \in ToVisit
         /\ {timerHead', srchTimer'} \subseteq Block \cup {NULL}
         /\ next' \in [Block -> Block \cup {NULL}]
         /\ \A c \in Block \ heap : next'[c] = next[c]
<1> USE BlockFinite
<1>1. PICK p : IsPath(p) /\ PathTells(p)
  BY PathOfInv
<1>2. srchTimer \in Listed /\ srchTimer \in Block
  BY <1>1, CursorAt
<1>3. PICK k \in Nat : p[k] = srchTimer /\ prevTimer = IF k = 0 THEN NULL ELSE p[k - 1]
  BY <1>1, CursorAt
<1>4. \A i \in Nat : p[i] # NULL => p[i] \in Listed /\ p[i] \in Block
  BY <1>1 DEF IsPath, PathTells
<1>5. \A i \in Nat : p[i + 1] = IF p[i] = NULL THEN NULL ELSE next[p[i]]
  BY <1>1 DEF IsPath
<1>6. \A i, j \in Nat : p[i] = p[j] /\ p[i] # NULL => i = j
  BY <1>1 DEF IsPath
<1>7. p[0] = timerHead /\ p[k + 1] = next[srchTimer]
  BY <1>1, <1>3, <1>5 DEF IsPath
<1>8. \A i \in Nat : p[i] = NULL => p[i + 1] = NULL
  BY <1>5
<1>9. k # 0 => k - 1 \in Nat /\ p[k - 1] # NULL /\ prevTimer = p[k - 1]
  <2>1. SUFFICES ASSUME k # 0 PROVE k - 1 \in Nat /\ p[k - 1] # NULL /\ prevTimer = p[k - 1]
    OBVIOUS
  <2>2. k - 1 \in Nat /\ (k - 1) + 1 = k
    BY <2>1
  <2> QED
    BY <1>3, <1>8, <2>1, <2>2
<1> DEFINE q == [i \in Nat |-> IF i < k THEN p[i] ELSE p[i + 1]]
<1>10. \A c \in Block : next'[c] = IF c = prevTimer THEN next[srchTimer] ELSE next[c]
  BY DEF IInv, TypeOK
<1>11. /\ next' \in [Block -> Block \cup {NULL}]
       /\ {timerHead', srchTimer'} \subseteq Block \cup {NULL}
  BY <1>2 DEF IInv, TypeOK
<1>12. IsPath(q)'
  <2>1. q \in [Nat -> Block \cup {NULL}]
    BY <1>1 DEF IsPath
  <2>2. q[0] = timerHead'
    BY <1>3, <1>7, <1>9
  <2>3. ASSUME NEW i \in Nat
        PROVE  q[i + 1] = IF q[i] = NULL THEN NULL ELSE next'[q[i]]
    <3>1. CASE i + 1 < k
      <4>1. p[i] # p[k - 1] \/ p[i] = NULL
        BY <1>6, <1>9, <3>1
      <4>2. q[i] = p[i] /\ q[i + 1] = p[i + 1]
        BY <3>1
      <4> QED
        BY <1>4, <1>5, <1>9, <1>10, <3>1, <4>1, <4>2
    <3>2. CASE i + 1 = k
      <4>1. q[i] = prevTimer /\ q[i] \in Block /\ q[i + 1] = p[k + 1]
        BY <1>4, <1>9, <3>2
      <4> QED
        BY <1>7, <1>10, <4>1
    <3>3. CASE i + 1 > k
      <4>1. q[i] = p[i + 1] /\ q[i + 1] = p[(i + 1) + 1] /\ i + 1 \in Nat
        BY <3>3
      <4>2. p[i + 1] = NULL \/ prevTimer # p[i + 1]
        BY <1>3, <1>6, <1>9, <3>3
      <4> QED
        BY <1>4, <1>5, <1>10, <4>1, <4>2
    <3> QED
      BY <3>1, <3>2, <3>3
  <2>4. ASSUME NEW i \in Nat, NEW j \in Nat, q[i] = q[j], q[i] # NULL
        PROVE  i = j
    BY <1>6, <2>4
  <2> HIDE DEF q
  <2> QED
    BY <2>1, <2>2, <2>3, <2>4 DEF IsPath
<1>13. PathTells(q)'
  <2> HIDE DEF q
  <2> QED
    BY <1>12, PathFactsNext DEF PathLaw
<1>14. Listed' = Listed \ {srchTimer}
  <2>1. Listed \subseteq Block /\ Listed' \subseteq Block
    BY <1>1, <1>13 DEF PathTells
  <2>2. ASSUME NEW c \in Block
        PROVE  (\E i \in Nat : q[i] = c) <=> c # srchTimer /\ \E i \in Nat : p[i] = c
    <3>1. ASSUME NEW i \in Nat, q[i] = c
          PROVE  c # srchTimer /\ \E j \in Nat : p[j] = c
      BY <1>3, <1>6, <3>1
    <3>2. ASSUME NEW i \in Nat, p[i] = c, c # srchTimer
          PROVE  \E j \in Nat : q[j] = c
      <4>1. CASE i < k
        BY <3>2, <4>1
      <4>2. CASE i > k
        <5>1. i - 1 \in Nat /\ q[i - 1] = p[i]
          BY <4>2
        <5> QED
          BY <3>2, <5>1
      <4> QED
        BY <1>3, <3>2, <4>1, <4>2
    <3> QED
      BY <3>1, <3>2
  <2> HIDE DEF q
  <2>3. \A c \in Block : c \in Listed' <=> c # srchTimer /\ c \in Listed
    BY <1>1, <1>13, <2>2 DEF PathTells
  <2> QED
    BY <2>1, <2>3
<1>15. ASSUME NEW c \in Listed'
       PROVE  c \in ToVisit' <=> c \in ToVisit
  <2>1. c \in Listed /\ c # srchTimer /\ c \in Block
    BY <1>1, <1>14 DEF PathTells
  <2>2. PICK j \in Nat : p[j] = c
    BY <1>1, <2>1 DEF PathTells
  <2>3. c # NULL /\ j # k
    BY <1>3, <2>1, <2>2
  <2>4. c \in ToVisit <=> k <= j
    BY <1>1, <1>3, <2>2, <2>3 DEF PathTells
  <2>5. q[k] = srchTimer'
    BY <1>7
  <2>6. CASE srchTimer' = NULL
    <3>1. j < k
      <4>1. p[k + 1] = NULL
        BY <1>7, <2>6
      <4>2. PICK n \in 0 .. N : \A i \in Nat : p[i] = NULL <=> n <= i
        BY <1>1 DEF PathTells
      <4> QED
        BY <2>2, <2>3, <4>1, <4>2
    <3>2. c \notin ToVisit'
      BY <2>6 DEF ToVisit
    <3> QED
      BY <2>4, <3>1, <3>2
  <2>7. CASE srchTimer' # NULL
    <3>1. CASE j < k
      <4>1. q[j] = c
        BY <2>2, <3>1
      <4> HIDE DEF q
      <4>2. c \in ToVisit' <=> k <= j
        BY <1>13, <2>3, <2>5, <2>7, <4>1 DEF PathTells
      <4> QED
        BY <2>4, <4>2
    <3>2. CASE j > k
      <4>1. q[j - 1] = c /\ j - 1 \in Nat /\ k <= j - 1
        BY <2>2, <3>2
      <4> HIDE DEF q
      <4>2. c \in ToVisit' <=> k <= j - 1
        BY <1>13, <2>3, <2>5, <2>7, <4>1 DEF PathTells
      <4> QED
        BY <2>4, <3>2, <4>1, <4>2
    <3> QED
      BY <2>3, <3>1, <3>2
  <2> QED
    BY <2>6, <2>7
<1>16. Linked'
  <2>1. (Nth[N] = NULL)' /\ Distinct'
    BY <1>13 DEF PathTells
  <2>2. heap' = Listed' \cup ({freeTimer'} \ {NULL}) /\ freeTimer' \notin Listed'
    BY <1>2, <1>14 DEF IInv, Linked, Cursors
  <2>3. prevTimer' # NULL => prevTimer' \in Listed'
    BY <1>3, <1>4, <1>6, <1>9, <1>14
  <2>4. srchTimer' # NULL =>
          /\ srchTimer' \in Listed'
          /\ srchTimer' = IF prevTimer' = NULL THEN timerHead' ELSE next'[prevTimer']
    <3>1. SUFFICES ASSUME srchTimer' # NULL
                   PROVE  /\ srchTimer' \in Listed'
                          /\ srchTimer' = IF prevTimer' = NULL THEN timerHead'
                                          ELSE next'[prevTimer']
      OBVIOUS
    <3>2. p[k + 1] = srchTimer' /\ p[k + 1] \in Listed /\ p[k + 1] # p[k]
      BY <1>3, <1>4, <1>6, <1>7, <3>1
    <3>3. prevTimer # NULL => prevTimer \in Block
      BY <1>3, <1>4, <1>9
    <3> QED
      BY <1>3, <1>10, <1>14, <3>2, <3>3
  <2> QED
    BY <2>1, <2>2, <2>3, <2>4 DEF Linked
<1>17. \A c \in Block \ heap : next'[c] = next[c]
  BY <1>3, <1>4, <1>9, <1>10 DEF IInv, Linked
<1> QED
  BY <1>2, <1>11, <1>14, <1>15, <1>16, <1>17

\* The walk goes on to the next record.
LEMMA AdvanceKeeps ==
  ASSUME IInv, pc = "walk", srchTimer # NULL, UNCHANGED <<timerHead, next, heap>>,
         freeTimer' = NULL, prevTimer' = srchTimer, srchTimer' = next[srchTimer], pc' = "walk"
  PROVE  /\ Linked'
         /\ srchTimer \in Block
         /\ srchTimer \in Listed
         /\ Listed' = Listed
         /\ srchTimer \in ToVisit /\ srchTimer \notin ToVisit'
         /\ \A c \in Listed \ {srchTimer} : c \in ToVisit' <=> c \in ToVisit
         /\ srchTimer' \in Block \cup {NULL}
<1> USE BlockFinite
<1>1. PICK p : IsPath(p) /\ PathTells(p)
  BY PathOfInv
<1>2. srchTimer \in Listed /\ srchTimer \in Block
  BY <1>1, CursorAt
<1>3. PICK k \in Nat : p[k] = srchTimer
  BY <1>1, CursorAt
<1>4. p[k + 1] = srchTimer' /\ k + 1 \in Nat
  BY <1>1, <1>3 DEF IsPath
<1>5. IsPath(p)'
  BY <1>1 DEF IsPath
<1>6. PathTells(p)'
  BY <1>5, PathFactsNext DEF PathLaw
<1>7. Listed' = Listed
  BY SameList
<1>8. ASSUME NEW c \in Listed
      PROVE  c \in ToVisit' <=> c \in ToVisit /\ c # srchTimer
  <2>1. c \in Block /\ c # NULL
    BY <1>1 DEF PathTells
  <2>2. PICK j \in Nat : p[j] = c
    BY <1>1, <2>1 DEF PathTells
  <2>3. c \in ToVisit <=> k <= j
    BY <1>1, <1>3, <2>1, <2>2 DEF PathTells
  <2>4. c = srchTimer <=> j = k
    BY <1>1, <1>3, <2>1, <2>2 DEF IsPath
  <2>5. CASE srchTimer' = NULL
    <3>1. PICK n \in 0 .. N : \A i \in Nat : p[i] = NULL <=> n <= i
      BY <1>1 DEF PathTells
    <3>2. j <= k
      BY <1>4, <2>1, <2>2, <2>5, <3>1
    <3>3. c \notin ToVisit'
      BY <2>5 DEF ToVisit
    <3> QED
      BY <2>3, <2>4, <3>2, <3>3
  <2>6. CASE srchTimer' # NULL
    <3>1. c \in ToVisit' <=> k + 1 <= j
      BY <1>4, <1>6, <2>1, <2>2, <2>6 DEF PathTells
    <3> QED
      BY <2>3, <2>4, <3>1
  <2> QED
    BY <2>5, <2>6
<1>9. srchTimer \in ToVisit
  BY <1>1, <1>2, <1>3 DEF PathTells
<1>10. srchTimer' \in Block \cup {NULL}
  BY <1>2 DEF IInv, TypeOK
<1>11. Linked'
  <2>1. (Nth[N] = NULL)' /\ Distinct'
    BY <1>6 DEF PathTells
  <2>2. heap' = Listed' \cup ({freeTimer'} \ {NULL}) /\ freeTimer' \notin Listed'
    BY <1>1, <1>7 DEF IInv, Linked, Cursors, PathTells
  <2>3. srchTimer' # NULL => srchTimer' \in Listed'
    BY <1>4, <1>6, <1>10 DEF PathTells
  <2> QED
    BY <1>2, <1>7, <2>1, <2>2, <2>3 DEF Linked
<1> QED
  BY <1>2, <1>7, <1>8, <1>9, <1>10, <1>11

\* The record taken out of the list is freed.
LEMMA FreeKeeps ==
  ASSUME IInv, pc = "free", FreeRecord
  PROVE  /\ Linked'
         /\ freeTimer \in Block
         /\ Listed' = Listed
         /\ ToVisit' = ToVisit
         /\ next' \in [Block -> Block \cup {NULL}]
<1> USE BlockFinite
<1>1. PICK p : IsPath(p) /\ PathTells(p)
  BY PathOfInv
<1>2. freeTimer \in Block /\ freeTimer \notin Listed /\ freeTimer # NULL
  BY DEF IInv, TypeOK, Linked, Cursors
<1>3. next' = [next EXCEPT ![freeTimer] = NULL] /\ timerHead' = timerHead
  BY DEF FreeRecord
<1>4. \A c \in Listed : next'[c] = next[c] /\ c \in Block
  BY <1>1, <1>2, <1>3 DEF IInv, TypeOK, PathTells
<1>5. \A i \in Nat : p[i] # NULL => p[i] \in Listed
  BY <1>1 DEF IsPath, PathTells
<1>6. IsPath(p)'
  BY <1>1, <1>3, <1>4, <1>5 DEF IsPath
<1>7. PathTells(p)'
  BY <1>6, PathFactsNext DEF PathLaw
<1>8. Listed' = Listed
  <2>1. Listed \subseteq Block /\ Listed' \subseteq Block
    BY <1>1, <1>7 DEF PathTells
  <2>2. \A c \in Block : c \in Listed' <=> c \in Listed
    BY <1>1, <1>7 DEF PathTells
  <2> QED
    BY <2>1, <2>2
<1>9. pc' = "walk" /\ UNCHANGED <<srchTimer, prevTimer>>
  BY DEF FreeRecord
<1>10. ToVisit' = ToVisit
  <2>1. CASE srchTimer = NULL
    BY <1>9, <2>1 DEF ToVisit
  <2>2. CASE srchTimer # NULL
    <3>1. PICK k \in Nat : p[k] = srchTimer
      BY <1>1, <2>2, CursorAt
    <3>2. ASSUME NEW c \in Listed
          PROVE  c \in ToVisit' <=> c \in ToVisit
      <4>1. c \in Block /\ c # NULL
        BY <1>1 DEF PathTells
      <4>2. PICK j \in Nat : p[j] = c
        BY <1>1, <4>1 DEF PathTells
      <4>3. c \in ToVisit <=> k <= j
        BY <1>1, <2>2, <3>1, <4>1, <4>2 DEF PathTells
      <4>4. c \in ToVisit' <=> k <= j
        BY <1>7, <1>9, <2>2, <3>1, <4>1, <4>2 DEF PathTells
      <4> QED
        BY <4>3, <4>4
    <3>3. ToVisit \subseteq Listed /\ ToVisit' \subseteq Listed
      BY <1>8 DEF ToVisit
    <3> QED
      BY <3>2, <3>3
  <2> QED
    BY <2>1, <2>2
<1>11. Linked'
  <2>1. (Nth[N] = NULL)' /\ Distinct'
    BY <1>7 DEF PathTells
  <2>2. heap' = Listed' \cup ({freeTimer'} \ {NULL}) /\ freeTimer' \notin Listed'
    BY <1>1, <1>2, <1>8 DEF IInv, Linked, FreeRecord, PathTells
  <2>3. srchTimer' # NULL =>
          /\ srchTimer' \in Listed'
          /\ srchTimer' = IF prevTimer' = NULL THEN timerHead' ELSE next'[prevTimer']
    BY <1>3, <1>4, <1>8, <1>9 DEF IInv, Linked
  <2>4. prevTimer' # NULL => prevTimer' \in Listed'
    BY <1>8, <1>9 DEF IInv, Linked
  <2> QED
    BY <2>1, <2>2, <2>3, <2>4 DEF Linked
<1> QED
  BY <1>2, <1>3, <1>8, <1>10, <1>11 DEF IInv, TypeOK

-----------------------------------------------------------------------------
(* The steps keep the invariant.                                           *)

\* The bound on how early a timer may be is a number, and a pass at least.
LEMMA EarlyByNat ==
  ASSUME NEW t
  PROVE  EarlyBy(t) \in Nat /\ MaxElapsed <= EarlyBy(t)
         /\ (t \in IsrTimer => EarlyBy(t) = 2 * MaxElapsed)
BY TimersAssumption DEF EarlyBy

LEMMA StartKeeps ==
  ASSUME IInv, NEW t \in Timer, MayStart(t), NEW n \in Nat \ {0}, NEW reloads, NEW b \in Block,
         Started(b, t, n, reloads), UNCHANGED <<raised, walkVars, elapsed>>,
         Linked', Listed' = Listed \cup {b}, heap' = heap \cup {b},
         \A c \in Listed : c \in ToVisit' <=> c \in ToVisit,
         timerHead' \in Block \cup {NULL}, next' \in [Block -> Block \cup {NULL}],
         \A c \in Block \ heap' : next'[c] = NULL,
         \A c \in Listed : rec[c].timer = t => c = b
  PROVE  IInv'
<1> USE BlockFinite, TimersAssumption
<1>1. rec \in [Block -> Record] /\ Listed \subseteq Block
  <2>1. Listed \subseteq heap
    BY DEF IInv, Linked
  <2> QED
    BY <2>1 DEF IInv, TypeOK
<1>2. /\ rec'[b].timer = t /\ rec'[b].timeout = n /\ rec'[b].want = n /\ rec'[b].age = 0
      /\ \A c \in Block \ {b} : rec'[c] = rec[c]
      /\ rec' \in [Block -> Record]
  BY <1>1 DEF Started, Record
<1>3. TypeOK'
  BY <1>2 DEF IInv, TypeOK, walkVars
<1>4. OneRecord'
  BY <1>1, <1>2 DEF IInv, OneRecord
<1>5. Cursors'
  BY DEF IInv, Cursors, walkVars
<1>6. Unused'
  BY <1>2 DEF IInv, Unused
<1>7. CountsRealTime'
  <2>1. UNCHANGED <<elapsed, updateTime>> /\ elapsed \in 0 .. MaxElapsed
        /\ updateTime \in 0 .. MaxElapsed
    BY DEF IInv, TypeOK, walkVars
  <2>2. ASSUME NEW c \in Listed', rec'[c].timer # NoTimer
        PROVE  LET counted == rec'[c].want - rec'[c].timeout
                   pending == elapsed' + (IF c \in ToVisit' THEN updateTime' ELSE 0)
               IN  /\ rec'[c].age <= counted + pending
                   /\ counted + pending <= rec'[c].age + EarlyBy(rec'[c].timer)
    <3>1. CASE c = b
      <4>1. rec'[c].timer = t /\ rec'[c].want - rec'[c].timeout = 0 /\ rec'[c].age = 0
        BY <1>2, <3>1
      <4>2. CASE pc = "idle"
        <5>1. ToVisit' = {}
          BY <4>2 DEF ToVisit, walkVars
        <5> QED
          BY <2>1, <4>1, <5>1, EarlyByNat
      <4>3. CASE t \in IsrTimer
        <5>1. EarlyBy(t) = 2 * MaxElapsed
          BY <4>3, EarlyByNat
        <5> QED
          BY <2>1, <4>1, <5>1
      <4> QED
        BY <4>2, <4>3 DEF MayStart
    <3>2. CASE c # b
      <4>1. c \in Listed /\ rec'[c] = rec[c] /\ (c \in ToVisit' <=> c \in ToVisit)
        BY <1>1, <1>2, <3>2
      <4> QED
        BY <2>1, <2>2, <4>1 DEF IInv, CountsRealTime
    <3> QED
      BY <3>1, <3>2
  <2> QED
    BY <2>2 DEF CountsRealTime
<1> QED
  BY <1>3, <1>4, <1>5, <1>6, <1>7 DEF IInv

LEMMA AddTimerInv ==
  ASSUME IInv, NEW t \in Timer, NEW n \in Timeout, NEW reloads, MayStart(t),
         osalAddTimer(t, n, reloads), UNCHANGED <<raised, walkVars, elapsed>>
  PROVE  IInv'
<1>1. n \in Nat \ {0}
  BY TimersAssumption
<1>2. CASE \E b \in Of(t) : Started(b, t, n, reloads) /\ UNCHANGED <<timerHead, next, heap>>
  <2>1. PICK b \in Of(t) : Started(b, t, n, reloads) /\ UNCHANGED <<timerHead, next, heap>>
    BY <1>2
  <2>2. b \in Listed /\ rec[b].timer = t /\ b \in heap /\ b \in Block /\ t # NoTimer
    BY TimersAssumption DEF Of, IInv, Linked, TypeOK
  <2>3. Nth' = Nth /\ Listed' = Listed /\ Distinct' = Distinct /\ ToVisit' = ToVisit
    BY <2>1, SameList, SameToVisit DEF walkVars
  <2>4. Linked'
    BY <2>1, <2>3 DEF IInv, Linked, walkVars
  <2>5. \A c \in Listed : rec[c].timer = t => c = b
    BY <2>2 DEF IInv, OneRecord
  <2> QED
    BY <1>1, <2>1, <2>2, <2>3, <2>4, <2>5, StartKeeps DEF IInv, TypeOK, Unused
<1>3. CASE Of(t) = {} /\ \E b \in Block \ heap : Started(b, t, n, reloads) /\ AppendRecord(b)
  <2>1. PICK b \in Block \ heap : Started(b, t, n, reloads) /\ AppendRecord(b)
    BY <1>3
  <2>2. /\ Linked' /\ Listed' = Listed \cup {b}
        /\ \A c \in Listed : c \in ToVisit' <=> c \in ToVisit
        /\ timerHead' \in Block \cup {NULL} /\ next' \in [Block -> Block \cup {NULL}]
        /\ \A c \in Block \ heap' : next'[c] = NULL
    BY <2>1, AppendKeeps DEF walkVars
  <2>3. \A c \in Listed : rec[c].timer = t => c = b
    BY <1>3 DEF Of
  <2>4. heap' = heap \cup {b}
    BY <2>1 DEF AppendRecord
  <2> QED
    BY <1>1, <2>1, <2>2, <2>3, <2>4, StartKeeps
<1> QED
  BY <1>2, <1>3 DEF osalAddTimer

LEMMA ListedInBlock ==
  ASSUME IInv
  PROVE  Listed \subseteq heap /\ Listed \subseteq Block /\ rec \in [Block -> Record]
  BY DEF IInv, Linked, TypeOK

LEMMA StopInv ==
  ASSUME IInv, NEW t \in Timer, osal_stop_timerEx(t)
  PROVE  IInv'
<1>1. PICK b \in Of(t) : rec' = [rec EXCEPT ![b] = [@ EXCEPT !.timer = NoTimer]]
  BY DEF osal_stop_timerEx
<1>2. UNCHANGED <<timerHead, next, heap, raised, pc, srchTimer, prevTimer, freeTimer,
                  updateTime, elapsed>>
  BY DEF osal_stop_timerEx, walkVars
<1>3. b \in Listed /\ b \in heap /\ b \in Block /\ rec \in [Block -> Record]
  BY ListedInBlock DEF Of
<1>4. /\ rec' \in [Block -> Record]
      /\ rec'[b].timer = NoTimer
      /\ \A c \in Block \ {b} : rec'[c] = rec[c]
  BY <1>1, <1>3 DEF Record
<1>5. Nth' = Nth /\ Listed' = Listed /\ Distinct' = Distinct /\ ToVisit' = ToVisit
  BY <1>2, SameList, SameToVisit
<1>6. TypeOK' /\ Linked' /\ Cursors' /\ Unused'
  BY <1>2, <1>3, <1>4, <1>5 DEF IInv, TypeOK, Linked, Cursors, Unused
<1>7. OneRecord'
  BY <1>3, <1>4, <1>5, ListedInBlock DEF IInv, OneRecord
<1>8. CountsRealTime'
  BY <1>2, <1>4, <1>5, ListedInBlock DEF IInv, CountsRealTime
<1> QED
  BY <1>6, <1>7, <1>8 DEF IInv

\* Steps that change neither the list nor the records.
LEMMA FrameInv ==
  ASSUME IInv, UNCHANGED <<listVars, srchTimer, prevTimer, freeTimer, updateTime, elapsed>>,
         raised' \subseteq Timer,
         \/ pc' = pc
         \/ pc = "signal" /\ pc' = "free"
  PROVE  IInv'
<1>1. Nth' = Nth /\ Listed' = Listed /\ Distinct' = Distinct
  BY SameList DEF listVars
<1>2. pc' # "idle" <=> pc # "idle"
  OBVIOUS
<1>3. ToVisit' = ToVisit
  BY <1>1, <1>2 DEF ToVisit
<1>4. TypeOK' /\ Linked' /\ Cursors' /\ Unused' /\ OneRecord'
  BY <1>1, <1>2 DEF IInv, TypeOK, Linked, Cursors, Unused, OneRecord, listVars
<1>5. CountsRealTime'
  BY <1>1, <1>3 DEF IInv, CountsRealTime, listVars
<1> QED
  BY <1>4, <1>5 DEF IInv

LEMMA ProcessInv ==
  ASSUME IInv, NEW t \in Timer, Process(t)
  PROVE  IInv'
  BY FrameInv DEF Process, walkVars, IInv, TypeOK

LEMMA SignalInv ==
  ASSUME IInv, Signal
  PROVE  IInv'
<1>1. freeTimer \in Block
  BY DEF IInv, TypeOK, Cursors, Signal
<1>2. rec[freeTimer].timer \in Timer \cup {NoTimer}
  BY <1>1 DEF IInv, TypeOK, Record
<1>3. raised' \subseteq Timer
  BY <1>2 DEF IInv, TypeOK, Signal
<1> QED
  BY <1>3, FrameInv DEF Signal

LEMMA TickInv ==
  ASSUME IInv, Tick
  PROVE  IInv'
<1> USE TimersAssumption
<1>1. Listed \subseteq heap /\ Listed \subseteq Block /\ rec \in [Block -> Record]
  BY ListedInBlock
<1>2. UNCHANGED <<timerHead, next, heap, raised, pc, srchTimer, prevTimer, freeTimer,
                  updateTime>>
  BY DEF Tick, walkVars
<1>3. elapsed \in 0 .. MaxElapsed /\ updateTime \in 0 .. MaxElapsed
      /\ elapsed' = elapsed + 1 /\ elapsed < MaxElapsed /\ MaxElapsed \in Nat
  BY DEF IInv, TypeOK, Tick
<1>4. \A b \in Block : rec'[b] = IF b \in Listed /\ rec[b].timer # NoTimer
                                    /\ rec[b].age <= rec[b].want + 2 * MaxElapsed
                                 THEN [rec[b] EXCEPT !.age = @ + 1] ELSE rec[b]
  BY DEF Tick
<1>5. ASSUME NEW b \in Block
      PROVE  /\ rec'[b] \in Record
             /\ rec'[b].timer = rec[b].timer /\ rec'[b].timeout = rec[b].timeout
             /\ rec'[b].want = rec[b].want
             /\ rec'[b].age \in {rec[b].age, rec[b].age + 1}
             /\ b \in Listed /\ rec[b].timer # NoTimer
                /\ rec[b].age <= rec[b].want + 2 * MaxElapsed => rec'[b].age = rec[b].age + 1
             /\ b \notin Listed => rec'[b] = rec[b]
  <2>1. rec[b] \in Record
    BY <1>1
  <2> DEFINE c == b \in Listed /\ rec[b].timer # NoTimer
                  /\ rec[b].age <= rec[b].want + 2 * MaxElapsed
  <2>2. rec'[b] = IF c THEN [rec[b] EXCEPT !.age = @ + 1] ELSE rec[b]
    BY <1>4
  <2> HIDE DEF c
  <2>3. CASE c
    <3>1. rec'[b] = [rec[b] EXCEPT !.age = rec[b].age + 1]
      BY <2>2, <2>3
    <3>2. b \in Listed
      BY <2>3 DEF c
    <3> QED
      BY <2>1, <3>1, <3>2 DEF Record
  <2>4. CASE ~c
    <3>1. rec'[b] = rec[b]
      BY <2>2, <2>4
    <3> QED
      BY <2>1, <2>4, <3>1 DEF Record, c
  <2> QED
    BY <2>3, <2>4
<1>6. rec' \in [Block -> Record]
  <2>1. rec' = [b \in Block |-> rec'[b]]
    BY DEF Tick
  <2> QED
    BY <1>5, <2>1
<1>7. Nth' = Nth /\ Listed' = Listed /\ Distinct' = Distinct /\ ToVisit' = ToVisit
  BY <1>2, SameList, SameToVisit
<1>8. TypeOK' /\ Linked' /\ Cursors' /\ Unused' /\ OneRecord'
  <2>1. TypeOK' /\ Linked' /\ Cursors'
    BY <1>2, <1>3, <1>6, <1>7 DEF IInv, TypeOK, Linked, Cursors
  <2>2. Unused'
    BY <1>1, <1>2, <1>5 DEF IInv, Unused
  <2>3. OneRecord'
    BY <1>1, <1>5, <1>7 DEF IInv, OneRecord
  <2> QED
    BY <2>1, <2>2, <2>3
<1>9. CountsRealTime'
  <2>1. ASSUME NEW b \in Listed, rec[b].timer # NoTimer
        PROVE  LET counted == rec'[b].want - rec'[b].timeout
                   pending == elapsed' + (IF b \in ToVisit' THEN updateTime' ELSE 0)
               IN  /\ rec'[b].age <= counted + pending
                   /\ counted + pending <= rec'[b].age + EarlyBy(rec'[b].timer)
    <3>1. /\ rec[b].want \in Nat /\ rec[b].timeout \in Nat /\ rec[b].age \in Nat
          /\ b \in Block
      BY <1>1 DEF Record
    <3> DEFINE u == IF b \in ToVisit THEN updateTime ELSE 0
    <3>2. u \in 0 .. MaxElapsed /\ u = IF b \in ToVisit' THEN updateTime' ELSE 0
      BY <1>2, <1>3, <1>7
    <3>3. /\ rec[b].age <= rec[b].want - rec[b].timeout + (elapsed + u)
          /\ rec[b].want - rec[b].timeout + (elapsed + u) <= rec[b].age + EarlyBy(rec[b].timer)
      BY <2>1 DEF IInv, CountsRealTime
    <3> HIDE DEF u
    <3>4. rec[b].age <= rec[b].want + 2 * MaxElapsed
      BY <1>3, <3>1, <3>2, <3>3
    <3>5. rec'[b].age = rec[b].age + 1
      BY <1>5, <2>1, <3>1, <3>4
    <3>6. /\ rec'[b].age <= rec'[b].want - rec'[b].timeout + (elapsed' + u)
          /\ rec'[b].want - rec'[b].timeout + (elapsed' + u) <= rec'[b].age + EarlyBy(rec'[b].timer)
      <4>1. rec'[b].timer = rec[b].timer /\ EarlyBy(rec[b].timer) \in Nat
        BY <1>5, <3>1, EarlyByNat
      <4> QED
        BY <1>3, <1>5, <3>1, <3>2, <3>3, <3>5, <4>1
    <3> QED
      BY <3>2, <3>6
  <2> QED
    BY <1>1, <1>5, <1>7, <2>1 DEF CountsRealTime
<1> QED
  BY <1>8, <1>9 DEF IInv

LEMMA TimeUpdateInv ==
  ASSUME IInv, osalTimeUpdate
  PROVE  IInv'
<1> USE TimersAssumption
<1>1. PICK p : IsPath(p) /\ PathTells(p)
  BY PathOfInv
<1>2. Nth' = Nth /\ Listed' = Listed /\ Distinct' = Distinct
  BY SameList DEF osalTimeUpdate, listVars
<1>3. UNCHANGED <<timerHead, next, rec, heap, raised, prevTimer, freeTimer>>
      /\ pc = "idle" /\ elapsed' = 0 /\ prevTimer = NULL /\ srchTimer = NULL
      /\ elapsed \in 0 .. MaxElapsed
  BY DEF osalTimeUpdate, listVars, walkVars, IInv, Cursors, TypeOK
<1>4. CASE timerHead = NULL
  <2>1. UNCHANGED <<pc, srchTimer, updateTime>>
    BY <1>4 DEF osalTimeUpdate, walkVars
  <2>2. Listed = {}
    <3>1. \A i \in Nat : p[i] = NULL
      <4>1. PICK n \in 0 .. N : \A i \in Nat : p[i] = NULL <=> n <= i
        BY <1>1 DEF PathTells
      <4>2. p[0] = NULL
        BY <1>1, <1>4 DEF IsPath
      <4> QED
        BY <4>1, <4>2, BlockFinite
    <3> QED
      BY <1>1, <3>1 DEF PathTells
  <2>3. OneRecord' /\ CountsRealTime'
    BY <1>2, <2>2 DEF OneRecord, CountsRealTime
  <2> QED
    BY <1>2, <1>3, <2>1, <2>3 DEF IInv, TypeOK, Linked, Cursors, Unused
<1>5. CASE timerHead # NULL
  <2>1. updateTime' = elapsed /\ srchTimer' = timerHead /\ pc' = "walk"
    BY <1>5 DEF osalTimeUpdate
  <2>2. p[0] = timerHead /\ timerHead \in Block
    BY <1>1, <1>5 DEF IsPath, IInv, TypeOK
  <2>3. timerHead \in Listed
    BY <1>1, <2>2 DEF PathTells
  <2>4. IsPath(p)'
    BY <1>1, <1>3 DEF IsPath
  <2>5. PathTells(p)'
    BY <2>4, PathFactsNext DEF PathLaw
  <2>6. \A b \in Listed : b \in ToVisit'
    <3>1. TAKE b \in Listed
    <3>2. b \in Block /\ b # NULL
      BY <1>1 DEF PathTells
    <3>3. PICK j \in Nat : p[j] = b
      BY <1>1, <3>2 DEF PathTells
    <3> QED
      BY <1>5, <2>1, <2>2, <2>5, <3>2, <3>3 DEF PathTells
  <2>7. ToVisit = {}
    BY <1>3 DEF ToVisit
  <2>8. CountsRealTime'
    <3>1. ASSUME NEW b \in Listed, rec[b].timer # NoTimer
          PROVE  LET counted == rec[b].want - rec[b].timeout
                 IN  /\ rec[b].age <= counted + elapsed
                     /\ counted + elapsed <= rec[b].age + EarlyBy(rec[b].timer)
      <4>1. /\ rec[b].want \in Nat /\ rec[b].timeout \in Nat /\ rec[b].age \in Nat
        BY ListedInBlock DEF Record
      <4>2. b \notin ToVisit
        BY <2>7
      <4> QED
        BY <1>3, <3>1, <4>1, <4>2 DEF IInv, CountsRealTime
    <3>2. ASSUME NEW b \in Listed', rec'[b].timer # NoTimer
          PROVE  LET counted == rec'[b].want - rec'[b].timeout
                     pending == elapsed' + (IF b \in ToVisit' THEN updateTime' ELSE 0)
                 IN  /\ rec'[b].age <= counted + pending
                     /\ counted + pending <= rec'[b].age + EarlyBy(rec'[b].timer)
      BY <1>2, <1>3, <2>1, <2>6, <3>1, <3>2
    <3> QED
      BY <3>2 DEF CountsRealTime
  <2>9. Linked'
    BY <1>2, <1>3, <2>1, <2>3 DEF IInv, Linked
  <2>10. TypeOK' /\ Cursors' /\ Unused' /\ OneRecord'
    BY <1>2, <1>3, <2>1 DEF IInv, TypeOK, Cursors, Unused, OneRecord
  <2> QED
    BY <2>8, <2>9, <2>10 DEF IInv
<1> QED
  BY <1>4, <1>5

\* The two ways to update a record.
LEMMA UpdatedRecord ==
  ASSUME updateTime \in 0 .. MaxElapsed, NEW r \in Record
  PROVE  /\ Updated(r) \in Record
         /\ Updated(r).timer = r.timer
         /\ Updated(r).reloadTimeout = r.reloadTimeout
         /\ Reloads(r) => /\ r.timer # NoTimer
                          /\ r.reloadTimeout # 0
                          /\ Updated(r).timeout = r.reloadTimeout
                          /\ Updated(r).want = r.reloadTimeout
                          /\ Updated(r).age = 0
         /\ ~Reloads(r) => /\ Updated(r).want = r.want
                           /\ Updated(r).age = r.age
                           /\ Updated(r).timeout = 0 \/ Updated(r).timeout = r.timeout - updateTime
         /\ ~Reloads(r) /\ Updated(r).timeout = 0 /\ r.timer # NoTimer => r.reloadTimeout = 0
<1>1. updateTime \in Nat /\ Left(r) \in Nat
  BY TimersAssumption DEF Left, Record
<1>2. Left(r) = 0 \/ Left(r) = r.timeout - updateTime
  BY DEF Left
<1> HIDE DEF Left
<1>3. CASE Reloads(r)
  <2>1. Updated(r) = [r EXCEPT !.timeout = r.reloadTimeout, !.want = r.reloadTimeout, !.age = 0]
    BY <1>3 DEF Updated
  <2>2. r.timer # NoTimer /\ r.reloadTimeout # 0
    BY <1>3 DEF Reloads
  <2>3. Updated(r) = [timer |-> r.timer, timeout |-> r.reloadTimeout,
                      reloadTimeout |-> r.reloadTimeout, want |-> r.reloadTimeout, age |-> 0]
    BY <2>1 DEF Record
  <2>4. r.timer \in Timer \cup {NoTimer} /\ r.reloadTimeout \in Nat
    BY DEF Record
  <2> HIDE DEF Updated
  <2> QED
    BY <1>3, <2>2, <2>3, <2>4 DEF Record
<1>4. CASE ~Reloads(r)
  <2>1. Updated(r) = [r EXCEPT !.timeout = Left(r)]
    BY <1>4 DEF Updated
  <2>2. Left(r) = 0 /\ r.timer # NoTimer => r.reloadTimeout = 0
    BY <1>4 DEF Reloads
  <2> QED
    BY <1>1, <1>2, <1>4, <2>1, <2>2 DEF Record
<1> QED
  BY <1>3, <1>4

Gone == LET r == Updated(rec[srchTimer]) IN r.timeout = 0 \/ r.timer = NoTimer

\* The round of the loop, with its two outcomes apart.
LEMMA VisitCases ==
  ASSUME IInv, Visit
  PROVE  /\ pc = "walk" /\ srchTimer # NULL
         /\ srchTimer \in Listed /\ srchTimer \in Block /\ rec[srchTimer] \in Record
         /\ UNCHANGED <<heap, updateTime, elapsed>>
         /\ rec' = [rec EXCEPT ![srchTimer] = Updated(rec[srchTimer])]
         /\ raised' = IF Reloads(rec[srchTimer]) THEN raised \cup {rec[srchTimer].timer}
                      ELSE raised
         /\ Gone => /\ Linked'
                    /\ Listed' = Listed \ {srchTimer}
                    /\ \A c \in Listed' : c \in ToVisit' <=> c \in ToVisit
                    /\ freeTimer' = srchTimer /\ pc' = "signal" /\ prevTimer' = prevTimer
                    /\ \A c \in Block \ heap : next'[c] = next[c]
         /\ ~Gone => /\ Linked'
                     /\ Listed' = Listed
                     /\ srchTimer \in ToVisit /\ srchTimer \notin ToVisit'
                     /\ \A c \in Listed \ {srchTimer} : c \in ToVisit' <=> c \in ToVisit
                     /\ freeTimer' = NULL /\ pc' = "walk" /\ prevTimer' = srchTimer
                     /\ next' = next
         /\ {timerHead', srchTimer'} \subseteq Block \cup {NULL}
         /\ next' \in [Block -> Block \cup {NULL}]
<1>1. /\ pc = "walk" /\ srchTimer # NULL
      /\ UNCHANGED <<heap, updateTime, elapsed>>
      /\ rec' = [rec EXCEPT ![srchTimer] = Updated(rec[srchTimer])]
      /\ srchTimer' = next[srchTimer]
      /\ raised' = IF Reloads(rec[srchTimer]) THEN raised \cup {Updated(rec[srchTimer]).timer}
                   ELSE raised
  BY DEF Visit
<1>2. srchTimer \in Listed
  BY <1>1 DEF IInv, Linked
<1>3. srchTimer \in Block /\ rec[srchTimer] \in Record
  BY <1>2, ListedInBlock
<1>4. Updated(rec[srchTimer]).timer = rec[srchTimer].timer
  BY <1>3, UpdatedRecord DEF IInv, TypeOK
<1>5. CASE Gone
  <2>1. /\ timerHead' = IF prevTimer = NULL THEN next[srchTimer] ELSE timerHead
        /\ next' = IF prevTimer # NULL THEN [next EXCEPT ![prevTimer] = next[srchTimer]]
                   ELSE next
        /\ freeTimer' = srchTimer /\ prevTimer' = prevTimer /\ pc' = "signal"
    BY <1>5 DEF Visit, Gone
  <2>2. /\ Linked'
        /\ Listed' = Listed \ {srchTimer}
        /\ \A c \in Listed' : c \in ToVisit' <=> c \in ToVisit
        /\ {timerHead', srchTimer'} \subseteq Block \cup {NULL}
        /\ next' \in [Block -> Block \cup {NULL}]
        /\ \A c \in Block \ heap : next'[c] = next[c]
    BY <1>1, <2>1, UnlinkKeeps
  <2> QED
    BY <1>1, <1>2, <1>3, <1>4, <1>5, <2>1, <2>2
<1>6. CASE ~Gone
  <2>1. timerHead' = timerHead /\ next' = next /\ freeTimer' = NULL /\ prevTimer' = srchTimer
        /\ pc' = "walk"
    BY <1>6 DEF Visit, Gone
  <2>2. /\ Linked'
        /\ Listed' = Listed
        /\ srchTimer \in ToVisit /\ srchTimer \notin ToVisit'
        /\ \A c \in Listed \ {srchTimer} : c \in ToVisit' <=> c \in ToVisit
        /\ srchTimer' \in Block \cup {NULL}
    BY <1>1, <2>1, AdvanceKeeps
  <2> QED
    BY <1>1, <1>2, <1>3, <1>4, <1>6, <2>1, <2>2 DEF IInv, TypeOK
<1> QED
  BY <1>5, <1>6

LEMMA VisitInv ==
  ASSUME IInv, Visit
  PROVE  IInv'
<1> USE TimersAssumption
<1> DEFINE b == srchTimer
           r == Updated(rec[b])
<1>1. /\ b \in Listed /\ b \in Block /\ rec[b] \in Record
      /\ UNCHANGED <<heap, updateTime, elapsed>>
      /\ rec' = [rec EXCEPT ![b] = r]
      /\ Linked'
      /\ Listed' \subseteq Listed
      /\ \A c \in Listed' \ {b} : c \in ToVisit' <=> c \in ToVisit
      /\ {timerHead', srchTimer'} \subseteq Block \cup {NULL}
      /\ next' \in [Block -> Block \cup {NULL}]
      /\ \A c \in Block \ heap : next'[c] = next[c]
  BY VisitCases
<1>2. Listed \subseteq heap /\ Listed \subseteq Block /\ rec \in [Block -> Record]
  BY ListedInBlock
<1>3. elapsed \in 0 .. MaxElapsed /\ updateTime \in 0 .. MaxElapsed
  BY DEF IInv, TypeOK
<1>4. r \in Record /\ r.timer = rec[b].timer
  BY <1>1, <1>3, UpdatedRecord
<1>5. rec' \in [Block -> Record] /\ rec'[b] = r /\ \A c \in Block \ {b} : rec'[c] = rec[c]
  BY <1>1, <1>2, <1>4
<1>6. raised' \subseteq Timer
  <2>1. Reloads(rec[b]) => rec[b].timer \in Timer
    BY <1>1, <1>3, UpdatedRecord DEF Record
  <2> QED
    BY <2>1, VisitCases DEF IInv, TypeOK
<1>7. pc' \in {"walk", "signal"} /\ {prevTimer', freeTimer'} \subseteq Block \cup {NULL}
  BY <1>1, VisitCases DEF IInv, TypeOK
<1>8. TypeOK'
  BY <1>1, <1>3, <1>5, <1>6, <1>7 DEF IInv, TypeOK
<1>9. OneRecord'
  <2>1. \A c \in Listed : rec'[c].timer = rec[c].timer
    BY <1>2, <1>4, <1>5
  <2> QED
    BY <1>1, <2>1 DEF IInv, OneRecord
<1>10. Cursors'
  BY <1>1, BlockFinite, VisitCases DEF Cursors
<1>11. Unused'
  BY <1>1, <1>2, <1>5 DEF IInv, Unused
<1>12. CountsRealTime'
  <2>1. ASSUME NEW c \in Listed', rec'[c].timer # NoTimer
        PROVE  LET counted == rec'[c].want - rec'[c].timeout
                   pending == elapsed' + (IF c \in ToVisit' THEN updateTime' ELSE 0)
               IN  /\ rec'[c].age <= counted + pending
                   /\ counted + pending <= rec'[c].age + EarlyBy(rec'[c].timer)
    <3>1. CASE c # b
      <4>1. c \in Listed /\ rec'[c] = rec[c] /\ (c \in ToVisit' <=> c \in ToVisit)
        BY <1>1, <1>2, <1>5, <3>1
      <4> QED
        BY <1>1, <2>1, <4>1 DEF IInv, CountsRealTime
    <3>2. CASE c = b
      <4>1. ~Gone /\ b \in ToVisit /\ b \notin ToVisit'
        BY <2>1, <3>2, VisitCases
      <4>2. r.timeout # 0 /\ r.timer # NoTimer
        BY <4>1 DEF Gone
      <4>3. CASE Reloads(rec[b])
        <5>1. r.timeout = r.want /\ r.age = 0 /\ r.want \in Nat
          BY <1>1, <1>3, <1>4, <4>3, UpdatedRecord DEF Record
        <5>2. EarlyBy(r.timer) \in Nat /\ MaxElapsed <= EarlyBy(r.timer)
          BY EarlyByNat
        <5> HIDE DEF r
        <5> QED
          BY <1>1, <1>3, <1>5, <3>2, <4>1, <5>1, <5>2
      <4>4. CASE ~Reloads(rec[b])
        <5>1. r.timeout = rec[b].timeout - updateTime /\ r.want = rec[b].want
              /\ r.age = rec[b].age
          BY <1>1, <1>3, <4>2, <4>4, UpdatedRecord
        <5>2. rec[b].timeout \in Nat /\ rec[b].want \in Nat /\ rec[b].age \in Nat
          BY <1>1 DEF Record
        <5>3. /\ rec[b].age <= rec[b].want - rec[b].timeout + (elapsed + updateTime)
              /\ rec[b].want - rec[b].timeout + (elapsed + updateTime)
                    <= rec[b].age + EarlyBy(rec[b].timer)
          BY <1>1, <1>4, <4>1, <4>2 DEF IInv, CountsRealTime
        <5>4. r.timer = rec[b].timer /\ EarlyBy(r.timer) \in Nat
          BY <1>4, EarlyByNat
        <5> HIDE DEF r
        <5> QED
          BY <1>1, <1>3, <1>5, <3>2, <4>1, <5>1, <5>2, <5>3, <5>4
      <4> QED
        BY <4>3, <4>4
    <3> QED
      BY <3>1, <3>2
  <2> QED
    BY <2>1 DEF CountsRealTime
<1> QED
  BY <1>1, <1>8, <1>9, <1>10, <1>11, <1>12 DEF IInv

LEMMA WalkEndsInv ==
  ASSUME IInv, WalkEnds
  PROVE  IInv'
<1> USE TimersAssumption
<1>1. /\ UNCHANGED <<timerHead, next, rec, heap, raised, srchTimer, freeTimer, elapsed>>
      /\ pc = "walk" /\ pc' = "idle" /\ srchTimer = NULL /\ prevTimer' = NULL /\ updateTime' = 0
  BY DEF WalkEnds, listVars
<1>2. Nth' = Nth /\ Listed' = Listed /\ Distinct' = Distinct
  BY <1>1, SameList
<1>3. ToVisit = {} /\ ToVisit' = {}
  BY <1>1 DEF ToVisit
<1>4. CountsRealTime'
  BY <1>1, <1>2, <1>3 DEF IInv, CountsRealTime
<1> QED
  BY <1>1, <1>2, <1>4 DEF IInv, TypeOK, Linked, Cursors, Unused, OneRecord

LEMMA FreeRecordInv ==
  ASSUME IInv, FreeRecord
  PROVE  IInv'
<1> USE TimersAssumption
<1>1. pc = "free" /\ pc' = "walk" /\ freeTimer' = NULL
      /\ heap' = heap \ {freeTimer}
      /\ rec' = [rec EXCEPT ![freeTimer] = Blank]
      /\ next' = [next EXCEPT ![freeTimer] = NULL]
      /\ UNCHANGED <<timerHead, raised, srchTimer, prevTimer, updateTime, elapsed>>
  BY DEF FreeRecord
<1>2. /\ Linked' /\ freeTimer \in Block /\ Listed' = Listed /\ ToVisit' = ToVisit
      /\ next' \in [Block -> Block \cup {NULL}]
  BY <1>1, FreeKeeps
<1>3. freeTimer \notin Listed /\ Listed \subseteq Block /\ rec \in [Block -> Record]
  BY ListedInBlock DEF IInv, Linked
<1>4. rec' \in [Block -> Record] /\ \A c \in Listed : rec'[c] = rec[c]
  BY <1>1, <1>3 DEF Record, Blank
<1>5. TypeOK' /\ Cursors'
  BY <1>1, <1>2, <1>4 DEF IInv, TypeOK, Cursors
<1>6. Unused'
  BY <1>1, <1>2, <1>3 DEF IInv, Unused, TypeOK
<1>7. OneRecord' /\ CountsRealTime'
  BY <1>1, <1>2, <1>4 DEF IInv, OneRecord, CountsRealTime
<1> QED
  BY <1>2, <1>5, <1>6, <1>7 DEF IInv

LEMMA NextInv == IInv /\ [Next]_vars => IInv'
<1> SUFFICES ASSUME IInv, [Next]_vars PROVE IInv'
  OBVIOUS
<1>1. ASSUME NEW t \in Timer, NEW n \in Timeout, osal_start_timerEx(t, n)
      PROVE  IInv'
  BY <1>1, AddTimerInv DEF osal_start_timerEx
<1>2. ASSUME NEW t \in Timer, NEW n \in Timeout, osal_start_reload_timer(t, n)
      PROVE  IInv'
  BY <1>2, AddTimerInv DEF osal_start_reload_timer
<1>3. ASSUME NEW t \in Timer, osal_stop_timerEx(t)
      PROVE  IInv'
  BY <1>3, StopInv
<1>4. ASSUME NEW t \in Timer, Process(t)
      PROVE  IInv'
  BY <1>4, ProcessInv
<1>5. CASE Tick
  BY <1>5, TickInv
<1>6. CASE osalTimeUpdate
  BY <1>6, TimeUpdateInv
<1>7. CASE osalTimerUpdate
  BY <1>7, VisitInv, WalkEndsInv, SignalInv, FreeRecordInv DEF osalTimerUpdate
<1>8. CASE UNCHANGED vars
  <2>1. raised' \subseteq Timer
    BY <1>8 DEF vars, IInv, TypeOK
  <2> QED
    BY <1>8, <2>1, FrameInv DEF vars, walkVars
<1> QED
  BY <1>1, <1>2, <1>3, <1>4, <1>5, <1>6, <1>7, <1>8 DEF Next

LEMMA Invariant == Spec => []IInv
  BY InitInv, NextInv, PTL DEF Spec

\* The variables keep their types.
THEOREM TypeCorrect == Spec => []TypeOK
<1>1. IInv => TypeOK
  BY DEF IInv
<1> QED
  BY Invariant, <1>1, PTL

\* However many records there are, and wherever in the walk an interrupt service
\* routine appends one: the list ends, it holds the allocated records and no
\* freed one, the cursors of osalTimerUpdate stand on neighbours, and no timer
\* has two records.
THEOREM ListAlwaysSound == Spec => []ListSound
  BY Invariant, ListSoundOfInv, PTL

\* For any timers, timeouts and delays of the main loop: what a running timer has
\* counted, and the time still to be brought to it, is no less than the time
\* since its start, and more than that by one pass of the loop at most, or by
\* two if an interrupt service routine starts it (osalAddTimer,
\* osalTimerUpdate).
THEOREM TimersCountRealTime == Spec => []CountsRealTime
<1>1. IInv => CountsRealTime
  BY DEF IInv
<1> QED
  BY Invariant, <1>1, PTL

\* A record that a round of the walk takes out or reloads has run out.
LEMMA VisitOnTime ==
  ASSUME IInv, Visit, NEW t \in Timer, NEW b \in Of(t),
         b \notin Listed' \/ rec'[b].age < rec[b].age
  PROVE  /\ rec[b].want <= rec[b].age + EarlyBy(t)
         /\ rec[b].age <= rec[b].want + 2 * MaxElapsed
         /\ t \in (raised \cup Expiring)'
<1> DEFINE r == rec[b]
<1>1. /\ t # NoTimer /\ b \in Listed /\ r.timer = t /\ r \in Record /\ b \in Block
      /\ updateTime \in 0 .. MaxElapsed /\ elapsed \in 0 .. MaxElapsed /\ MaxElapsed \in Nat
  BY TimersAssumption, ListedInBlock DEF Of, IInv, TypeOK
<1>2. /\ rec' = [rec EXCEPT ![srchTimer] = Updated(rec[srchTimer])]
      /\ raised' = IF Reloads(rec[srchTimer]) THEN raised \cup {rec[srchTimer].timer}
                   ELSE raised
      /\ Gone => Listed' = Listed \ {srchTimer} /\ freeTimer' = srchTimer /\ pc' = "signal"
      /\ ~Gone => Listed' = Listed
      /\ pc = "walk" /\ srchTimer # NULL /\ srchTimer \in Listed /\ srchTimer \in Block
  BY VisitCases
<1>3. rec \in [Block -> Record]
  BY ListedInBlock
<1>4. b = srchTimer
  <2>1. SUFFICES ASSUME b # srchTimer PROVE FALSE
    OBVIOUS
  <2>2. rec'[b] = rec[b] /\ b \in Listed'
    BY <1>1, <1>2, <1>3, <2>1
  <2>3. rec[b].age \in Nat
    BY <1>1 DEF Record
  <2> QED
    BY <2>2, <2>3
<1>5. rec'[b] = Updated(r)
  BY <1>1, <1>2, <1>3, <1>4
<1>6. r.age \in Nat /\ r.want \in Nat /\ r.timeout \in Nat
  BY <1>1 DEF Record
<1>7. Left(r) = 0 /\ t \in (raised \cup Expiring)'
  <2>1. CASE Reloads(r)
    BY <1>1, <1>2, <1>4, <2>1 DEF Reloads
  <2>2. CASE ~Reloads(r)
    <3>1. Updated(r) = [r EXCEPT !.timeout = Left(r)]
      BY <2>2 DEF Updated
    <3>2. Updated(r).age = r.age /\ Updated(r).timeout = Left(r) /\ Updated(r).timer = t
      BY <1>1, <3>1 DEF Record
    <3>3. Gone
      BY <1>1, <1>2, <1>5, <1>6, <3>2
    <3>4. Left(r) = 0
      BY <1>1, <1>4, <3>2, <3>3 DEF Gone
    <3>5. Expiring' = {t} \ {NoTimer}
      BY <1>2, <1>4, <1>5, <3>2, <3>3, <3>4 DEF Expiring
    <3> QED
      BY <1>1, <3>4, <3>5
  <2> QED
    BY <2>1, <2>2
<1>8. r.timeout <= updateTime
  BY <1>1, <1>6, <1>7 DEF Left
<1>9. b \in ToVisit
  <2>1. PICK p : IsPath(p) /\ PathTells(p)
    BY PathOfInv
  <2>2. b # NULL
    BY <1>1, TimersAssumption
  <2>3. PICK k \in Nat : p[k] = b
    BY <1>1, <2>1 DEF PathTells
  <2> QED
    BY <1>2, <1>4, <2>1, <2>2, <2>3 DEF PathTells
<1>10. /\ r.age <= r.want - r.timeout + (elapsed + updateTime)
       /\ r.want - r.timeout + (elapsed + updateTime) <= r.age + EarlyBy(t)
  BY <1>1, <1>9 DEF IInv, CountsRealTime
<1>11. EarlyBy(t) \in Nat
  BY EarlyByNat
<1> HIDE DEF r
<1>12. r.want <= r.age + EarlyBy(t) /\ r.age <= r.want + 2 * MaxElapsed
  BY <1>1, <1>6, <1>8, <1>10, <1>11
<1> QED
  BY <1>7, <1>12 DEF r

\* The other steps of the update leave the listed records alone.
LEMMA UpdateOnTime ==
  ASSUME IInv, osalTimerUpdate, NEW t \in Timer, NEW b \in Of(t),
         b \notin Listed' \/ rec'[b].age < rec[b].age
  PROVE  /\ rec[b].want <= rec[b].age + EarlyBy(t)
         /\ rec[b].age <= rec[b].want + 2 * MaxElapsed
         /\ t \in (raised \cup Expiring)'
<1>1. b \in Listed /\ b \in Block /\ rec[b].age \in Nat /\ rec \in [Block -> Record]
  BY ListedInBlock DEF Of, Record
<1>2. CASE Visit
  BY <1>2, VisitOnTime
<1>3. CASE WalkEnds \/ Signal
  <2>1. UNCHANGED <<timerHead, next, rec>>
    BY <1>3 DEF WalkEnds, Signal, listVars
  <2>2. Listed' = Listed
    BY <2>1, SameList
  <2> QED
    BY <1>1, <2>1, <2>2
<1>4. CASE FreeRecord
  <2>1. Listed' = Listed /\ freeTimer \notin Listed
    BY <1>4, FreeKeeps DEF FreeRecord, IInv, Linked
  <2>2. rec'[b] = rec[b]
    BY <1>1, <1>4, <2>1 DEF FreeRecord
  <2> QED
    BY <1>1, <2>1, <2>2
<1> QED
  BY <1>2, <1>3, <1>4 DEF osalTimerUpdate

\* For any timers, timeouts and delays: a timer that expires is early by one
\* pass of the main loop at most (two if an interrupt service routine starts
\* it), late by two at most, and its event is raised (osalTimerUpdate).
THEOREM TimersExpireOnTime == Spec => ExpiresOnTime
<1>1. IInv /\ [Next]_vars =>
        [osalTimerUpdate => \A t \in Timer : \A b \in Of(t) :
            b \notin Listed' \/ rec'[b].age < rec[b].age =>
                /\ rec[b].want <= rec[b].age + EarlyBy(t)
                /\ rec[b].age <= rec[b].want + 2 * MaxElapsed
                /\ t \in (raised \cup Expiring)']_vars
  BY UpdateOnTime
<1> QED
  BY <1>1, Invariant, PTL DEF Spec, ExpiresOnTime

-----------------------------------------------------------------------------
(* The list implements the service.                                        *)

Running   == {t \in Timer : Of(t) # {}}
Reloading == {t \in Timer : \E b \in Of(t) : rec[b].reloadTimeout # 0}

\* Where no record changes its timer or its reloading, no timer does.
LEMMA SameService ==
  ASSUME Listed' = Listed,
         \A b \in Listed : /\ rec'[b].timer = rec[b].timer
                           /\ rec'[b].reloadTimeout = rec[b].reloadTimeout
  PROVE  Running' = Running /\ Reloading' = Reloading
<1>1. \A t \in Timer : Of(t)' = Of(t)
  BY DEF Of
<1>2. \A t \in Timer : \A b \in Of(t) : b \in Listed
  BY DEF Of
<1>3. Running' = Running
  BY <1>1 DEF Running
<1>4. Reloading' = Reloading
  BY <1>1, <1>2 DEF Reloading
<1> QED
  BY <1>3, <1>4

\* The record of a running timer.
LEMMA RecordOf ==
  ASSUME IInv, NEW t \in Timer, NEW b \in Listed, rec[b].timer = t
  PROVE  /\ t \in Running
         /\ t \in Reloading <=> rec[b].reloadTimeout # 0
         /\ \A c \in Listed : rec[c].timer = t => c = b
<1>1. t # NoTimer
  BY TimersAssumption
<1>2. \A c \in Listed : rec[c].timer = t => c = b
  BY <1>1 DEF IInv, OneRecord
<1>3. Of(t) = {b}
  BY <1>2 DEF Of
<1> QED
  BY <1>2, <1>3 DEF Running, Reloading

LEMMA InitServes == Init => Service!Init
<1> SUFFICES ASSUME Init PROVE Service!Init
  OBVIOUS
<1>1. IInv
  BY InitInv
<1>2. Listed = {}
  BY <1>1 DEF Init, IInv, Linked
<1>3. Expiring = {} /\ raised = {}
  BY DEF Init, Expiring
<1>4. \A t : Of(t) = {}
  BY <1>2 DEF Of
<1> QED
  BY <1>3, <1>4 DEF Service!Init

LEMMA RunningMembers ==
  /\ Running = {x \in Timer : \E c \in Listed : rec[c].timer = x}
  /\ Reloading = {x \in Timer : \E c \in Listed : rec[c].timer = x /\ rec[c].reloadTimeout # 0}
  BY DEF Running, Reloading, Of

LEMMA RunningMembersNext ==
  /\ Running' = {x \in Timer : \E c \in Listed' : rec'[c].timer = x}
  /\ Reloading' = {x \in Timer : \E c \in Listed' : rec'[c].timer = x
                                                    /\ rec'[c].reloadTimeout # 0}
  BY DEF Running, Reloading, Of

\* A record that waits to be freed is not among those a start can change.
LEMMA SameExpiring ==
  ASSUME IInv, UNCHANGED <<pc, freeTimer>>, \A c \in Block \ Listed : c \in heap => rec'[c] = rec[c]
  PROVE  Expiring' = Expiring
<1>1. CASE pc = "signal"
  <2>1. freeTimer \in Block \ Listed /\ freeTimer \in heap
    BY <1>1 DEF IInv, TypeOK, Linked, Cursors
  <2>2. rec'[freeTimer] = rec[freeTimer]
    BY <2>1
  <2> QED
    BY <2>2 DEF Expiring
<1>2. CASE pc # "signal"
  BY <1>2 DEF Expiring
<1> QED
  BY <1>1, <1>2

LEMMA AddTimerServes ==
  ASSUME IInv, NEW t \in Timer, NEW n \in Timeout, NEW reloads \in BOOLEAN,
         osalAddTimer(t, n, reloads), UNCHANGED <<raised, walkVars, elapsed>>
  PROVE  /\ Running' = Running \cup {t}
         /\ Reloading' = IF reloads THEN Reloading \cup {t} ELSE Reloading
         /\ Expiring' = Expiring
<1>1. Listed \subseteq heap /\ Listed \subseteq Block /\ rec \in [Block -> Record]
  BY ListedInBlock
<1>2. UNCHANGED <<pc, freeTimer, srchTimer, prevTimer>> /\ n # 0
  BY TimersAssumption DEF walkVars
<1>3. ASSUME NEW b \in Block, Started(b, t, n, reloads)
      PROVE  /\ rec'[b].timer = t
             /\ rec'[b].reloadTimeout = IF reloads THEN n ELSE rec[b].reloadTimeout
             /\ \A c \in Block \ {b} : rec'[c] = rec[c]
  BY <1>1, <1>3 DEF Started
<1>4. CASE \E b \in Of(t) : Started(b, t, n, reloads) /\ UNCHANGED <<timerHead, next, heap>>
  <2>1. PICK b \in Of(t) : Started(b, t, n, reloads) /\ UNCHANGED <<timerHead, next, heap>>
    BY <1>4
  <2>2. b \in Listed /\ rec[b].timer = t /\ b \in Block
    BY <1>1 DEF Of
  <2>3. Listed' = Listed
    BY <2>1, SameList
  <2>4. t \in Running /\ (t \in Reloading <=> rec[b].reloadTimeout # 0)
        /\ \A c \in Listed : rec[c].timer = t => c = b
    BY <2>2, RecordOf
  <2>5. Expiring' = Expiring
    BY <1>2, <1>3, <2>1, <2>2, SameExpiring
  <2>6. Running' = Running
    BY <1>1, <1>3, <2>1, <2>2, <2>3, RunningMembers, RunningMembersNext
  <2>7. \A x \in Timer : x \in Reloading' <=> x \in Reloading \/ (reloads /\ x = t)
    <3>1. TAKE x \in Timer
    <3>2. CASE x = t
      <4>1. \A c \in Listed : rec'[c].timer = t <=> c = b
        BY <1>1, <1>3, <2>1, <2>2, <2>4
      <4>2. t \in Reloading' <=> rec'[b].reloadTimeout # 0
        BY <2>2, <2>3, <4>1, RunningMembersNext
      <4> QED
        BY <1>2, <1>3, <2>1, <2>2, <2>4, <3>2, <4>2
    <3>3. CASE x # t
      <4>1. \A c \in Listed : rec'[c].timer = x <=> rec[c].timer = x
        BY <1>1, <1>3, <2>1, <2>2, <3>3
      <4>2. \A c \in Listed : rec[c].timer = x => rec'[c] = rec[c]
        BY <1>1, <1>3, <2>1, <2>2, <3>3
      <4> QED
        BY <2>3, <3>3, <4>1, <4>2, RunningMembers, RunningMembersNext
    <3> QED
      BY <3>2, <3>3
  <2>8. Reloading' \subseteq Timer /\ Reloading \subseteq Timer
    BY DEF Reloading
  <2> QED
    BY <2>4, <2>5, <2>6, <2>7, <2>8
<1>5. CASE Of(t) = {} /\ \E b \in Block \ heap : Started(b, t, n, reloads) /\ AppendRecord(b)
  <2>1. PICK b \in Block \ heap : Started(b, t, n, reloads) /\ AppendRecord(b)
    BY <1>5
  <2>2. Listed' = Listed \cup {b}
    BY <1>2, <2>1, AppendKeeps
  <2>3. b \notin Listed /\ rec[b].reloadTimeout = 0
    BY <1>1, <2>1 DEF IInv, Unused, Blank
  <2>4. Expiring' = Expiring
    BY <1>2, <1>3, <2>1, SameExpiring
  <2>5. rec'[b].timer = t /\ rec'[b].reloadTimeout = (IF reloads THEN n ELSE 0)
        /\ \A c \in Listed : rec'[c] = rec[c]
    BY <1>1, <1>3, <2>1, <2>3
  <2>6. \A c \in Listed : rec[c].timer # t
    BY <1>5 DEF Of
  <2>7. Running' = Running \cup {t}
    BY <2>2, <2>5, RunningMembers, RunningMembersNext
  <2>8. \A x \in Timer : x \in Reloading' <=> x \in Reloading \/ (reloads /\ x = t)
    BY <1>2, <2>2, <2>5, <2>6, RunningMembers, RunningMembersNext
  <2>9. Reloading' \subseteq Timer /\ Reloading \subseteq Timer
    BY DEF Reloading
  <2> QED
    BY <2>4, <2>7, <2>8, <2>9
<1> QED
  BY <1>4, <1>5 DEF osalAddTimer

LEMMA StopServes ==
  ASSUME IInv, NEW t \in Timer, osal_stop_timerEx(t)
  PROVE  /\ Running' = Running \ {t} /\ Reloading' = Reloading \ {t}
         /\ UNCHANGED <<raised, Expiring>>
<1> USE TimersAssumption
<1>1. PICK b \in Of(t) : rec' = [rec EXCEPT ![b] = [@ EXCEPT !.timer = NoTimer]]
  BY DEF osal_stop_timerEx
<1>2. UNCHANGED <<timerHead, next, heap, raised, pc, freeTimer>> /\ pc = "idle"
  BY DEF osal_stop_timerEx, walkVars
<1>3. b \in Listed /\ b \in Block /\ rec[b].timer = t /\ Listed \subseteq Block
      /\ rec \in [Block -> Record]
  BY ListedInBlock DEF Of
<1>4. rec'[b].timer = NoTimer /\ \A c \in Block \ {b} : rec'[c] = rec[c]
  BY <1>1, <1>3 DEF Record
<1>5. \A c \in Listed : rec[c].timer = t => c = b
  BY <1>3, RecordOf
<1>6. Listed' = Listed
  BY <1>2, SameList
<1>7. Expiring' = Expiring
  BY <1>2 DEF Expiring
<1>8. Running' = Running \ {t}
  BY <1>3, <1>4, <1>5, <1>6, RunningMembers, RunningMembersNext
<1>9. Reloading' = Reloading \ {t}
  BY <1>3, <1>4, <1>5, <1>6, RunningMembers, RunningMembersNext
<1> QED
  BY <1>2, <1>7, <1>8, <1>9

\* A round of the loop lets the timer of its record expire, if it has run out.
LEMMA VisitServes ==
  ASSUME IInv, Visit
  PROVE  \/ /\ UNCHANGED <<Running, Reloading>>
            /\ (raised \cup Expiring)' = raised \cup Expiring
         \/ \E t \in Running :
               /\ Running' = IF t \in Reloading THEN Running ELSE Running \ {t}
               /\ (raised \cup Expiring)' = (raised \cup Expiring) \cup {t}
               /\ Reloading' = Reloading
<1> USE TimersAssumption
<1> DEFINE b == srchTimer
           r == Updated(rec[b])
<1>1. /\ b \in Listed /\ b \in Block /\ rec[b] \in Record /\ pc = "walk"
      /\ rec' = [rec EXCEPT ![b] = r]
  BY VisitCases
<1>2. Listed \subseteq heap /\ Listed \subseteq Block /\ rec \in [Block -> Record]
  BY ListedInBlock
<1>3. updateTime \in 0 .. MaxElapsed
  BY DEF IInv, TypeOK
<1>4. r.timer = rec[b].timer /\ r.reloadTimeout = rec[b].reloadTimeout
  BY <1>1, <1>3, UpdatedRecord
<1>5. rec'[b] = r /\ \A c \in Block \ {b} : rec'[c] = rec[c]
  BY <1>1, <1>2
<1>6. \A c \in Listed : /\ rec'[c].timer = rec[c].timer
                        /\ rec'[c].reloadTimeout = rec[c].reloadTimeout
  BY <1>2, <1>4, <1>5
<1>7. Expiring = {}
  BY <1>1 DEF Expiring
<1>8. rec[b].timer \in Timer \cup {NoTimer}
  BY <1>1 DEF Record
<1>9. CASE ~Gone
  <2>1. Listed' = Listed /\ pc' = "walk"
    BY <1>9, VisitCases
  <2>2. Running' = Running /\ Reloading' = Reloading
    BY <1>6, <2>1, SameService
  <2>3. Expiring' = {}
    BY <2>1 DEF Expiring
  <2>4. CASE Reloads(rec[b])
    <3>1. rec[b].timer # NoTimer /\ rec[b].reloadTimeout # 0
      BY <2>4 DEF Reloads
    <3>2. rec[b].timer \in Running /\ rec[b].timer \in Reloading
      BY <1>1, <1>8, <3>1, RecordOf
    <3>3. raised' = raised \cup {rec[b].timer}
      BY <2>4, VisitCases
    <3> QED
      BY <1>7, <2>2, <2>3, <3>2, <3>3
  <2>5. CASE ~Reloads(rec[b])
    <3>1. raised' = raised
      BY <2>5, VisitCases
    <3> QED
      BY <1>7, <2>2, <2>3, <3>1
  <2> QED
    BY <2>4, <2>5
<1>10. CASE Gone
  <2>1. Listed' = Listed \ {b} /\ pc' = "signal" /\ freeTimer' = b
    BY <1>10, VisitCases
  <2>2. ~Reloads(rec[b])
    <3>1. SUFFICES ASSUME Reloads(rec[b]) PROVE FALSE
      OBVIOUS
    <3>2. r.timeout # 0 /\ r.timer # NoTimer
      BY <1>1, <1>3, <3>1, UpdatedRecord
    <3> QED
      BY <1>10, <3>2 DEF Gone
  <2>3. raised' = raised
    BY <2>2, VisitCases
  <2>4. Expiring' = IF r.timeout = 0 THEN {rec[b].timer} \ {NoTimer} ELSE {}
    BY <1>4, <1>5, <2>1 DEF Expiring
  <2>5. CASE rec[b].timer = NoTimer
    <3>1. Expiring' = {}
      BY <2>4, <2>5
    <3>2. Running' = Running /\ Reloading' = Reloading
      BY <1>6, <2>1, <2>5, RunningMembers, RunningMembersNext
    <3> QED
      BY <1>7, <2>3, <3>1, <3>2
  <2>6. CASE rec[b].timer # NoTimer
    <3> DEFINE t == rec[b].timer
    <3>1. t \in Timer
      BY <1>8, <2>6
    <3>2. r.timeout = 0
      BY <1>4, <1>10, <2>6 DEF Gone
    <3>3. rec[b].reloadTimeout = 0
      BY <1>1, <1>3, <2>2, <2>6, <3>2, UpdatedRecord
    <3>4. t \in Running /\ t \notin Reloading /\ \A c \in Listed : rec[c].timer = t => c = b
      BY <1>1, <3>1, <3>3, RecordOf
    <3>5. Expiring' = {t}
      BY <2>4, <2>6, <3>2
    <3>6. Running' = Running \ {t}
      BY <1>6, <2>1, <3>4, RunningMembers, RunningMembersNext
    <3>7. Reloading' = Reloading
      BY <1>6, <2>1, <3>3, RunningMembers, RunningMembersNext
    <3> HIDE DEF t
    <3> QED
      BY <1>7, <2>3, <3>4, <3>5, <3>6, <3>7
  <2> QED
    BY <2>5, <2>6
<1> QED
  BY <1>9, <1>10

LEMMA NextServes == IInv /\ [Next]_vars => [Service!Next]_(Service!vars)
<1> SUFFICES ASSUME IInv, [Next]_vars PROVE [Service!Next]_(Service!vars)
  OBVIOUS
<1> DEFINE owed == raised \cup Expiring
<1>1. ASSUME UNCHANGED <<Running, Reloading>>, owed' = owed
      PROVE  UNCHANGED Service!vars
  BY <1>1 DEF Service!vars, Running, Reloading
<1>2. ASSUME NEW t \in Timer, NEW n \in Timeout, osal_start_timerEx(t, n)
      PROVE  Service!Next
  <2>1. Running' = Running \cup {t} /\ Reloading' = Reloading /\ owed' = owed
    BY <1>2, AddTimerServes DEF osal_start_timerEx
  <2>2. Service!Start(t)
    BY <2>1 DEF Service!Start, Running, Reloading
  <2> QED
    BY <2>2 DEF Service!Next
<1>3. ASSUME NEW t \in Timer, NEW n \in Timeout, osal_start_reload_timer(t, n)
      PROVE  Service!Next
  <2>1. Running' = Running \cup {t} /\ Reloading' = Reloading \cup {t} /\ owed' = owed
    BY <1>3, AddTimerServes DEF osal_start_reload_timer
  <2>2. Service!StartReload(t)
    BY <2>1 DEF Service!StartReload, Running, Reloading
  <2> QED
    BY <2>2 DEF Service!Next
<1>4. ASSUME NEW t \in Timer, osal_stop_timerEx(t)
      PROVE  Service!Next
  <2>1. Running' = Running \ {t} /\ Reloading' = Reloading \ {t} /\ owed' = owed
    BY <1>4, StopServes
  <2>2. Service!Stop(t)
    BY <2>1 DEF Service!Stop, Running, Reloading
  <2> QED
    BY <2>2 DEF Service!Next
<1>5. ASSUME NEW t \in Timer, Process(t)
      PROVE  Service!Next
  <2>1. raised' = raised \ {t} /\ Expiring = {} /\ Expiring' = {}
    BY <1>5 DEF Process, Expiring, walkVars
  <2>2. Listed' = Listed /\ rec' = rec
    BY <1>5, SameList DEF Process, listVars
  <2>3. Running' = Running /\ Reloading' = Reloading
    BY <2>2, SameService
  <2>4. Service!Process(t)
    BY <2>1, <2>3 DEF Service!Process, Running, Reloading
  <2> QED
    BY <2>4 DEF Service!Next
<1>6. CASE Tick
  <2>1. Listed' = Listed /\ Listed \subseteq Block /\ rec \in [Block -> Record]
    BY <1>6, SameList, ListedInBlock DEF Tick
  <2>2. ASSUME NEW b \in Block
        PROVE  /\ rec'[b].timer = rec[b].timer
               /\ rec'[b].reloadTimeout = rec[b].reloadTimeout
               /\ b \notin Listed => rec'[b] = rec[b]
    <3>1. \/ rec'[b] = rec[b]
          \/ rec'[b] = [rec[b] EXCEPT !.age = rec[b].age + 1]
      BY <1>6 DEF Tick
    <3>2. b \notin Listed => rec'[b] = rec[b]
      BY <1>6 DEF Tick
    <3>3. rec[b] \in Record
      BY <2>1
    <3>4. CASE rec'[b] = [rec[b] EXCEPT !.age = rec[b].age + 1]
      BY <3>2, <3>3, <3>4 DEF Record
    <3> QED
      BY <3>1, <3>2, <3>4
  <2>3. Running' = Running /\ Reloading' = Reloading
    BY <2>1, <2>2, SameService
  <2>4. Expiring' = Expiring
    BY <1>6, <2>2, SameExpiring DEF Tick, walkVars
  <2> QED
    BY <1>1, <1>6, <2>3, <2>4 DEF Tick
<1>7. CASE osalTimeUpdate
  <2>1. Listed' = Listed /\ UNCHANGED <<rec, raised>>
    BY <1>7, SameList DEF osalTimeUpdate, listVars
  <2>2. Running' = Running /\ Reloading' = Reloading
    BY <2>1, SameService
  <2>3. Expiring = {} /\ Expiring' = {}
    BY <1>7 DEF osalTimeUpdate, Expiring, walkVars
  <2> QED
    BY <1>1, <2>1, <2>2, <2>3
<1>8. CASE Visit
  <2>1. CASE UNCHANGED <<Running, Reloading>> /\ owed' = owed
    BY <1>1, <2>1
  <2>2. CASE \E t \in Running :
               /\ Running' = IF t \in Reloading THEN Running ELSE Running \ {t}
               /\ owed' = owed \cup {t}
               /\ Reloading' = Reloading
    <3>1. PICK t \in Running :
               /\ Running' = IF t \in Reloading THEN Running ELSE Running \ {t}
               /\ owed' = owed \cup {t}
               /\ Reloading' = Reloading
      BY <2>2
    <3>2. Service!Expire(t) /\ t \in Timer
      BY <3>1 DEF Service!Expire, Running, Reloading
    <3> QED
      BY <3>2 DEF Service!Next
  <2> QED
    BY <1>8, <2>1, <2>2, VisitServes
<1>9. CASE WalkEnds
  <2>1. Listed' = Listed /\ UNCHANGED <<rec, raised>>
    BY <1>9, SameList DEF WalkEnds, listVars
  <2>2. Running' = Running /\ Reloading' = Reloading
    BY <2>1, SameService
  <2>3. Expiring = {} /\ Expiring' = {}
    BY <1>9 DEF WalkEnds, Expiring
  <2> QED
    BY <1>1, <2>1, <2>2, <2>3
<1>10. CASE Signal
  <2>1. Listed' = Listed /\ UNCHANGED rec
    BY <1>10, SameList DEF Signal, listVars
  <2>2. Running' = Running /\ Reloading' = Reloading
    BY <2>1, SameService
  <2>3. owed' = owed
    BY <1>10 DEF Signal, Expiring
  <2> QED
    BY <1>1, <2>2, <2>3
<1>11. CASE FreeRecord
  <2>1. Listed' = Listed /\ freeTimer \notin Listed /\ freeTimer \in Block
        /\ Listed \subseteq Block /\ rec \in [Block -> Record]
    BY <1>11, FreeKeeps, ListedInBlock DEF FreeRecord, IInv, Linked
  <2>2. \A c \in Listed : rec'[c] = rec[c]
    BY <1>11, <2>1 DEF FreeRecord
  <2>3. Running' = Running /\ Reloading' = Reloading
    BY <2>1, <2>2, SameService
  <2>4. Expiring = {} /\ Expiring' = {} /\ raised' = raised
    BY <1>11 DEF FreeRecord, Expiring
  <2> QED
    BY <1>1, <2>3, <2>4
<1>12. CASE UNCHANGED vars
  <2>1. Listed' = Listed /\ UNCHANGED <<rec, raised, pc, freeTimer>>
    BY <1>12, SameList DEF vars, listVars, walkVars
  <2>2. Running' = Running /\ Reloading' = Reloading
    BY <2>1, SameService
  <2>3. Expiring' = Expiring
    BY <2>1 DEF Expiring
  <2> QED
    BY <1>1, <2>1, <2>2, <2>3
<1> QED
  BY <1>2, <1>3, <1>4, <1>5, <1>6, <1>7, <1>8, <1>9, <1>10, <1>11, <1>12
     DEF Next, osalTimerUpdate

\* The list of records, with its walk in steps and the interrupts between them,
\* implements the service: a timer that is started raises its event once for
\* each time it expires, and never after it was stopped.  Nothing is said here
\* of when it expires.
THEOREM TimersImplementService == Spec => TimersServe
<1>1. Init => Service!Init
  BY InitServes
<1>2. IInv /\ [Next]_vars => [Service!Next]_(Service!vars)
  BY NextServes
<1>3. Service!Init /\ [][Service!Next]_(Service!vars) => TimersServe
  BY DEF TimersServe, Service!Spec
<1> QED
  BY <1>1, <1>2, <1>3, Invariant, PTL DEF Spec
==============================================================================
