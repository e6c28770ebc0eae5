---------------------------- MODULE OsalNv_proofs ----------------------------
(***************************************************************************)
(* Proofs about OsalNv, for any number of pages, items and failed writes:  *)
(* the state keeps its shape, no page holds more than it has room for, and *)
(* between calls one erased page is in reserve and the counts of the       *)
(* others are true.  The invariant says for every step of a call, of a     *)
(* compaction and of the recovery what it can rely on; losing power leads  *)
(* to the first step of the recovery, which relies on nothing but the      *)
(* shape of the pages.  The second half adds what the copies of the items  *)
(* are at each step as long as no write has failed, from which a read      *)
(* between calls returns what a reset would bring back.                    *)
(***************************************************************************)
EXTENDS OsalNv, WellFoundedInduction, TLAPS

-----------------------------------------------------------------------------
(* Least elements, and induction in the form of sets.                      *)

LessNat == {ss \in Nat \X Nat : ss[1] < ss[2]}

LEMMA LeastOf ==
  ASSUME NEW Q, Q \subseteq Nat, Q # {}
  PROVE  \E m \in Q : \A k \in Q : m <= k
  <1>1. IsWellFoundedOn(LessNat, Nat)
    BY NatLessThanWellFounded DEF OpToRel, LessNat
  <1>2. PICK m \in Q : \A k \in Q : ~(<<k, m>> \in LessNat)
    BY <1>1, WFMin
  <1>3. ASSUME NEW k \in Q PROVE m <= k
    <2>1. k \in Nat /\ m \in Nat
      OBVIOUS
    <2>2. k < m => <<k, m>> \in LessNat
      BY <2>1 DEF LessNat
    <2> QED BY <1>2, <2>1, <2>2
  <1> QED BY <1>3

LEMMA SetInduction ==
  ASSUME NEW Q, 0 \in Q, \A n \in Nat : n \in Q => n + 1 \in Q
  PROVE  Nat \subseteq Q
  <1>1. SUFFICES ASSUME Nat \ Q # {} PROVE FALSE
    OBVIOUS
  <1>2. PICK m \in Nat \ Q : \A j \in Nat \ Q : m <= j
    BY <1>1, LeastOf
  <1>3. m - 1 \in Nat /\ m - 1 \in Q /\ (m - 1) + 1 = m
    BY <1>2
  <1> QED BY <1>2, <1>3

-----------------------------------------------------------------------------
(* The words of a list of items.                                           *)

Weight(it, I) == IF it.id \in I THEN it.size ELSE 0

LEMMA WordsStep ==
  ASSUME NEW s, NEW I
  PROVE  /\ WordsTo(s, I, 0) = 0
         /\ \A n \in Nat : WordsTo(s, I, n + 1) = WordsTo(s, I, n) + Weight(s[n + 1], I)
  <1> DEFINE Eq(M, f) == f = [k \in 0 .. M |->
                           IF k = 0 THEN 0 ELSE f[k - 1] + Weight(s[k], I)]
             F(M) == CHOOSE f : Eq(M, f)
             G == {M \in Nat : \E f : Eq(M, f)}
  <1>1. \A M : WordsTo(s, I, M) = F(M)[M]
    BY Zenon DEF WordsTo, Weight
  <1>2. 0 \in G
    <2>1. Eq(0, [k \in 0 .. 0 |-> 0])
      OBVIOUS
    <2> HIDE DEF Eq
    <2> QED BY <2>1
  <1>3. ASSUME NEW M \in Nat, M \in G PROVE M + 1 \in G
    <2>1. PICK f : Eq(M, f)
      BY <1>3
    <2> DEFINE x == f[M] + Weight(s[M + 1], I)
               g == [k \in 0 .. M + 1 |-> IF k <= M THEN f[k] ELSE x]
    <2>2. ASSUME NEW k \in 0 .. M + 1
          PROVE  g[k] = IF k = 0 THEN 0 ELSE g[k - 1] + Weight(s[k], I)
      <3>1. CASE k = 0
        BY <2>1, <3>1
      <3>2. CASE k # 0 /\ k <= M
        <4>1. k \in 0 .. M /\ k - 1 \in 0 .. M + 1 /\ k - 1 <= M
          BY <3>2
        <4>2. f[k] = f[k - 1] + Weight(s[k], I)
          BY <2>1, <3>2, <4>1
        <4>3. g[k] = f[k] /\ g[k - 1] = f[k - 1]
          BY <3>2, <4>1
        <4> QED BY <3>2, <4>2, <4>3
      <3>3. CASE k = M + 1
        <4>1. g[k] = x /\ g[k - 1] = f[M] /\ k # 0
          BY <3>3
        <4> QED BY <3>3, <4>1
      <3> QED BY <3>1, <3>2, <3>3
    <2>3. Eq(M + 1, g)
      BY <2>2
    <2>4. M + 1 \in Nat
      OBVIOUS
    <2> HIDE DEF Eq, g
    <2> QED BY <2>3, <2>4
  <1>4. \A M \in Nat : M \in G
    <2> HIDE DEF G
    <2> QED BY <1>2, <1>3, SetInduction
  <1>5. ASSUME NEW M \in Nat PROVE Eq(M, F(M))
    <2>1. \E f : Eq(M, f)
      BY <1>4
    <2> HIDE DEF Eq
    <2> QED BY <2>1
  <1> HIDE DEF F, G
  <1>6. ASSUME NEW M \in Nat
        PROVE  /\ F(M)[0] = 0
               /\ \A k \in 1 .. M : F(M)[k] = F(M)[k - 1] + Weight(s[k], I)
    <2> DEFINE f == F(M)
    <2>1. f = [k \in 0 .. M |-> IF k = 0 THEN 0 ELSE f[k - 1] + Weight(s[k], I)]
      BY <1>5
    <2> HIDE DEF f
    <2>2. f[0] = 0
      BY <2>1
    <2>3. ASSUME NEW k \in 1 .. M PROVE f[k] = f[k - 1] + Weight(s[k], I)
      <3>1. k \in 0 .. M /\ k # 0
        OBVIOUS
      <3> QED BY <2>1, <3>1
    <2> QED BY <2>2, <2>3 DEF f
  <1> HIDE DEF Eq
  <1>7. ASSUME NEW M \in Nat, NEW k \in Nat, k <= M PROVE F(M + 1)[k] = F(M)[k]
    <2> DEFINE Q == {j \in Nat : j <= M => F(M + 1)[j] = F(M)[j]}
    <2>1. 0 \in Q
      BY <1>6
    <2>2. ASSUME NEW j \in Nat, j \in Q PROVE j + 1 \in Q
      <3> SUFFICES ASSUME j + 1 <= M PROVE F(M + 1)[j + 1] = F(M)[j + 1]
        OBVIOUS
      <3>1. /\ j + 1 \in 1 .. M /\ j + 1 \in 1 .. M + 1 /\ (j + 1) - 1 = j
            /\ M + 1 \in Nat
        OBVIOUS
      <3>2. F(M + 1)[j] = F(M)[j]
        BY <2>2
      <3>3. F(M + 1)[j + 1] = F(M + 1)[j] + Weight(s[j + 1], I)
        BY <1>6, <3>1
      <3>4. F(M)[j + 1] = F(M)[j] + Weight(s[j + 1], I)
        BY <1>6, <3>1
      <3> QED BY <3>2, <3>3, <3>4
    <2>3. Nat \subseteq Q
      <3> HIDE DEF Q
      <3> QED BY <2>1, <2>2, SetInduction
    <2> QED BY <1>7, <2>3
  <1>8. ASSUME NEW n \in Nat
        PROVE  F(n + 1)[n + 1] = F(n)[n] + Weight(s[n + 1], I)
    <2>1. n + 1 \in Nat /\ n + 1 \in 1 .. n + 1 /\ (n + 1) - 1 = n /\ n <= n
      OBVIOUS
    <2>2. F(n + 1)[n + 1] = F(n + 1)[n] + Weight(s[n + 1], I)
      BY <1>6, <2>1
    <2>3. F(n + 1)[n] = F(n)[n]
      BY <1>7, <2>1
    <2> QED BY <2>2, <2>3
  <1> QED BY <1>1, <1>6, <1>8

LEMMA ItemFields ==
  ASSUME NEW s \in Seq(ItemState), NEW i \in 1 .. Len(s)
  PROVE  /\ s[i] \in ItemState /\ s[i].id \in Ids \cup {Null} /\ s[i].size \in 1 .. PageCap
         /\ s[i].val \in Values \cup {Null} /\ s[i].chk \in BOOLEAN
         /\ s[i].stat \in {"new", "xfer"}
  <1>1. s[i] \in ItemState
    OBVIOUS
  <1> QED BY <1>1 DEF ItemState

\* Sums are numbers, grow with the prefix and with the set of ids, and are split by it.
LEMMA WordsNat ==
  ASSUME NEW s \in Seq(ItemState), NEW I, NEW n \in 0 .. Len(s)
  PROVE  WordsTo(s, I, n) \in Nat
  <1> DEFINE Q == {k \in Nat : k <= Len(s) => WordsTo(s, I, k) \in Nat}
  <1>1. 0 \in Q
    BY WordsStep
  <1>2. ASSUME NEW k \in Nat, k \in Q PROVE k + 1 \in Q
    <2> SUFFICES ASSUME k + 1 <= Len(s) PROVE WordsTo(s, I, k + 1) \in Nat
      OBVIOUS
    <2>1. k <= Len(s) /\ k + 1 \in 1 .. Len(s)
      OBVIOUS
    <2>2. WordsTo(s, I, k) \in Nat
      BY <1>2, <2>1
    <2>3. s[k + 1].size \in 1 .. PageCap
      BY <2>1, ItemFields
    <2>4. Weight(s[k + 1], I) \in Nat
      BY <2>3, NvAssumption DEF Weight
    <2>5. WordsTo(s, I, k + 1) = WordsTo(s, I, k) + Weight(s[k + 1], I)
      BY WordsStep
    <2> QED BY <2>2, <2>4, <2>5
  <1>3. Nat \subseteq Q
    <2> HIDE DEF Q
    <2> QED BY <1>1, <1>2, SetInduction
  <1> QED BY <1>3

LEMMA WordsGrow ==
  ASSUME NEW s \in Seq(ItemState), NEW I, NEW m \in Nat, NEW n \in 0 .. Len(s), m <= n
  PROVE  WordsTo(s, I, m) <= WordsTo(s, I, n)
  <1> DEFINE Q == {k \in Nat : m <= k /\ k <= Len(s) => WordsTo(s, I, m) <= WordsTo(s, I, k)}
  <1>1. 0 \in Q
    <2> SUFFICES ASSUME m <= 0 PROVE WordsTo(s, I, m) <= WordsTo(s, I, 0)
      OBVIOUS
    <2>1. m = 0
      OBVIOUS
    <2> QED BY <2>1, WordsStep
  <1>2. ASSUME NEW k \in Nat, k \in Q PROVE k + 1 \in Q
    <2> SUFFICES ASSUME m <= k + 1, k + 1 <= Len(s)
                 PROVE  WordsTo(s, I, m) <= WordsTo(s, I, k + 1)
      OBVIOUS
    <2>1. /\ k \in 0 .. Len(s) /\ k + 1 \in 1 .. Len(s) /\ k + 1 \in 0 .. Len(s)
          /\ m \in 0 .. Len(s)
      OBVIOUS
    <2>2. /\ WordsTo(s, I, k) \in Nat /\ WordsTo(s, I, k + 1) \in Nat
          /\ WordsTo(s, I, m) \in Nat
      BY <2>1, WordsNat
    <2>3. s[k + 1].size \in 1 .. PageCap
      BY <2>1, ItemFields
    <2>4. Weight(s[k + 1], I) \in Nat
      BY <2>3, NvAssumption DEF Weight
    <2>5. WordsTo(s, I, k + 1) = WordsTo(s, I, k) + Weight(s[k + 1], I)
      BY WordsStep
    <2>6. CASE m = k + 1
      BY <2>2, <2>6
    <2>7. CASE m # k + 1
      <3>1. m <= k /\ k <= Len(s)
        BY <2>7
      <3>2. WordsTo(s, I, m) <= WordsTo(s, I, k)
        BY <1>2, <3>1
      <3> QED BY <3>2, <2>2, <2>4, <2>5
    <2> QED BY <2>6, <2>7
  <1>3. Nat \subseteq Q
    <2> HIDE DEF Q
    <2> QED BY <1>1, <1>2, SetInduction
  <1>4. n \in Q
    BY <1>3
  <1> QED BY <1>4

LEMMA WordsSubset ==
  ASSUME NEW s \in Seq(ItemState), NEW I, NEW J, J \subseteq I, NEW n \in 0 .. Len(s)
  PROVE  WordsTo(s, J, n) <= WordsTo(s, I, n)
  <1> DEFINE Q == {k \in Nat : k <= Len(s) => WordsTo(s, J, k) <= WordsTo(s, I, k)}
  <1>1. 0 \in Q
    BY WordsStep
  <1>2. ASSUME NEW k \in Nat, k \in Q PROVE k + 1 \in Q
    <2> SUFFICES ASSUME k + 1 <= Len(s) PROVE WordsTo(s, J, k + 1) <= WordsTo(s, I, k + 1)
      OBVIOUS
    <2>1. k \in 0 .. Len(s) /\ k + 1 \in 1 .. Len(s)
      OBVIOUS
    <2>2. WordsTo(s, J, k) \in Nat /\ WordsTo(s, I, k) \in Nat
      BY <2>1, WordsNat
    <2>3. s[k + 1].size \in 1 .. PageCap
      BY <2>1, ItemFields
    <2>4. /\ Weight(s[k + 1], J) \in Nat /\ Weight(s[k + 1], I) \in Nat
          /\ Weight(s[k + 1], J) <= Weight(s[k + 1], I)
      BY <2>3, NvAssumption DEF Weight
    <2>5. /\ WordsTo(s, I, k + 1) = WordsTo(s, I, k) + Weight(s[k + 1], I)
          /\ WordsTo(s, J, k + 1) = WordsTo(s, J, k) + Weight(s[k + 1], J)
      BY WordsStep
    <2>6. WordsTo(s, J, k) <= WordsTo(s, I, k)
      BY <1>2, <2>1
    <2> QED BY <2>2, <2>4, <2>5, <2>6
  <1>3. Nat \subseteq Q
    <2> HIDE DEF Q
    <2> QED BY <1>1, <1>2, SetInduction
  <1> QED BY <1>3

LEMMA WordsSplit ==
  ASSUME NEW s \in Seq(ItemState), NEW n \in 0 .. Len(s)
  PROVE  WordsTo(s, Ids \cup {Null}, n) = WordsTo(s, Ids, n) + WordsTo(s, {Null}, n)
  <1> DEFINE A == Ids \cup {Null}
             Q == {k \in Nat : k <= Len(s) =>
                     WordsTo(s, A, k) = WordsTo(s, Ids, k) + WordsTo(s, {Null}, k)}
  <1>1. 0 \in Q
    <2>1. /\ WordsTo(s, A, 0) = 0 /\ WordsTo(s, Ids, 0) = 0 /\ WordsTo(s, {Null}, 0) = 0
      BY WordsStep
    <2> QED BY <2>1
  <1>2. ASSUME NEW k \in Nat, k \in Q PROVE k + 1 \in Q
    <2> SUFFICES ASSUME k + 1 <= Len(s)
                 PROVE  WordsTo(s, A, k + 1) = WordsTo(s, Ids, k + 1) + WordsTo(s, {Null}, k + 1)
      OBVIOUS
    <2>1. k \in 0 .. Len(s) /\ k + 1 \in 1 .. Len(s)
      OBVIOUS
    <2>2. WordsTo(s, A, k) \in Nat /\ WordsTo(s, Ids, k) \in Nat /\ WordsTo(s, {Null}, k) \in Nat
      BY <2>1, WordsNat
    <2>3. s[k + 1].size \in 1 .. PageCap /\ s[k + 1].id \in Ids \cup {Null}
      BY <2>1, ItemFields
    <2>4. /\ Weight(s[k + 1], Ids) \in Nat /\ Weight(s[k + 1], {Null}) \in Nat
          /\ Weight(s[k + 1], A) = Weight(s[k + 1], Ids) + Weight(s[k + 1], {Null})
      BY <2>3, NvAssumption DEF Weight
    <2>5. /\ WordsTo(s, A, k + 1) = WordsTo(s, A, k) + Weight(s[k + 1], A)
          /\ WordsTo(s, Ids, k + 1) = WordsTo(s, Ids, k) + Weight(s[k + 1], Ids)
          /\ WordsTo(s, {Null}, k + 1) = WordsTo(s, {Null}, k) + Weight(s[k + 1], {Null})
      BY WordsStep
    <2>6. WordsTo(s, A, k) = WordsTo(s, Ids, k) + WordsTo(s, {Null}, k)
      BY <1>2, <2>1
    <2> HIDE DEF A
    <2> QED BY <2>2, <2>4, <2>5, <2>6
  <1>3. Nat \subseteq Q
    <2> HIDE DEF Q
    <2> QED BY <1>1, <1>2, SetInduction
  <1>4. n \in Nat /\ n <= Len(s)
    OBVIOUS
  <1>5. n \in Q
    <2> HIDE DEF Q
    <2> QED BY <1>3, <1>4
  <1> HIDE DEF A
  <1> QED BY <1>4, <1>5 DEF A

\* Lists whose first n items have the same ids and sizes have the same words there.
LEMMA SameWords ==
  ASSUME NEW s, NEW t, NEW I, NEW n \in Nat,
         \A i \in 1 .. n : s[i].id = t[i].id /\ s[i].size = t[i].size
  PROVE  WordsTo(t, I, n) = WordsTo(s, I, n)
  <1> DEFINE Q == {k \in Nat : k <= n => WordsTo(t, I, k) = WordsTo(s, I, k)}
  <1>1. 0 \in Q
    BY WordsStep
  <1>2. ASSUME NEW k \in Nat, k \in Q PROVE k + 1 \in Q
    <2> SUFFICES ASSUME k + 1 <= n PROVE WordsTo(t, I, k + 1) = WordsTo(s, I, k + 1)
      OBVIOUS
    <2>1. k <= n /\ k + 1 \in 1 .. n
      OBVIOUS
    <2>2. Weight(t[k + 1], I) = Weight(s[k + 1], I)
      BY <2>1 DEF Weight
    <2>3. /\ WordsTo(t, I, k + 1) = WordsTo(t, I, k) + Weight(t[k + 1], I)
          /\ WordsTo(s, I, k + 1) = WordsTo(s, I, k) + Weight(s[k + 1], I)
      BY WordsStep
    <2>4. WordsTo(t, I, k) = WordsTo(s, I, k)
      BY <1>2, <2>1
    <2> QED BY <2>2, <2>3, <2>4
  <1>3. Nat \subseteq Q
    <2> HIDE DEF Q
    <2> QED BY <1>1, <1>2, SetInduction
  <1> QED BY <1>3

-----------------------------------------------------------------------------
(* How the words change with the list.                                     *)

SizedItems(s) == \A i \in 1 .. Len(s) : s[i].id # Null => s[i].size = ItemSize[s[i].id]

\* t has the items of s but for data, checksums and marks.
Alike(s, t) == Len(t) = Len(s) /\ \A i \in 1 .. Len(s) : t[i].id = s[i].id /\ t[i].size = s[i].size

LEMMA AlikeWords ==
  ASSUME NEW s \in Seq(ItemState), NEW t \in Seq(ItemState), Alike(s, t)
  PROVE  /\ \A I : Words(t, I) = Words(s, I)
         /\ \A I : \A n \in 0 .. Len(s) : WordsTo(t, I, n) = WordsTo(s, I, n)
         /\ SizedItems(s) => SizedItems(t)
  <1>1. ASSUME NEW I, NEW n \in 0 .. Len(s) PROVE WordsTo(t, I, n) = WordsTo(s, I, n)
    <2>1. n \in Nat /\ \A i \in 1 .. n : s[i].id = t[i].id /\ s[i].size = t[i].size
      BY DEF Alike
    <2> QED BY <2>1, SameWords
  <1>2. Len(t) = Len(s) /\ Len(s) \in 0 .. Len(s)
    BY DEF Alike
  <1>3. ASSUME NEW I PROVE Words(t, I) = Words(s, I)
    BY <1>1, <1>2 DEF Words
  <1>4. SizedItems(s) => SizedItems(t)
    BY DEF SizedItems, Alike
  <1> QED BY <1>1, <1>3, <1>4

LEMMA AppendWords ==
  ASSUME NEW s \in Seq(ItemState), NEW it \in ItemState
  PROVE  /\ Append(s, it) \in Seq(ItemState) /\ Len(Append(s, it)) = Len(s) + 1
         /\ \A i \in 1 .. Len(s) : Append(s, it)[i] = s[i]
         /\ \A I : Words(Append(s, it), I) = Words(s, I) + Weight(it, I)
         /\ SizedItems(s) /\ it.size = ItemSize[it.id] => SizedItems(Append(s, it))
  <1> DEFINE t == Append(s, it)
  <1>1. /\ t \in Seq(ItemState) /\ Len(t) = Len(s) + 1 /\ Len(s) \in Nat
        /\ \A i \in 1 .. Len(s) : t[i] = s[i]
        /\ t[Len(s) + 1] = it
    OBVIOUS
  <1> HIDE DEF t
  <1>2. ASSUME NEW I PROVE Words(t, I) = Words(s, I) + Weight(it, I)
    <2>1. WordsTo(t, I, Len(s)) = WordsTo(s, I, Len(s))
      BY <1>1, SameWords
    <2>2. WordsTo(t, I, Len(s) + 1) = WordsTo(t, I, Len(s)) + Weight(t[Len(s) + 1], I)
      BY <1>1, WordsStep
    <2> QED BY <1>1, <2>1, <2>2 DEF Words
  <1>3. ASSUME SizedItems(s), it.size = ItemSize[it.id] PROVE SizedItems(t)
    <2> SUFFICES ASSUME NEW i \in 1 .. Len(t), t[i].id # Null PROVE t[i].size = ItemSize[t[i].id]
      BY DEF SizedItems
    <2>1. CASE i = Len(s) + 1
      BY <1>1, <1>3, <2>1
    <2>2. CASE i # Len(s) + 1
      <3>1. i \in 1 .. Len(s)
        BY <1>1, <2>2
      <3> QED BY <1>1, <1>3, <3>1 DEF SizedItems
    <2> QED BY <2>1, <2>2
  <1> QED BY <1>1, <1>2, <1>3 DEF t

\* One item is replaced by one of the same size.
LEMMA ReplaceWords ==
  ASSUME NEW s \in Seq(ItemState), NEW t \in Seq(ItemState), NEW i \in 1 .. Len(s),
         Len(t) = Len(s), \A k \in 1 .. Len(s) : k # i => t[k] = s[k], NEW I,
         NEW n \in 0 .. Len(s)
  PROVE  /\ n < i => WordsTo(t, I, n) = WordsTo(s, I, n)
         /\ n >= i => WordsTo(t, I, n) + Weight(s[i], I) = WordsTo(s, I, n) + Weight(t[i], I)
  <1> DEFINE P(k) == /\ k < i => WordsTo(t, I, k) = WordsTo(s, I, k)
                     /\ k >= i => WordsTo(t, I, k) + Weight(s[i], I)
                                     = WordsTo(s, I, k) + Weight(t[i], I)
             Q == {k \in Nat : k <= Len(s) => P(k)}
  <1>0. Weight(s[i], I) \in Nat /\ Weight(t[i], I) \in Nat
    <2>1. s[i].size \in 1 .. PageCap /\ t[i].size \in 1 .. PageCap
      BY ItemFields
    <2> QED BY <2>1, NvAssumption DEF Weight
  <1>1. 0 \in Q
    <2>1. WordsTo(t, I, 0) = 0 /\ WordsTo(s, I, 0) = 0
      BY WordsStep
    <2> QED BY <2>1
  <1>2. ASSUME NEW k \in Nat, k \in Q PROVE k + 1 \in Q
    <2> SUFFICES ASSUME k + 1 <= Len(s) PROVE P(k + 1)
      OBVIOUS
    <2>1. k \in 0 .. Len(s) /\ k + 1 \in 1 .. Len(s) /\ k <= Len(s) /\ Len(t) = Len(s)
      OBVIOUS
    <2>2. WordsTo(t, I, k) \in Nat /\ WordsTo(s, I, k) \in Nat
      BY <2>1, WordsNat
    <2>3. /\ WordsTo(s, I, k + 1) = WordsTo(s, I, k) + Weight(s[k + 1], I)
          /\ WordsTo(t, I, k + 1) = WordsTo(t, I, k) + Weight(t[k + 1], I)
      BY WordsStep
    <2>4. s[k + 1].size \in 1 .. PageCap
      BY <2>1, ItemFields
    <2>5. Weight(s[k + 1], I) \in Nat
      BY <2>4, NvAssumption DEF Weight
    <2>6. P(k)
      BY <1>2, <2>1
    <2>7. k + 1 # i => t[k + 1] = s[k + 1]
      BY <2>1
    <2>8. CASE k + 1 < i
      BY <2>2, <2>3, <2>6, <2>7, <2>8
    <2>9. CASE k + 1 = i
      <3>1. WordsTo(t, I, k) = WordsTo(s, I, k)
        BY <2>6, <2>9
      <3>2. /\ WordsTo(s, I, i) = WordsTo(s, I, k) + Weight(s[i], I)
            /\ WordsTo(t, I, i) = WordsTo(t, I, k) + Weight(t[i], I)
        BY <2>3, <2>9
      <3>3. WordsTo(t, I, i) + Weight(s[i], I) = WordsTo(s, I, i) + Weight(t[i], I)
        BY <1>0, <2>2, <3>1, <3>2
      <3> QED BY <2>9, <3>3
    <2>10. CASE k + 1 > i
      <3>1. WordsTo(t, I, k) + Weight(s[i], I) = WordsTo(s, I, k) + Weight(t[i], I)
        BY <2>6, <2>10
      <3>2. Weight(t[k + 1], I) = Weight(s[k + 1], I)
        BY <2>7, <2>10
      <3>5. WordsTo(t, I, k + 1) = WordsTo(t, I, k) + Weight(s[k + 1], I)
        BY <2>3, <3>2
      <3>3. WordsTo(t, I, k + 1) + Weight(s[i], I) = WordsTo(s, I, k + 1) + Weight(t[i], I)
        <4> DEFINE x == WordsTo(t, I, k)
                   y == WordsTo(s, I, k)
                   d == Weight(s[k + 1], I)
                   e == Weight(s[i], I)
                   g == Weight(t[i], I)
        <4>1. /\ x \in Nat /\ y \in Nat /\ d \in Nat /\ e \in Nat /\ g \in Nat
              /\ x + e = y + g
          BY <1>0, <2>2, <2>5, <3>1
        <4>2. WordsTo(t, I, k + 1) = x + d /\ WordsTo(s, I, k + 1) = y + d
          BY <2>3, <3>5
        <4> HIDE DEF x, y, d, e, g
        <4>3. (x + d) + e = (y + d) + g
          BY <4>1
        <4> QED BY <4>2, <4>3 DEF e, g
      <3>4. ~(k + 1 < i)
        BY <2>10
      <3> HIDE DEF Weight
      <3> QED BY <3>3, <3>4
    <2> QED BY <2>8, <2>9, <2>10
  <1>3. Nat \subseteq Q
    <2> HIDE DEF Q
    <2> QED BY <1>1, <1>2, SetInduction
  <1>4. n \in Nat /\ n <= Len(s)
    OBVIOUS
  <1>5. n \in Q
    <2> HIDE DEF Q
    <2> QED BY <1>3, <1>4
  <1>6. P(n)
    BY <1>4, <1>5
  <1> QED BY <1>6

-----------------------------------------------------------------------------
(* The invariant: the shape of the state, and what holds at each step of a *)
(* call, of a compaction and of the recovery.                              *)

Items(p) == flash[p].items

\* The words of a page in use, those of its live items, and those of its zeroed items.
U(p) == Words(Items(p), Ids \cup {Null})
L(p) == Words(Items(p), Ids)
N(p) == Words(Items(p), {Null})

Returns == {"idle", "initPages", "compact", "zero"}

JobState == [op : {"none", "create", "write", "boot"}, id : Ids \cup {Null},
             val : Values \cup {Null}, src : (Pages \X (Nat \ {0})) \cup {Null},
             pg : Pages \cup {Null}, ix : Nat \ {0}, com : Pages \cup {Null},
             dst : Pages \cup {Null}, ok : BOOLEAN, er : Pages \cup {Null},
             ret : Returns, ip : Nat \ {0},
             ii : Nat \ {0}, lost : Nat, dups : {"no", "yes", "final"}]

\* The types, the size of every item and the room of every page.
Shape ==
  /\ flash \in [Pages -> PageState]
  /\ \A p \in Pages : SizedItems(Items(p)) /\ U(p) <= PageCap
  /\ pgOff \in [Pages -> 0 .. PageCap] /\ pgLost \in [Pages -> 0 .. PageCap]
  /\ pgRes \in Pages \cup {Null}
  /\ DOMAIN hot = HotIds
  /\ job \in JobState
  /\ faults \in 0 .. MaxFaults

\* A page has the room its counts promise; an erased page is empty.
RoomOn(p) == U(p) <= pgOff[p] /\ pgLost[p] <= pgOff[p] - L(p)
Empty(p)  == flash[p] = ErasedPage /\ pgOff[p] = 0 /\ pgLost[p] = 0

OthersActive(p) == \A q \in Pages \ {p} : flash[q].active

\* Between calls, and before the first flash operation of one.
InUse == pgRes \in Pages /\ OthersActive(pgRes) /\ \A p \in Pages : RoomOn(p)
Ready == InUse /\ Empty(pgRes)

\* The old copy that a call replaces is still where findItem found it.
Source(r) == /\ job.src # Null /\ job.src[1] # r
             /\ job.src[2] \in 1 .. Len(Items(job.src[1]))
             /\ Item(job.src[1], job.src[2]).id = job.id

\* A call that creates or writes an item, of which it knows the page.
Call_ == /\ job.op \in {"create", "write"} /\ job.id \in Ids /\ job.val \in Values
         /\ job.pg \in Pages /\ job.pg # pgRes /\ job.ret = "idle"
         /\ job.op = "write" => Source(pgRes)

\* Power-up, before the items are scanned.
Boot_ == /\ job.op = "boot" /\ job.id = Null /\ job.ip = 1 /\ job.ii = 1
         /\ job.lost = 0 /\ job.dups = "no" /\ \A p \in Pages : pgLost[p] = 0

\* The item fits once the lost words of its page are reclaimed.
FitsOnce == ItemSize[job.id] <= PageCap - pgOff[job.pg] + pgLost[job.pg]

CallToCopy == Call_ /\ InUse /\ FitsOnce

\* The words of the first n items of the page that are to be copied.
Copied(n) == WordsTo(Items(job.pg), Ids \ {job.id}, n)

Copying == /\ job.pg \in Pages /\ pgRes \in Pages /\ job.pg # pgRes
           /\ OthersActive(pgRes) /\ RoomOn(pgRes)
           /\ job.com = Null /\ job.ret = "idle"
           /\ job.ix <= Len(Items(job.pg)) + 1
           /\ CallToCopy \/ Boot_

AtItem == job.ix <= Len(Items(job.pg)) /\ Item(job.pg, job.ix).id \in Ids \ {job.id}

Target == IF job.com # Null THEN pgRes ELSE job.pg

Writing == Call_ /\ InUse /\ job.com \in {Null, job.pg} /\ (job.com = Null => Empty(pgRes))

IdleOK == job = NoJob /\ Ready
MarkOK == CallToCopy /\ Ready /\ job.com = Null /\ job.ix = 1
CompactOK == Copying /\ pgOff[pgRes] <= Copied(job.ix - 1)
CopyHdrOK == Copying /\ AtItem /\ pgOff[pgRes] <= Copied(job.ix - 1)
CopyItemOK == Copying /\ AtItem /\ pgOff[pgRes] <= Copied(job.ix)
HeaderOK == Writing /\ ItemSize[job.id] <= PageCap - pgOff[Target]
BodyOK == Writing /\ job.dst = Target
UseOK == /\ pgRes \in Pages /\ OthersActive(pgRes) /\ job.ret = "idle"
         /\ job.pg \in Pages /\ job.pg # pgRes /\ job.com = job.pg
         /\ (Call_ /\ InUse) \/ Boot_
EraseOK ==
  /\ job.er \in Pages /\ OthersActive(job.er)
  /\ job.ret \in {"idle", "zero"} => \A p \in Pages \ {job.er} : RoomOn(p)
  /\ job.ret = "zero" => job.op = "write" /\ job.id \in Ids /\ Source(job.er)
  /\ job.ret = "compact" => /\ Boot_ /\ job.er = pgRes /\ job.ix = 1 /\ job.com = Null
                            /\ job.pg \in Pages /\ job.pg # pgRes
  /\ job.ret = "initPages" => /\ \A p \in Pages \ {job.er} : pgLost[p] = 0
                              /\ job.ip = 1 /\ job.ii = 1 /\ job.lost = 0 /\ job.dups = "no"
ZeroOK == Ready /\ job.op = "write" /\ job.id \in Ids /\ Source(pgRes)
BootOK ==
  /\ job.op = "boot" /\ job.id = Null /\ job.ii = 1 /\ job.lost = 0 /\ job.dups = "no"
  /\ job.ix = 1 /\ job.com = Null
  /\ \A p \in Pages : pgOff[p] = 0 /\ pgLost[p] = 0
  /\ pgRes # Null => pgRes < job.ip
  /\ job.pg # Null => job.pg < job.ip /\ job.pg # pgRes
  /\ \A p \in Pages \ {pgRes} : p < job.ip => flash[p].active

\* The scan: no page counts more lost words than it has, and the pages looked at
\* know where their items end.
Scanning == /\ OthersActive(pgRes) /\ (pgRes # Null => flash[pgRes] = ErasedPage)
            /\ \A p \in Pages : pgLost[p] <= N(p)
ScanOK ==
  /\ Scanning /\ job.ip \in Pages /\ job.ii <= Len(Items(job.ip)) + 1
  /\ job.lost <= WordsTo(Items(job.ip), {Null}, job.ii - 1)
  /\ \A p \in Pages : p < job.ip \/ job.dups = "final" => pgOff[p] = U(p)
PickOK == Scanning /\ \A p \in Pages : pgOff[p] = U(p)

\* Where the program is, and what holds there.
Steps == {"idle", "mark", "compact", "copyHdr", "copyData", "copyChk", "header", "markSrc",
          "data", "chk", "use", "erase", "zero", "boot", "initPages", "pickRes"}
Control ==
  /\ pc \in Steps
  /\ pc = "idle" => IdleOK
  /\ pc = "mark" => MarkOK
  /\ pc = "compact" => CompactOK
  /\ pc = "copyHdr" => CopyHdrOK
  /\ pc \in {"copyData", "copyChk"} => CopyItemOK
  /\ pc = "header" => HeaderOK
  /\ pc \in {"markSrc", "data", "chk"} => BodyOK
  /\ pc = "markSrc" => job.op = "write"
  /\ pc = "use" => UseOK
  /\ pc = "erase" => EraseOK
  /\ pc = "zero" => ZeroOK
  /\ pc = "boot" => BootOK
  /\ pc = "initPages" => ScanOK
  /\ pc = "pickRes" => PickOK

Inv == Shape /\ Control

-----------------------------------------------------------------------------
(* What the flash operations do to the pages.                              *)

\* f is the flash after an operation on page p that neither adds nor zeroes an item.
Keeps(f, p) == /\ f \in [Pages -> PageState]
               /\ \A q \in Pages : /\ f[q].active = flash[q].active
                                   /\ Alike(flash[q].items, f[q].items)
               /\ \A q \in Pages \ {p} : f[q] = flash[q]

LEMMA PageFields ==
  ASSUME flash \in [Pages -> PageState], NEW p \in Pages
  PROVE  /\ Items(p) \in Seq(ItemState) /\ Len(Items(p)) \in Nat
         /\ flash[p].active \in BOOLEAN /\ flash[p].xfer \in BOOLEAN
         /\ flash[p] \in PageState
  <1>1. flash[p] \in PageState
    OBVIOUS
  <1>2. Items(p) \in Seq(ItemState) /\ flash[p].active \in BOOLEAN /\ flash[p].xfer \in BOOLEAN
    BY <1>1 DEF PageState, Items
  <1> QED BY <1>1, <1>2

LEMMA SetItems ==
  ASSUME flash \in [Pages -> PageState], NEW p \in Pages, NEW t \in Seq(ItemState),
         NEW f, f = [flash EXCEPT ![p].items = t]
  PROVE  /\ f \in [Pages -> PageState]
         /\ f[p].items = t /\ f[p].active = flash[p].active
         /\ \A q \in Pages \ {p} : f[q] = flash[q]
  <1>1. flash[p] \in PageState
    OBVIOUS
  <1>2. ASSUME NEW g \in PageState
        PROVE  /\ [g EXCEPT !.items = t] \in PageState
               /\ [g EXCEPT !.items = t].items = t
               /\ [g EXCEPT !.items = t].active = g.active
    BY DEF PageState
  <1>3. f = [flash EXCEPT ![p] = [flash[p] EXCEPT !.items = t]]
    OBVIOUS
  <1> DEFINE r == [flash[p] EXCEPT !.items = t]
  <1>4. r \in PageState /\ r.items = t /\ r.active = flash[p].active
    BY <1>1, <1>2, Zenon
  <1>5. f = [flash EXCEPT ![p] = r]
    BY <1>3
  <1> HIDE DEF r
  <1>6. f[p] = r /\ f \in [Pages -> PageState] /\ \A q \in Pages \ {p} : f[q] = flash[q]
    BY <1>4, <1>5
  <1> QED BY <1>4, <1>6

LEMMA AlikeSelf ==
  ASSUME NEW s
  PROVE  Alike(s, s)
  BY DEF Alike

LEMMA SetAlike ==
  ASSUME flash \in [Pages -> PageState], NEW p \in Pages, NEW t \in Seq(ItemState),
         Alike(Items(p), t), NEW f, f = [flash EXCEPT ![p].items = t]
  PROVE  Keeps(f, p)
  <1>1. /\ f \in [Pages -> PageState] /\ f[p].items = t /\ f[p].active = flash[p].active
        /\ \A q \in Pages \ {p} : f[q] = flash[q]
    BY SetItems
  <1>2. ASSUME NEW q \in Pages
        PROVE  f[q].active = flash[q].active /\ Alike(flash[q].items, f[q].items)
    <2>1. CASE q = p
      BY <1>1, <2>1 DEF Items
    <2>2. CASE q # p
      BY <1>1, <2>2, AlikeSelf
    <2> QED BY <2>1, <2>2
  <1> QED BY <1>1, <1>2 DEF Keeps

\* One field of one item is written.
LEMMA FieldsAlike ==
  ASSUME NEW s \in Seq(ItemState), NEW i,
         NEW v \in Values \cup {Null}, NEW st \in {"new", "xfer"}
  PROVE  /\ [s EXCEPT ![i].val = v] \in Seq(ItemState) /\ Alike(s, [s EXCEPT ![i].val = v])
         /\ [s EXCEPT ![i].chk = TRUE] \in Seq(ItemState) /\ Alike(s, [s EXCEPT ![i].chk = TRUE])
         /\ [s EXCEPT ![i].stat = st] \in Seq(ItemState) /\ Alike(s, [s EXCEPT ![i].stat = st])
  <1>1. ASSUME NEW a \in ItemState
        PROVE  /\ [a EXCEPT !.val = v] \in ItemState /\ [a EXCEPT !.val = v].id = a.id
               /\ [a EXCEPT !.val = v].size = a.size
               /\ [a EXCEPT !.chk = TRUE] \in ItemState /\ [a EXCEPT !.chk = TRUE].id = a.id
               /\ [a EXCEPT !.chk = TRUE].size = a.size
               /\ [a EXCEPT !.stat = st] \in ItemState /\ [a EXCEPT !.stat = st].id = a.id
               /\ [a EXCEPT !.stat = st].size = a.size
    BY DEF ItemState
  <1>2. ASSUME NEW b, i \in 1 .. Len(s) => b \in ItemState /\ b.id = s[i].id /\ b.size = s[i].size
        PROVE  [s EXCEPT ![i] = b] \in Seq(ItemState) /\ Alike(s, [s EXCEPT ![i] = b])
    <2>1. CASE i \in 1 .. Len(s)
      <3> DEFINE t == [s EXCEPT ![i] = b]
      <3>1. b \in ItemState
        BY <1>2, <2>1
      <3>2. /\ t \in Seq(ItemState) /\ Len(t) = Len(s)
            /\ \A k \in 1 .. Len(s) : t[k] = IF k = i THEN b ELSE s[k]
        BY <2>1, <3>1
      <3> HIDE DEF t
      <3>3. Alike(s, t)
        BY <1>2, <2>1, <3>2 DEF Alike
      <3> QED BY <3>2, <3>3 DEF t
    <2>2. CASE i \notin 1 .. Len(s)
      <3>1. [s EXCEPT ![i] = b] = s
        BY <2>2
      <3> QED BY <3>1, AlikeSelf
    <2> QED BY <2>1, <2>2
  <1>3. i \in 1 .. Len(s) => s[i] \in ItemState
    OBVIOUS
  <1>4. /\ [s EXCEPT ![i].val = v] = [s EXCEPT ![i] = [s[i] EXCEPT !.val = v]]
        /\ [s EXCEPT ![i].chk = TRUE] = [s EXCEPT ![i] = [s[i] EXCEPT !.chk = TRUE]]
        /\ [s EXCEPT ![i].stat = st] = [s EXCEPT ![i] = [s[i] EXCEPT !.stat = st]]
    OBVIOUS
  <1>5. [s EXCEPT ![i].val = v] \in Seq(ItemState) /\ Alike(s, [s EXCEPT ![i].val = v])
    <2> DEFINE b == [s[i] EXCEPT !.val = v]
    <2>1. i \in 1 .. Len(s) => b \in ItemState /\ b.id = s[i].id /\ b.size = s[i].size
      BY <1>1, <1>3, Zenon
    <2> HIDE DEF b
    <2>2. [s EXCEPT ![i] = b] \in Seq(ItemState) /\ Alike(s, [s EXCEPT ![i] = b])
      BY <1>2, <2>1
    <2> QED BY <1>4, <2>2, Zenon DEF b
  <1>6. [s EXCEPT ![i].chk = TRUE] \in Seq(ItemState) /\ Alike(s, [s EXCEPT ![i].chk = TRUE])
    <2> DEFINE b == [s[i] EXCEPT !.chk = TRUE]
    <2>1. i \in 1 .. Len(s) => b \in ItemState /\ b.id = s[i].id /\ b.size = s[i].size
      BY <1>1, <1>3, Zenon
    <2> HIDE DEF b
    <2>2. [s EXCEPT ![i] = b] \in Seq(ItemState) /\ Alike(s, [s EXCEPT ![i] = b])
      BY <1>2, <2>1
    <2> QED BY <1>4, <2>2, Zenon DEF b
  <1>7. [s EXCEPT ![i].stat = st] \in Seq(ItemState) /\ Alike(s, [s EXCEPT ![i].stat = st])
    <2> DEFINE b == [s[i] EXCEPT !.stat = st]
    <2>1. i \in 1 .. Len(s) => b \in ItemState /\ b.id = s[i].id /\ b.size = s[i].size
      BY <1>1, <1>3, Zenon
    <2> HIDE DEF b
    <2>2. [s EXCEPT ![i] = b] \in Seq(ItemState) /\ Alike(s, [s EXCEPT ![i] = b])
      BY <1>2, <2>1
    <2> QED BY <1>4, <2>2, Zenon DEF b
  <1> QED BY <1>5, <1>6, <1>7

LEMMA XferKeeps ==
  ASSUME flash \in [Pages -> PageState], NEW p \in Pages, NEW i
  PROVE  Keeps(XferItem(p, i), p)
  <1> DEFINE t == [Items(p) EXCEPT ![i].stat = "xfer"]
  <1>1. Null \in Values \cup {Null} /\ "xfer" \in {"new", "xfer"}
    OBVIOUS
  <1>2. t \in Seq(ItemState) /\ Alike(Items(p), t)
    BY <1>1, PageFields, FieldsAlike
  <1>3. XferItem(p, i) = [flash EXCEPT ![p].items = t]
    BY DEF XferItem, Items
  <1> HIDE DEF t
  <1> QED BY <1>2, <1>3, SetAlike

LEMMA DataKeeps ==
  ASSUME flash \in [Pages -> PageState], NEW p \in Pages, NEW v \in Values \cup {Null}
  PROVE  Keeps(LastData(p, v), p)
  <1> DEFINE t == [Items(p) EXCEPT ![Len(Items(p))].val = v]
  <1>1. "xfer" \in {"new", "xfer"}
    OBVIOUS
  <1>2. t \in Seq(ItemState) /\ Alike(Items(p), t)
    BY <1>1, PageFields, FieldsAlike
  <1>3. LastData(p, v) = [flash EXCEPT ![p].items = t]
    BY DEF LastData, Items
  <1> HIDE DEF t
  <1> QED BY <1>2, <1>3, SetAlike

LEMMA ChkKeeps ==
  ASSUME flash \in [Pages -> PageState], NEW p \in Pages
  PROVE  Keeps(LastChk(p), p)
  <1> DEFINE t == [Items(p) EXCEPT ![Len(Items(p))].chk = TRUE]
  <1>1. Null \in Values \cup {Null} /\ "xfer" \in {"new", "xfer"}
    OBVIOUS
  <1>2. t \in Seq(ItemState) /\ Alike(Items(p), t)
    BY <1>1, PageFields, FieldsAlike
  <1>3. LastChk(p) = [flash EXCEPT ![p].items = t]
    BY DEF LastChk, Items
  <1> HIDE DEF t
  <1> QED BY <1>2, <1>3, SetAlike

\* The header words of a page: its items stay.
LEMMA HeaderWords ==
  ASSUME flash \in [Pages -> PageState], NEW p \in Pages, NEW x \in BOOLEAN, NEW y \in BOOLEAN
  PROVE  /\ [flash EXCEPT ![p].active = x] \in [Pages -> PageState]
         /\ [flash EXCEPT ![p].active = x][p].active = x
         /\ \A q \in Pages \ {p} : [flash EXCEPT ![p].active = x][q] = flash[q]
         /\ [flash EXCEPT ![p].xfer = x] \in [Pages -> PageState]
         /\ [flash EXCEPT ![p].active = y, ![p].xfer = x] \in [Pages -> PageState]
         /\ Keeps([flash EXCEPT ![p].xfer = x], p)
         /\ \A q \in Pages : /\ [flash EXCEPT ![p].active = x][q].items = Items(q)
                             /\ [flash EXCEPT ![p].xfer = x][q].items = Items(q)
                             /\ [flash EXCEPT ![p].active = y, ![p].xfer = x][q].items = Items(q)
  <1>1. flash[p] \in PageState
    OBVIOUS
  <1>2. ASSUME NEW g \in PageState
        PROVE  /\ [g EXCEPT !.active = x] \in PageState /\ [g EXCEPT !.active = x].active = x
               /\ [g EXCEPT !.active = x].items = g.items
               /\ [g EXCEPT !.xfer = x] \in PageState /\ [g EXCEPT !.xfer = x].active = g.active
               /\ [g EXCEPT !.xfer = x].items = g.items
               /\ [g EXCEPT !.active = y, !.xfer = x] \in PageState
               /\ [g EXCEPT !.active = y, !.xfer = x].items = g.items
    BY DEF PageState
  <1>3. ASSUME NEW r \in PageState, r.items = flash[p].items
        PROVE  /\ [flash EXCEPT ![p] = r] \in [Pages -> PageState]
               /\ [flash EXCEPT ![p] = r][p] = r
               /\ \A q \in Pages \ {p} : [flash EXCEPT ![p] = r][q] = flash[q]
               /\ \A q \in Pages : [flash EXCEPT ![p] = r][q].items = Items(q)
    BY <1>3 DEF Items
  <1> DEFINE a == [flash[p] EXCEPT !.active = x]
             b == [flash[p] EXCEPT !.xfer = x]
             c == [flash[p] EXCEPT !.active = y, !.xfer = x]
  <1>4. /\ [flash EXCEPT ![p].active = x] = [flash EXCEPT ![p] = a]
        /\ [flash EXCEPT ![p].xfer = x] = [flash EXCEPT ![p] = b]
    OBVIOUS
  <1>5. [flash EXCEPT ![p].active = y, ![p].xfer = x] = [flash EXCEPT ![p] = c]
    <2>1. c = [[flash[p] EXCEPT !.active = y] EXCEPT !.xfer = x]
      BY <1>1 DEF PageState
    <2> QED BY <2>1
  <1>6. /\ a \in PageState /\ a.active = x /\ a.items = flash[p].items
        /\ b \in PageState /\ b.active = flash[p].active /\ b.items = flash[p].items
        /\ c \in PageState /\ c.items = flash[p].items
    BY <1>1, <1>2, Zenon
  <1> HIDE DEF a, b, c
  <1>7. Keeps([flash EXCEPT ![p] = b], p)
    <2> DEFINE f == [flash EXCEPT ![p] = b]
    <2>1. /\ f \in [Pages -> PageState] /\ f[p] = b
          /\ \A q \in Pages \ {p} : f[q] = flash[q]
      BY <1>3, <1>6
    <2> HIDE DEF f
    <2>2. ASSUME NEW q \in Pages
          PROVE  f[q].active = flash[q].active /\ Alike(flash[q].items, f[q].items)
      <3>1. CASE q = p
        BY <1>6, <2>1, <3>1, AlikeSelf
      <3>2. CASE q # p
        BY <2>1, <3>2, AlikeSelf
      <3> QED BY <3>1, <3>2
    <2>3. Keeps(f, p)
      BY <2>1, <2>2 DEF Keeps
    <2> QED BY <2>3 DEF f
  <1> QED BY <1>3, <1>4, <1>5, <1>6, <1>7

\* The rooms of the pages do not change when the items stay alike.
LEMMA KeepsWords ==
  ASSUME flash \in [Pages -> PageState], NEW p, Keeps(flash', p), NEW q \in Pages
  PROVE  /\ flash' \in [Pages -> PageState]
         /\ flash'[q].active = flash[q].active
         /\ U(q)' = U(q) /\ L(q)' = L(q) /\ N(q)' = N(q)
         /\ Len(Items(q)') = Len(Items(q))
         /\ \A I : \A n \in 0 .. Len(Items(q)) : WordsTo(Items(q)', I, n) = WordsTo(Items(q), I, n)
         /\ \A i \in 1 .. Len(Items(q)) : Items(q)'[i].id = Items(q)[i].id
         /\ SizedItems(Items(q)) => SizedItems(Items(q)')
  <1>1. /\ flash' \in [Pages -> PageState] /\ flash'[q].active = flash[q].active
        /\ Alike(flash[q].items, flash'[q].items)
    BY DEF Keeps
  <1>2. Items(q) \in Seq(ItemState) /\ Items(q)' \in Seq(ItemState)
    BY <1>1, PageFields DEF Items, PageState
  <1>3. Alike(Items(q), Items(q)')
    BY <1>1 DEF Items
  <1> DEFINE s == Items(q)
             t == Items(q)'
  <1> HIDE DEF s, t
  <1>4. s \in Seq(ItemState) /\ t \in Seq(ItemState) /\ Alike(s, t)
    BY <1>2, <1>3 DEF s, t
  <1>5. /\ \A I : Words(t, I) = Words(s, I)
        /\ \A I : \A n \in 0 .. Len(s) : WordsTo(t, I, n) = WordsTo(s, I, n)
        /\ SizedItems(s) => SizedItems(t)
        /\ Len(t) = Len(s) /\ \A i \in 1 .. Len(s) : t[i].id = s[i].id
    BY <1>4, AlikeWords DEF Alike
  <1> QED BY <1>1, <1>5 DEF s, t, U, L, N

LEMMA SamePage ==
  ASSUME NEW q, flash'[q] = flash[q]
  PROVE  Items(q)' = Items(q) /\ U(q)' = U(q) /\ L(q)' = L(q) /\ N(q)' = N(q)
  BY DEF Items, U, L, N

LEMMA ErasedWords ==
  ASSUME flash \in [Pages -> PageState], NEW p \in Pages,
         flash' = [flash EXCEPT ![p] = ErasedPage]
  PROVE  /\ flash' \in [Pages -> PageState] /\ flash'[p] = ErasedPage
         /\ \A q \in Pages \ {p} : flash'[q] = flash[q]
         /\ Len(Items(p)') = 0 /\ U(p)' = 0 /\ L(p)' = 0 /\ N(p)' = 0
         /\ SizedItems(Items(p)')
  <1>1. ErasedPage \in PageState /\ ErasedPage.items = <<>>
    BY DEF ErasedPage, PageState
  <1>2. /\ flash' \in [Pages -> PageState] /\ flash'[p] = ErasedPage
        /\ \A q \in Pages \ {p} : flash'[q] = flash[q]
    BY <1>1
  <1>3. Items(p)' = <<>>
    BY <1>1, <1>2 DEF Items
  <1>4. \A s : s = <<>> => Len(s) = 0 /\ SizedItems(s)
    BY DEF SizedItems
  <1>5. \A s, I : s = <<>> => Words(s, I) = 0
    BY <1>4, WordsStep DEF Words
  <1>6. U(p)' = 0 /\ L(p)' = 0 /\ N(p)' = 0
    BY <1>3, <1>5 DEF U, L, N
  <1> QED BY <1>2, <1>3, <1>4, <1>6

\* The words of the empty list, for a page already known to be erased.
LEMMA EmptyWords ==
  ASSUME NEW p, flash[p] = ErasedPage
  PROVE  Len(Items(p)) = 0 /\ U(p) = 0 /\ L(p) = 0 /\ N(p) = 0
  <1>1. Items(p) = <<>>
    BY DEF Items, ErasedPage
  <1>2. \A s, I : s = <<>> => Len(s) = 0 /\ Words(s, I) = 0
    BY WordsStep DEF Words
  <1> QED BY <1>1, <1>2 DEF U, L, N

LEMMA HeaderAppended ==
  ASSUME flash \in [Pages -> PageState], NEW p \in Pages, NEW id \in Ids,
         flash' = NewHeader(p, id)
  PROVE  /\ flash' \in [Pages -> PageState]
         /\ \A q \in Pages : flash'[q].active = flash[q].active
         /\ \A q \in Pages \ {p} : flash'[q] = flash[q]
         /\ U(p)' = U(p) + ItemSize[id] /\ L(p)' = L(p) + ItemSize[id]
         /\ Len(Items(p)') = Len(Items(p)) + 1
         /\ \A i \in 1 .. Len(Items(p)) : Items(p)'[i] = Items(p)[i]
         /\ SizedItems(Items(p)) => SizedItems(Items(p)')
  <1> DEFINE it == [id |-> id, size |-> ItemSize[id], val |-> Null, chk |-> FALSE, stat |-> "new"]
             s == Items(p)
             t == Append(s, it)
  <1>1. ItemSize[id] \in 1 .. PageCap
    BY NvAssumption
  <1>2. it \in ItemState /\ it.id = id /\ it.size = ItemSize[id]
    BY <1>1 DEF ItemState
  <1>3. s \in Seq(ItemState)
    BY PageFields
  <1>4. flash' = [flash EXCEPT ![p].items = t]
    BY DEF NewHeader, Items
  <1> HIDE DEF it, s
  <1>5. /\ t \in Seq(ItemState) /\ Len(t) = Len(s) + 1
        /\ \A i \in 1 .. Len(s) : t[i] = s[i]
        /\ \A I : Words(t, I) = Words(s, I) + Weight(it, I)
        /\ SizedItems(s) => SizedItems(t)
    BY <1>2, <1>3, AppendWords
  <1> HIDE DEF t
  <1>6. /\ flash' \in [Pages -> PageState]
        /\ flash'[p].items = t /\ flash'[p].active = flash[p].active
        /\ \A q \in Pages \ {p} : flash'[q] = flash[q]
    BY <1>4, <1>5, SetItems
  <1>7. Items(p)' = t
    BY <1>6 DEF Items
  <1>8. Weight(it, Ids \cup {Null}) = ItemSize[id] /\ Weight(it, Ids) = ItemSize[id]
    BY <1>2 DEF Weight
  <1>9. U(p)' = U(p) + ItemSize[id] /\ L(p)' = L(p) + ItemSize[id]
    BY <1>5, <1>7, <1>8 DEF U, L, s
  <1> QED BY <1>5, <1>6, <1>7, <1>9 DEF s

LEMMA ItemZeroed ==
  ASSUME flash \in [Pages -> PageState], NEW p \in Pages, NEW i \in 1 .. Len(Items(p)),
         Item(p, i).id \in Ids, flash' = ZeroItem(p, i)
  PROVE  /\ flash' \in [Pages -> PageState]
         /\ \A q \in Pages : flash'[q].active = flash[q].active
         /\ \A q \in Pages \ {p} : flash'[q] = flash[q]
         /\ Item(p, i).size \in 1 .. PageCap
         /\ U(p)' = U(p) /\ L(p)' + Item(p, i).size = L(p) /\ N(p)' = N(p) + Item(p, i).size
         /\ Len(Items(p)') = Len(Items(p)) /\ L(p)' \in Nat
         /\ \A n \in 0 .. Len(Items(p)) :
              WordsTo(Items(p)', {Null}, n) = WordsTo(Items(p), {Null}, n)
                                              + IF n >= i THEN Item(p, i).size ELSE 0
         /\ SizedItems(Items(p)) => SizedItems(Items(p)')
  <1> DEFINE s == Items(p)
             z == [id |-> Null, size |-> s[i].size, val |-> Null, chk |-> FALSE, stat |-> "new"]
             t == [s EXCEPT ![i] = z]
             sz == s[i].size
  <1>1. s \in Seq(ItemState) /\ Len(s) \in Nat
    BY PageFields
  <1>2. sz \in 1 .. PageCap /\ s[i].id \in Ids
    <2>1. s[i] = Item(p, i)
      BY DEF Items, Item
    <2> HIDE DEF s
    <2>2. s[i].size \in 1 .. PageCap
      BY <1>1, ItemFields DEF s
    <2> QED BY <2>1, <2>2
  <1>3. flash' = [flash EXCEPT ![p].items = t]
    BY DEF ZeroItem, Items
  <1> HIDE DEF s
  <1>4. z \in ItemState /\ z.id = Null /\ z.size = sz
    BY <1>2 DEF ItemState
  <1> HIDE DEF z
  <1>5. i \in 1 .. Len(s)
    BY DEF s
  <1>6. /\ t \in Seq(ItemState) /\ Len(t) = Len(s) /\ t[i] = z
        /\ \A k \in 1 .. Len(s) : k # i => t[k] = s[k]
    BY <1>1, <1>4, <1>5
  <1> HIDE DEF t
  <1>7. /\ flash' \in [Pages -> PageState]
        /\ flash'[p].items = t /\ flash'[p].active = flash[p].active
        /\ \A q \in Pages \ {p} : flash'[q] = flash[q]
    BY <1>3, <1>6, SetItems
  <1>8. Items(p)' = t
    BY <1>7 DEF Items
  <1>9. /\ Weight(s[i], Ids) = sz /\ Weight(s[i], Ids \cup {Null}) = sz /\ Weight(s[i], {Null}) = 0
        /\ Weight(t[i], Ids) = 0 /\ Weight(t[i], Ids \cup {Null}) = sz /\ Weight(t[i], {Null}) = sz
    <2>1. Null \notin Ids /\ s[i].id # Null
      BY <1>2, NvAssumption
    <2> QED BY <1>2, <1>4, <1>6, <2>1 DEF Weight
  <1>10. \A I : \A n \in 0 .. Len(s) :
           /\ n < i => WordsTo(t, I, n) = WordsTo(s, I, n)
           /\ n >= i => WordsTo(t, I, n) + Weight(s[i], I) = WordsTo(s, I, n) + Weight(t[i], I)
    BY <1>1, <1>5, <1>6, ReplaceWords
  <1>11. \A I : \A n \in 0 .. Len(s) : WordsTo(t, I, n) \in Nat /\ WordsTo(s, I, n) \in Nat
    BY <1>1, <1>6, WordsNat
  <1>12. \A I : Words(t, I) + Weight(s[i], I) = Words(s, I) + Weight(t[i], I)
    <2>1. Len(s) \in 0 .. Len(s) /\ Len(s) >= i
      BY <1>1, <1>5
    <2> QED BY <1>6, <1>10, <2>1 DEF Words
  <1>13. \A I : Words(t, I) \in Nat /\ Words(s, I) \in Nat
    BY <1>1, <1>6, <1>11 DEF Words
  <1>14. /\ Words(t, Ids \cup {Null}) = Words(s, Ids \cup {Null})
         /\ Words(t, Ids) + sz = Words(s, Ids)
         /\ Words(t, {Null}) = Words(s, {Null}) + sz
    <2> DEFINE A == Ids \cup {Null}
    <2>1. /\ Words(t, A) + sz = Words(s, A) + sz
          /\ Words(t, Ids) + sz = Words(s, Ids) + 0
          /\ Words(t, {Null}) + 0 = Words(s, {Null}) + sz
      BY <1>9, <1>12
    <2>2. sz \in Nat
      BY <1>2, NvAssumption
    <2> HIDE DEF A, sz
    <2>3. /\ Words(t, A) = Words(s, A) /\ Words(t, Ids) + sz = Words(s, Ids)
          /\ Words(t, {Null}) = Words(s, {Null}) + sz
      BY <2>1, <2>2, <1>13
    <2> QED BY <2>3 DEF A
  <1>15. ASSUME NEW n \in 0 .. Len(s)
         PROVE  WordsTo(t, {Null}, n) = WordsTo(s, {Null}, n) + IF n >= i THEN sz ELSE 0
    <2>1. WordsTo(t, {Null}, n) \in Nat /\ WordsTo(s, {Null}, n) \in Nat
      BY <1>11
    <2>2. CASE n < i
      <3>1. WordsTo(t, {Null}, n) = WordsTo(s, {Null}, n) /\ ~(n >= i)
        BY <1>5, <1>10, <2>2
      <3> QED BY <2>1, <3>1
    <2>3. CASE n >= i
      <3>1. WordsTo(t, {Null}, n) + 0 = WordsTo(s, {Null}, n) + sz
        BY <1>9, <1>10, <2>3
      <3> QED BY <2>1, <2>3, <3>1
    <2>4. n < i \/ n >= i
      BY <1>1, <1>5
    <2> QED BY <2>2, <2>3, <2>4
  <1>16. SizedItems(s) => SizedItems(t)
    BY <1>4, <1>6 DEF SizedItems
  <1>17. Item(p, i).size = sz
    BY DEF Item, Items, s
  <1>18. \A q \in Pages : flash'[q].active = flash[q].active
    BY <1>7
  <1>19. Words(t, Ids) \in Nat
    BY <1>13
  <1> QED BY <1>2, <1>6, <1>7, <1>8, <1>14, <1>15, <1>16, <1>17,
           <1>18, <1>19 DEF s, U, L, N

-----------------------------------------------------------------------------
(* Facts about the state that every step uses.                             *)

LEMMA Rooms ==
  ASSUME Shape, NEW p \in Pages
  PROVE  /\ Items(p) \in Seq(ItemState) /\ Len(Items(p)) \in Nat
         /\ U(p) \in Nat /\ L(p) \in Nat /\ N(p) \in Nat /\ U(p) = L(p) + N(p)
         /\ U(p) <= PageCap /\ SizedItems(Items(p))
         /\ pgOff[p] \in Nat /\ pgOff[p] <= PageCap /\ pgLost[p] \in Nat /\ pgLost[p] <= PageCap
         /\ PageCap \in Nat
  <1>1. Items(p) \in Seq(ItemState) /\ Len(Items(p)) \in Nat
    BY PageFields DEF Shape
  <1>2. Len(Items(p)) \in 0 .. Len(Items(p))
    BY <1>1
  <1>3. \A I : Words(Items(p), I) \in Nat
    BY <1>1, <1>2, WordsNat DEF Words
  <1>4. U(p) = L(p) + N(p)
    BY <1>1, <1>2, WordsSplit DEF U, L, N, Words
  <1>5. U(p) \in Nat /\ L(p) \in Nat /\ N(p) \in Nat
    BY <1>3 DEF U, L, N
  <1> QED BY <1>1, <1>4, <1>5, NvAssumption DEF Shape

LEMMA PrefixNat ==
  ASSUME Shape, NEW p \in Pages, NEW I, NEW n \in 0 .. Len(Items(p))
  PROVE  WordsTo(Items(p), I, n) \in Nat
  BY Rooms, WordsNat

LEMMA Written ==
  ASSUME Shape, NEW ok \in WriteTakes, NEW after, FlashWrite(ok, after)
  PROVE  /\ ok \in BOOLEAN /\ (ok => flash' = after) /\ (~ok => flash' = flash)
         /\ faults' \in 0 .. MaxFaults
  <1>1. ok \in BOOLEAN /\ (~ok => faults < MaxFaults)
    BY DEF WriteTakes
  <1>2. (ok => flash' = after) /\ (~ok => flash' = flash)
    BY <1>1 DEF FlashWrite
  <1>3. faults' \in 0 .. MaxFaults
    BY <1>1, NvAssumption DEF Shape, FlashWrite
  <1> QED BY <1>1, <1>2, <1>3

LEMMA HotDomain ==
  ASSUME Shape, NEW id, NEW l, hot' = hotItemUpdate(id, l) \/ hot' = hot
  PROVE  DOMAIN hot' = HotIds
  BY DEF Shape, hotItemUpdate

LEMMA JobFields ==
  ASSUME NEW j \in JobState
  PROVE  /\ j.op \in {"none", "create", "write", "boot"} /\ j.id \in Ids \cup {Null}
         /\ j.val \in Values \cup {Null} /\ j.src \in (Pages \X (Nat \ {0})) \cup {Null}
         /\ j.pg \in Pages \cup {Null} /\ j.ix \in Nat \ {0} /\ j.com \in Pages \cup {Null}
         /\ j.dst \in Pages \cup {Null} /\ j.ok \in BOOLEAN /\ j.er \in Pages \cup {Null}
         /\ j.ret \in Returns /\ j.ip \in Nat \ {0}
         /\ j.ii \in Nat \ {0} /\ j.lost \in Nat /\ j.dups \in {"no", "yes", "final"}
  BY DEF JobState

LEMMA NoJobIs ==
  /\ NoJob \in JobState /\ NoJob.op = "none" /\ NoJob.id = Null /\ NoJob.pg = Null
  /\ NoJob.ix = 1 /\ NoJob.com = Null /\ NoJob.ret = "idle" /\ NoJob.ip = 1 /\ NoJob.ii = 1
  /\ NoJob.lost = 0 /\ NoJob.dups = "no" /\ NoJob.src = Null
  BY DEF NoJob, JobState, Returns

LEMMA SetOp ==
  ASSUME NEW j \in JobState
  PROVE  LET k == [j EXCEPT !.op = "boot"]
         IN  /\ k \in JobState /\ k.op = "boot" /\ k.id = j.id /\ k.pg = j.pg /\ k.ix = j.ix
             /\ k.com = j.com /\ k.ip = j.ip /\ k.ii = j.ii /\ k.lost = j.lost
             /\ k.dups = j.dups /\ k.src = j.src
  BY SMTT(60) DEF JobState, Returns

LEMMA BootJob ==
  LET j == [NoJob EXCEPT !.op = "boot"]
  IN  /\ j \in JobState /\ j.op = "boot" /\ j.id = Null /\ j.pg = Null /\ j.ix = 1
      /\ j.com = Null /\ j.ip = 1 /\ j.ii = 1 /\ j.lost = 0 /\ j.dups = "no"
      /\ j.src = Null
  BY NoJobIs, SetOp

\* The fields that outlive each change of the locals.
ErasingAt(j, p, r) == [j EXCEPT !.er = p, !.ret = r]

LEMMA SetErase ==
  ASSUME NEW j \in JobState, NEW p \in Pages, NEW r \in Returns
  PROVE  LET k == ErasingAt(j, p, r)
         IN  /\ k \in JobState /\ k.er = p /\ k.ret = r
             /\ k.op = j.op /\ k.id = j.id /\ k.val = j.val /\ k.src = j.src /\ k.pg = j.pg
             /\ k.ix = j.ix /\ k.com = j.com /\ k.ip = j.ip /\ k.ii = j.ii /\ k.lost = j.lost
             /\ k.dups = j.dups
  BY ZenonT(60) DEF JobState, Returns, ErasingAt

Erased(j) == [j EXCEPT !.er = Null, !.ret = "idle"]

LEMMA EndErase ==
  ASSUME NEW j \in JobState
  PROVE  LET k == Erased(j)
         IN  /\ k \in JobState /\ k.ret = "idle"
             /\ k.op = j.op /\ k.id = j.id /\ k.val = j.val /\ k.src = j.src /\ k.pg = j.pg
             /\ k.ix = j.ix /\ k.com = j.com /\ k.ip = j.ip /\ k.ii = j.ii /\ k.lost = j.lost
             /\ k.dups = j.dups
  BY ZenonT(60) DEF JobState, Returns, Erased

LEMMA SetIx ==
  ASSUME NEW j \in JobState, NEW i \in Nat \ {0}
  PROVE  LET k == [j EXCEPT !.ix = i]
         IN  /\ k \in JobState /\ k.ix = i /\ k.ret = j.ret
             /\ k.op = j.op /\ k.id = j.id /\ k.val = j.val /\ k.src = j.src /\ k.pg = j.pg
             /\ k.com = j.com /\ k.ip = j.ip /\ k.ii = j.ii /\ k.lost = j.lost /\ k.dups = j.dups
  BY SMTT(60) DEF JobState

LEMMA SetCom ==
  ASSUME NEW j \in JobState, NEW p \in Pages
  PROVE  LET k == [j EXCEPT !.com = p]
         IN  /\ k \in JobState /\ k.com = p /\ k.ret = j.ret
             /\ k.op = j.op /\ k.id = j.id /\ k.val = j.val /\ k.src = j.src /\ k.pg = j.pg
             /\ k.ix = j.ix /\ k.ip = j.ip /\ k.ii = j.ii /\ k.lost = j.lost /\ k.dups = j.dups
  BY SMTT(60) DEF JobState

LEMMA SetOk ==
  ASSUME NEW j \in JobState, NEW b \in BOOLEAN
  PROVE  LET k == [j EXCEPT !.ok = b]
         IN  /\ k \in JobState /\ k.ok = b /\ k.ret = j.ret
             /\ k.op = j.op /\ k.id = j.id /\ k.val = j.val /\ k.src = j.src /\ k.pg = j.pg
             /\ k.com = j.com /\ k.dst = j.dst
  BY SMTT(60) DEF JobState

LEMMA SetDst ==
  ASSUME NEW j \in JobState, NEW p \in Pages
  PROVE  LET k == [j EXCEPT !.dst = p]
         IN  /\ k \in JobState /\ k.dst = p /\ k.ret = j.ret
             /\ k.op = j.op /\ k.id = j.id /\ k.val = j.val /\ k.src = j.src /\ k.pg = j.pg
             /\ k.com = j.com
  BY SMTT(60) DEF JobState

LEMMA SetIp ==
  ASSUME NEW j \in JobState, NEW i \in Nat \ {0}
  PROVE  LET k == [j EXCEPT !.ip = i]
         IN  /\ k \in JobState /\ k.ip = i /\ k.ret = j.ret
             /\ k.op = j.op /\ k.id = j.id /\ k.pg = j.pg /\ k.ix = j.ix /\ k.com = j.com
             /\ k.ii = j.ii /\ k.lost = j.lost /\ k.dups = j.dups /\ k.src = j.src
  BY SMTT(60) DEF JobState

LEMMA SetIi ==
  ASSUME NEW j \in JobState, NEW n \in Nat \ {0}
  PROVE  LET k == [j EXCEPT !.ii = n]
         IN  /\ k \in JobState /\ k.ip = j.ip /\ k.ii = n /\ k.lost = j.lost /\ k.dups = j.dups
             /\ k.op = j.op /\ k.src = j.src
  BY SMTT(60) DEF JobState

LEMMA SetLost ==
  ASSUME NEW j \in JobState, NEW w \in Nat
  PROVE  LET k == [j EXCEPT !.lost = w]
         IN  /\ k \in JobState /\ k.ip = j.ip /\ k.ii = j.ii /\ k.lost = w /\ k.dups = j.dups
             /\ k.op = j.op /\ k.src = j.src
  BY SMTT(60) DEF JobState

ScanAt(j, i, n, w) == [j EXCEPT !.ip = i, !.ii = n, !.lost = w]

LEMMA SetScan ==
  ASSUME NEW j \in JobState, NEW i \in Nat \ {0}, NEW n \in Nat \ {0}, NEW w \in Nat
  PROVE  LET k == ScanAt(j, i, n, w)
         IN  /\ k \in JobState /\ k.ip = i /\ k.ii = n /\ k.lost = w /\ k.dups = j.dups
             /\ k.op = j.op /\ k.src = j.src
  BY ZenonT(60) DEF JobState, ScanAt

PassAt(j, i, n, w, d) == [j EXCEPT !.ip = i, !.ii = n, !.lost = w, !.dups = d]

LEMMA SetPass ==
  ASSUME NEW j \in JobState, NEW i \in Nat \ {0}, NEW n \in Nat \ {0}, NEW w \in Nat,
         NEW d \in {"no", "yes", "final"}
  PROVE  LET k == PassAt(j, i, n, w, d)
         IN  /\ k \in JobState /\ k.ip = i /\ k.ii = n /\ k.lost = w /\ k.dups = d
             /\ k.op = j.op /\ k.src = j.src
  BY ZenonT(60) DEF JobState, PassAt

LEMMA SetPage ==
  ASSUME NEW j \in JobState, NEW p \in Pages
  PROVE  LET k == [j EXCEPT !.pg = p]
         IN  /\ k \in JobState /\ k.pg = p /\ k.ret = j.ret
             /\ k.op = j.op /\ k.id = j.id /\ k.val = j.val /\ k.src = j.src
             /\ k.ix = j.ix /\ k.com = j.com /\ k.ip = j.ip /\ k.ii = j.ii /\ k.lost = j.lost
             /\ k.dups = j.dups
  BY SMTT(60) DEF JobState, Returns

-----------------------------------------------------------------------------
(* Steps that add no item and zero none.                                   *)

SameCall == /\ job'.op = job.op /\ job'.id = job.id /\ job'.val = job.val /\ job'.src = job.src
            /\ job'.pg = job.pg
SameBoot == job'.ip = job.ip /\ job'.ii = job.ii /\ job'.lost = job.lost /\ job'.dups = job.dups
SameRam  == pgOff' = pgOff /\ pgLost' = pgLost /\ pgRes' = pgRes

LEMMA KeepsShape ==
  ASSUME Shape, NEW p, Keeps(flash', p), SameRam, DOMAIN hot' = HotIds, job' \in JobState,
         faults' \in 0 .. MaxFaults
  PROVE  Shape'
  <1>1. flash \in [Pages -> PageState] /\ flash' \in [Pages -> PageState]
    BY DEF Shape, Keeps
  <1>2. ASSUME NEW q \in Pages PROVE SizedItems(Items(q)') /\ U(q)' <= PageCap
    BY <1>1, KeepsWords DEF Shape
  <1> QED BY <1>1, <1>2 DEF Shape, SameRam

LEMMA StaysKept ==
  ASSUME Shape, flash' = flash, NEW p
  PROVE  Keeps(flash', p)
  BY AlikeSelf DEF Keeps, Shape

LEMMA KeepsRoom ==
  ASSUME Shape, NEW p, Keeps(flash', p), SameRam
  PROVE  /\ \A q \in Pages : RoomOn(q) => RoomOn(q)'
         /\ InUse => InUse'
         /\ OthersActive(pgRes) => OthersActive(pgRes)'
         /\ pgRes \in Pages /\ p # pgRes /\ Empty(pgRes) => Empty(pgRes)'
         /\ pgRes \in Pages /\ RoomOn(pgRes) => RoomOn(pgRes)'
         /\ Ready /\ p # pgRes => Ready'
  <1>1. flash \in [Pages -> PageState] /\ flash' \in [Pages -> PageState]
    BY DEF Shape, Keeps
  <1>2. \A q \in Pages : /\ flash'[q].active = flash[q].active
                         /\ U(q)' = U(q) /\ L(q)' = L(q)
    BY <1>1, KeepsWords
  <1>3. \A q \in Pages : RoomOn(q) => RoomOn(q)'
    BY <1>2 DEF RoomOn, SameRam
  <1>4. OthersActive(pgRes) => OthersActive(pgRes)'
    BY <1>2 DEF OthersActive, SameRam
  <1>5. InUse => InUse'
    BY <1>3, <1>4 DEF InUse, SameRam
  <1>6. pgRes \in Pages /\ p # pgRes /\ Empty(pgRes) => Empty(pgRes)'
    BY DEF Empty, Keeps, SameRam
  <1>7. pgRes \in Pages /\ RoomOn(pgRes) => RoomOn(pgRes)'
    BY <1>2 DEF RoomOn, SameRam, U, L, Items
  <1>8. Ready /\ p # pgRes => Ready'
    BY <1>5, <1>6 DEF Ready, InUse
  <1> QED BY <1>3, <1>4, <1>5, <1>6, <1>7, <1>8

LEMMA KeepsSource ==
  ASSUME Shape, NEW p, Keeps(flash', p), job'.src = job.src, job'.id = job.id, NEW r
  PROVE  Source(r) => Source(r)'
  <1> SUFFICES ASSUME Source(r) PROVE Source(r)'
    OBVIOUS
  <1>1. job.src \in (Pages \X (Nat \ {0})) \cup {Null}
    BY JobFields DEF Shape
  <1>2. /\ job.src # Null /\ job.src[1] # r
        /\ job.src[2] \in 1 .. Len(Items(job.src[1]))
        /\ Item(job.src[1], job.src[2]).id = job.id
    BY DEF Source
  <1>3. job.src[1] \in Pages
    BY <1>1, <1>2
  <1> DEFINE q == job.src[1]
             i == job.src[2]
  <1>4. Alike(flash[q].items, flash'[q].items)
    BY <1>3 DEF Keeps
  <1>5. i \in 1 .. Len(flash[q].items) /\ flash[q].items[i].id = job.id
    BY <1>2 DEF Items, Item
  <1>6. i \in 1 .. Len(flash'[q].items) /\ flash'[q].items[i].id = job.id
    BY <1>4, <1>5 DEF Alike
  <1> QED BY <1>2, <1>6 DEF Source, Items, Item

LEMMA KeepsCall ==
  ASSUME Shape, NEW p, Keeps(flash', p), SameRam, SameCall, job'.ret = "idle"
  PROVE  Call_ => Call_'
  <1> SUFFICES ASSUME Call_ PROVE Call_'
    OBVIOUS
  <1>1. job'.src = job.src /\ job'.id = job.id
    BY DEF SameCall
  <1>2. Source(pgRes) => Source(pgRes)'
    <2>1. \A r : Source(r) => /\ job'.src # Null /\ job'.src[1] # r
                              /\ job'.src[2] \in 1 .. Len(Items(job.src[1])')
                              /\ flash'[job.src[1]].items[job.src[2]].id = job.id
      BY <1>1, KeepsSource DEF Source, Item, Items
    <2>2. Source(pgRes) => /\ job'.src # Null /\ job'.src[1] # pgRes
                           /\ job'.src[2] \in 1 .. Len(Items(job.src[1])')
                           /\ flash'[job.src[1]].items[job.src[2]].id = job.id
      BY <2>1
    <2> QED BY <1>1, <2>2 DEF Source, SameRam, Item, Items
  <1> QED BY <1>2 DEF Call_, SameCall, SameRam

LEMMA SameBootStays ==
  ASSUME pgLost' = pgLost, SameCall, SameBoot
  PROVE  Boot_ => Boot_'
  BY DEF Boot_, SameCall, SameBoot

LEMMA KeepsCopied ==
  ASSUME Shape, NEW p, Keeps(flash', p), SameCall, job.pg \in Pages
  PROVE  /\ \A n \in 0 .. Len(Items(job.pg)) : Copied(n)' = Copied(n)
         /\ Len(Items(job.pg)') = Len(Items(job.pg))
         /\ \A i \in 1 .. Len(Items(job.pg)) :
              flash'[job'.pg].items[i].id = flash[job.pg].items[i].id
  <1>1. flash \in [Pages -> PageState] /\ flash' \in [Pages -> PageState]
    BY DEF Shape, Keeps
  <1> DEFINE q == job.pg
  <1>2. Alike(flash[q].items, flash'[q].items)
    BY DEF Keeps
  <1>3. flash[q].items \in Seq(ItemState) /\ flash'[q].items \in Seq(ItemState)
    BY <1>1 DEF PageState
  <1>4. \A I : \A n \in 0 .. Len(flash[q].items) :
          WordsTo(flash'[q].items, I, n) = WordsTo(flash[q].items, I, n)
    BY <1>2, <1>3, AlikeWords
  <1>5. \A n \in 0 .. Len(Items(job.pg)) : Copied(n)' = Copied(n)
    BY <1>4 DEF Copied, Items, SameCall
  <1>6. Len(Items(job.pg)') = Len(Items(job.pg))
    BY <1>2 DEF Items, Alike, SameCall
  <1> QED BY <1>2, <1>5, <1>6 DEF SameCall, Alike, Items

LEMMA KeepsCopying ==
  ASSUME Shape, NEW p, Keeps(flash', p), SameRam, SameCall, SameBoot, job'.com = job.com,
         job'.ret = job.ret, Copying, job'.ix <= Len(Items(job.pg)) + 1
  PROVE  Copying'
  <1>1. /\ job.pg \in Pages /\ pgRes \in Pages /\ job.pg # pgRes
        /\ OthersActive(pgRes) /\ RoomOn(pgRes)
        /\ job.com = Null /\ job.ret = "idle"
        /\ CallToCopy \/ Boot_
    BY DEF Copying
  <1>2. Len(Items(job.pg)') = Len(Items(job.pg))
    BY <1>1, KeepsCopied
  <1>3. /\ OthersActive(pgRes)' /\ RoomOn(pgRes)' /\ (InUse => InUse')
    BY <1>1, KeepsRoom
  <1>4. CallToCopy => CallToCopy'
    BY <1>1, <1>3, KeepsCall DEF CallToCopy, FitsOnce, SameRam, SameCall
  <1>5. Boot_ => Boot_'
    BY SameBootStays DEF SameRam
  <1> QED BY <1>1, <1>2, <1>3, <1>4, <1>5 DEF Copying, SameRam, SameCall

-----------------------------------------------------------------------------
(* The steps of a compaction.                                              *)

LEMMA MarkPageInv ==
  ASSUME Inv, MarkPage
  PROVE  Inv'
  <1>1. Shape /\ MarkOK
    BY DEF Inv, Control, MarkPage
  <1>2. /\ flash' = [flash EXCEPT ![job.pg].xfer = TRUE] /\ pc' = "compact" /\ job' = job
        /\ pgOff' = pgOff /\ pgLost' = pgLost /\ pgRes' = pgRes /\ hot' = hot /\ faults' = faults
    BY DEF MarkPage, Goto, ram
  <1>3. /\ CallToCopy /\ Ready /\ job.com = Null /\ job.ix = 1 /\ Call_ /\ InUse /\ Empty(pgRes)
        /\ job.pg \in Pages /\ job.pg # pgRes /\ job.ret = "idle"
        /\ pgRes \in Pages /\ OthersActive(pgRes) /\ RoomOn(pgRes)
    BY <1>1 DEF MarkOK, CallToCopy, Ready, InUse, Call_
  <1>4. Keeps(flash', job.pg)
    BY <1>1, <1>2, <1>3, HeaderWords DEF Shape
  <1>5. SameRam /\ SameCall /\ SameBoot
    BY <1>2 DEF SameRam, SameCall, SameBoot
  <1>6. Shape'
    BY <1>1, <1>2, <1>4, <1>5, KeepsShape DEF Shape
  <1>7. Copying'
    <2>1. Len(Items(job.pg)) \in Nat
      BY <1>1, <1>3, Rooms
    <2>2. job.ix <= Len(Items(job.pg)) + 1
      BY <1>3, <2>1
    <2>3. Copying
      BY <1>3, <2>2 DEF Copying
    <2> QED BY <1>1, <1>2, <1>4, <1>5, <2>2, <2>3, KeepsCopying
  <1>8. pgOff'[pgRes'] <= Copied(job.ix - 1)'
    <2>1. Copied(0)' = 0
      BY WordsStep DEF Copied
    <2>2. pgOff'[pgRes'] = 0 /\ job'.ix - 1 = 0
      BY <1>2, <1>3 DEF Empty
    <2>3. Copied(job.ix - 1)' = 0
      BY <2>2, WordsStep DEF Copied
    <2> QED BY <2>2, <2>3
  <1>9. CompactOK'
    BY <1>7, <1>8 DEF CompactOK
  <1> QED BY <1>2, <1>6, <1>9 DEF Inv, Control, Steps

\* The least of the items that are still to be copied.
LEMMA NextToCopy ==
  ASSUME Shape, job.pg \in Pages, ToCopy # {}, NEW i,
         i = CHOOSE k \in ToCopy : \A m \in ToCopy : k <= m
  PROVE  /\ i \in 1 .. Len(Items(job.pg)) /\ i >= job.ix
         /\ Item(job.pg, i).id \in Ids \ {job.id}
         /\ \A m \in ToCopy : i <= m
  <1>1. Items(job.pg) \in Seq(ItemState)
    BY Rooms
  <1>2. DOMAIN flash[job.pg].items = 1 .. Len(Items(job.pg)) /\ Len(Items(job.pg)) \in Nat
    BY <1>1 DEF Items
  <1>3. ToCopy \subseteq Nat
    BY <1>2 DEF ToCopy
  <1>4. \E k \in ToCopy : \A m \in ToCopy : k <= m
    BY <1>3, LeastOf
  <1>5. i \in ToCopy /\ \A m \in ToCopy : i <= m
    BY <1>4
  <1>6. i \in 1 .. Len(Items(job.pg)) /\ i >= job.ix /\ Item(job.pg, i).id \notin {Null, job.id}
    BY <1>2, <1>5 DEF ToCopy
  <1>7. Item(job.pg, i).id \in Ids \cup {Null}
    BY <1>1, <1>6, ItemFields DEF Items, Item
  <1> QED BY <1>5, <1>6, <1>7

LEMMA CompactItemInv ==
  ASSUME Inv, CompactItem
  PROVE  Inv'
  <1>1. Shape /\ CompactOK
    BY DEF Inv, Control, CompactItem
  <1>0. PICK i : i = CHOOSE k \in ToCopy : \A m \in ToCopy : k <= m
    OBVIOUS
  <1>2. /\ ToCopy # {} /\ flash' = XferItem(job.pg, i) /\ pc' = "copyHdr"
        /\ job' = [job EXCEPT !.ix = i]
        /\ pgOff' = pgOff /\ pgLost' = pgLost /\ pgRes' = pgRes /\ hot' = hot /\ faults' = faults
    BY <1>0 DEF CompactItem, Goto, ram
  <1>3. Copying /\ pgOff[pgRes] <= Copied(job.ix - 1)
    BY <1>1 DEF CompactOK
  <1>4. job.pg \in Pages /\ pgRes \in Pages /\ job.ix <= Len(Items(job.pg)) + 1
    BY <1>3 DEF Copying
  <1>5. /\ i \in 1 .. Len(Items(job.pg)) /\ i >= job.ix
        /\ Item(job.pg, i).id \in Ids \ {job.id}
    BY <1>0, <1>1, <1>2, <1>4, NextToCopy
  <1>6. job.ix \in Nat \ {0} /\ job \in JobState
    BY <1>1, JobFields DEF Shape
  <1>7. i \in Nat \ {0} /\ Len(Items(job.pg)) \in Nat
    BY <1>1, <1>4, <1>5, Rooms
  <1>8. /\ job' \in JobState /\ job'.ix = i /\ job'.ret = job.ret /\ job'.com = job.com
        /\ SameCall /\ SameBoot
    BY <1>2, <1>6, <1>7, SetIx DEF SameCall, SameBoot
  <1>9. Keeps(flash', job.pg)
    BY <1>1, <1>2, <1>4, XferKeeps DEF Shape
  <1>10. SameRam
    BY <1>2 DEF SameRam
  <1>11. Shape'
    BY <1>1, <1>2, <1>8, <1>9, <1>10, KeepsShape DEF Shape
  <1>12. Copying'
    <2>1. job'.ix <= Len(Items(job.pg)) + 1
      BY <1>5, <1>7, <1>8
    <2> QED BY <1>1, <1>3, <1>8, <1>9, <1>10, <2>1, KeepsCopying
  <1>13. /\ \A n \in 0 .. Len(Items(job.pg)) : Copied(n)' = Copied(n)
         /\ Len(Items(job.pg)') = Len(Items(job.pg))
         /\ \A k \in 1 .. Len(Items(job.pg)) :
              flash'[job'.pg].items[k].id = flash[job.pg].items[k].id
    BY <1>1, <1>4, <1>8, <1>9, KeepsCopied
  <1>14. AtItem'
    <2>1. flash'[job'.pg].items[job'.ix].id \in Ids \ {job'.id}
      BY <1>5, <1>8, <1>13 DEF Item, SameCall
    <2>2. job'.ix <= Len(Items(job.pg)')
      BY <1>5, <1>7, <1>8, <1>13
    <2> QED BY <2>1, <2>2 DEF AtItem, Item
  <1>15. pgOff'[pgRes'] <= Copied(job.ix - 1)'
    <2>1. job.ix - 1 \in Nat /\ i - 1 \in 0 .. Len(Items(job.pg)) /\ job.ix - 1 <= i - 1
      BY <1>5, <1>6, <1>7
    <2>2. Copied(job.ix - 1) <= Copied(i - 1)
      BY <1>1, <1>4, <2>1, Rooms, WordsGrow DEF Copied
    <2>3. Copied(i - 1)' = Copied(i - 1)
      BY <1>13, <2>1
    <2>4. Copied(job.ix - 1)' = Copied(i - 1)
      BY <1>8, <2>3 DEF Copied
    <2>5. pgOff[pgRes] \in Nat /\ Copied(job.ix - 1) \in Nat /\ Copied(i - 1) \in Nat
      <3>1. job.ix - 1 \in 0 .. Len(Items(job.pg))
        BY <2>1, <1>7
      <3> QED BY <1>1, <1>4, <2>1, <3>1, Rooms, PrefixNat DEF Copied
    <2> QED BY <1>2, <1>3, <2>2, <2>4, <2>5
  <1>16. CopyHdrOK'
    BY <1>12, <1>14, <1>15 DEF CopyHdrOK
  <1> QED BY <1>2, <1>11, <1>16 DEF Inv, Control, Steps

\* A header written on a page with room for its item.
LEMMA HeaderWritten ==
  ASSUME Shape, NEW p \in Pages, NEW id \in Ids, NEW ok \in WriteTakes, WriteHeader(p, id, ok),
         ItemSize[id] <= PageCap - pgOff[p], RoomOn(p)
  PROVE  /\ flash' \in [Pages -> PageState] /\ (~ok => flash' = flash)
         /\ \A q \in Pages : flash'[q].active = flash[q].active
         /\ \A q \in Pages \ {p} : /\ flash'[q] = flash[q] /\ pgOff'[q] = pgOff[q]
                                   /\ pgLost'[q] = pgLost[q]
         /\ pgOff' \in [Pages -> 0 .. PageCap] /\ pgLost' \in [Pages -> 0 .. PageCap]
         /\ faults' \in 0 .. MaxFaults
         /\ \A q \in Pages : SizedItems(Items(q)') /\ U(q)' <= PageCap
         /\ \A q \in Pages : RoomOn(q) => RoomOn(q)'
         /\ ok => pgOff'[p] = pgOff[p] + ItemSize[id] /\ pgLost'[p] = pgLost[p]
         /\ \A q \in Pages : Len(Items(q)') >= Len(Items(q))
         /\ \A q \in Pages : \A i \in 1 .. Len(Items(q)) : Items(q)'[i] = Items(q)[i]
  <1>1. /\ FlashWrite(ok, NewHeader(p, id))
        /\ pgOff'  = [pgOff EXCEPT ![p] = IF ok THEN @ + ItemSize[id] ELSE PageCap]
        /\ pgLost' = [pgLost EXCEPT ![p] = IF ok THEN @ ELSE @ + PageCap - pgOff[p]]
    BY DEF WriteHeader
  <1>2. /\ ok \in BOOLEAN /\ (ok => flash' = NewHeader(p, id)) /\ (~ok => flash' = flash)
        /\ faults' \in 0 .. MaxFaults
    BY <1>1, Written
  <1>3. /\ flash \in [Pages -> PageState]
        /\ pgOff \in [Pages -> 0 .. PageCap] /\ pgLost \in [Pages -> 0 .. PageCap]
    BY DEF Shape
  <1>4. /\ U(p) \in Nat /\ L(p) \in Nat /\ U(p) <= PageCap /\ SizedItems(Items(p))
        /\ pgOff[p] \in Nat /\ pgOff[p] <= PageCap /\ pgLost[p] \in Nat /\ pgLost[p] <= PageCap
        /\ PageCap \in Nat /\ Len(Items(p)) \in Nat
    BY Rooms
  <1>5. ItemSize[id] \in Nat
    BY <1>4, NvAssumption
  <1>6. U(p) <= pgOff[p] /\ pgLost[p] <= pgOff[p] - L(p)
    BY DEF RoomOn
  <1>7. /\ \A q \in Pages \ {p} : pgOff'[q] = pgOff[q] /\ pgLost'[q] = pgLost[q]
        /\ pgOff'[p] = IF ok THEN pgOff[p] + ItemSize[id] ELSE PageCap
        /\ pgLost'[p] = IF ok THEN pgLost[p] ELSE pgLost[p] + PageCap - pgOff[p]
    BY <1>1, <1>3
  <1>9. pgOff' \in [Pages -> 0 .. PageCap] /\ pgLost' \in [Pages -> 0 .. PageCap]
    <2> DEFINE x == IF ok THEN pgOff[p] + ItemSize[id] ELSE PageCap
               y == IF ok THEN pgLost[p] ELSE pgLost[p] + PageCap - pgOff[p]
    <2>1. x \in 0 .. PageCap /\ y \in 0 .. PageCap
      BY SMTT(30), <1>4, <1>5, <1>6
    <2>2. pgOff' = [pgOff EXCEPT ![p] = x] /\ pgLost' = [pgLost EXCEPT ![p] = y]
      BY <1>1
    <2> HIDE DEF x, y
    <2> QED BY <1>3, <2>1, <2>2
  <1>10. /\ flash' \in [Pages -> PageState]
         /\ \A q \in Pages : flash'[q].active = flash[q].active
         /\ \A q \in Pages \ {p} : flash'[q] = flash[q]
         /\ U(p)' = U(p) + (IF ok THEN ItemSize[id] ELSE 0)
         /\ L(p)' = L(p) + (IF ok THEN ItemSize[id] ELSE 0)
         /\ SizedItems(Items(p)') /\ Len(Items(p)') >= Len(Items(p))
         /\ \A i \in 1 .. Len(Items(p)) : Items(p)'[i] = Items(p)[i]
    <2>1. CASE ok
      <3>1. Len(Items(p)') = Len(Items(p)) + 1 => Len(Items(p)') >= Len(Items(p))
        BY <1>4
      <3> QED BY <1>2, <1>3, <1>4, <2>1, <3>1, HeaderAppended
    <2>2. CASE ~ok
      <3>1. flash' = flash
        BY <1>2, <2>2
      <3>2. Items(p)' = Items(p) /\ U(p)' = U(p) /\ L(p)' = L(p)
        BY <3>1, SamePage
      <3>3. U(p) = U(p) + 0 /\ L(p) = L(p) + 0 /\ Len(Items(p)) >= Len(Items(p))
        BY <1>4
      <3>4. Len(Items(p)') >= Len(Items(p))
        BY <3>2, <3>3
      <3> QED BY <1>3, <1>4, <2>2, <3>1, <3>2, <3>3, <3>4
    <2> QED BY <1>2, <2>1, <2>2
  <1>11. \A q \in Pages \ {p} : Items(q)' = Items(q) /\ U(q)' = U(q) /\ L(q)' = L(q)
    BY <1>10, SamePage
  <1>12. RoomOn(p)' /\ U(p)' <= PageCap
    <2>1. CASE ok
      <3>1. pgOff'[p] = pgOff[p] + ItemSize[id] /\ pgLost'[p] = pgLost[p]
        BY <1>7, <2>1
      <3>2. U(p)' = U(p) + ItemSize[id] /\ L(p)' = L(p) + ItemSize[id]
        BY <1>10, <2>1
      <3>3. /\ U(p) + ItemSize[id] <= pgOff[p] + ItemSize[id]
            /\ pgLost[p] <= (pgOff[p] + ItemSize[id]) - (L(p) + ItemSize[id])
            /\ U(p) + ItemSize[id] <= PageCap
        BY <1>4, <1>5, <1>6
      <3> QED BY <3>1, <3>2, <3>3 DEF RoomOn
    <2>2. CASE ~ok
      <3>1. pgOff'[p] = PageCap /\ pgLost'[p] = pgLost[p] + PageCap - pgOff[p]
        BY <1>7, <2>2
      <3>2. U(p)' = U(p) /\ L(p)' = L(p)
        BY <1>4, <1>10, <2>2
      <3>3. pgLost[p] + PageCap - pgOff[p] <= PageCap - L(p)
        BY <1>4, <1>6
      <3> QED BY <1>4, <3>1, <3>2, <3>3 DEF RoomOn
    <2> QED BY <1>2, <2>1, <2>2
  <1>13. \A q \in Pages \ {p} : RoomOn(q) => RoomOn(q)'
    BY <1>7, <1>11 DEF RoomOn
  <1>14. \A q \in Pages \ {p} : SizedItems(Items(q)') /\ U(q)' <= PageCap
    BY <1>11, Rooms
  <1>15. \A q \in Pages \ {p} : Len(Items(q)') >= Len(Items(q))
    <2>1. \A q \in Pages : Len(Items(q)) >= Len(Items(q))
      BY Rooms
    <2> QED BY <1>11, <2>1
  <1> QED BY <1>2, <1>7, <1>9, <1>10, <1>11, <1>12, <1>13, <1>14, <1>15

\* A copy that did not take: the reserve page is erased again.
LEMMA CompactFails ==
  ASSUME Shape, Copying, CompactFail, pgRes' = pgRes,
         \A q \in Pages \ {pgRes} : /\ flash'[q] = flash[q] /\ pgOff'[q] = pgOff[q]
                                    /\ pgLost'[q] = pgLost[q]
  PROVE  pc' = "erase" /\ EraseOK' /\ job' \in JobState
  <1> DEFINE back == IF job.op = "boot" THEN "initPages" ELSE "idle"
  <1>1. job' = ErasingAt(job, pgRes, back) /\ pc' = "erase"
    BY DEF CompactFail, ThenErase, Goto, ErasingAt
  <1>2. /\ pgRes \in Pages /\ OthersActive(pgRes) /\ (CallToCopy \/ Boot_) /\ job \in JobState
    BY DEF Copying, Shape
  <1>3. back \in Returns
    BY DEF Returns
  <1>4. /\ job' \in JobState /\ job'.er = pgRes /\ job'.ret = back
        /\ job'.ip = job.ip /\ job'.ii = job.ii /\ job'.lost = job.lost /\ job'.dups = job.dups
    <2> HIDE DEF back
    <2> QED BY <1>1, <1>2, <1>3, SetErase
  <1>5. OthersActive(job.er)'
    BY <1>2, <1>4 DEF OthersActive
  <1>6. job'.ret \in {"idle", "zero"} => \A q \in Pages \ {pgRes} : RoomOn(q)'
    <2> SUFFICES ASSUME job'.ret \in {"idle", "zero"}, NEW q \in Pages \ {pgRes} PROVE RoomOn(q)'
      OBVIOUS
    <2>1. job.op # "boot"
      BY <1>4
    <2>2. RoomOn(q)
      BY <1>2, <2>1 DEF CallToCopy, InUse, Boot_
    <2>3. U(q)' = U(q) /\ L(q)' = L(q)
      BY SamePage
    <2> QED BY <2>2, <2>3 DEF RoomOn
  <1>7. job'.ret = "initPages" => /\ \A q \in Pages \ {pgRes} : pgLost'[q] = 0
                                  /\ job'.ip = 1 /\ job'.ii = 1 /\ job'.lost = 0
                                  /\ job'.dups = "no"
    <2> SUFFICES ASSUME job'.ret = "initPages"
                 PROVE  /\ \A q \in Pages \ {pgRes} : pgLost'[q] = 0
                        /\ job'.ip = 1 /\ job'.ii = 1 /\ job'.lost = 0 /\ job'.dups = "no"
      OBVIOUS
    <2>1. job.op = "boot"
      BY <1>4
    <2>2. Boot_
      BY <1>2, <2>1 DEF CallToCopy, Call_
    <2> QED BY <1>4, <2>2 DEF Boot_
  <1>8. job'.ret # "zero" /\ job'.ret # "compact"
    BY <1>4
  <1>9. EraseOK'
    BY <1>2, <1>4, <1>5, <1>6, <1>7, <1>8 DEF EraseOK
  <1> QED BY <1>1, <1>4, <1>9

\* A write to the reserve page, or to a page no item of which goes, leaves the source.
LEMMA SourceStays ==
  ASSUME Shape, Source(pgRes), pgRes' = pgRes, job'.src = job.src, job'.id = job.id,
         \A q \in Pages : /\ Len(Items(q)') >= Len(Items(q))
                          /\ \A i \in 1 .. Len(Items(q)) : Items(q)'[i] = Items(q)[i]
  PROVE  Source(pgRes)'
  <1>1. job.src \in (Pages \X (Nat \ {0})) \cup {Null}
    BY JobFields DEF Shape
  <1>2. /\ job.src # Null /\ job.src[1] # pgRes
        /\ job.src[2] \in 1 .. Len(Items(job.src[1]))
        /\ Item(job.src[1], job.src[2]).id = job.id
    BY DEF Source
  <1>3. job.src[1] \in Pages
    BY <1>1, <1>2
  <1>4. PICK q \in Pages : q = job.src[1]
    BY <1>3
  <1>10. PICK i : i = job.src[2]
    OBVIOUS
  <1>5. i \in 1 .. Len(Items(q)) /\ Items(q)[i].id = job.id /\ Len(Items(q)) \in Nat
    BY <1>2, <1>4, <1>10, Rooms DEF Items, Item
  <1>6. Len(Items(q)') >= Len(Items(q)) /\ Items(q)'[i] = Items(q)[i]
    BY <1>5
  <1>7. Len(Items(q)') \in Nat => i \in 1 .. Len(Items(q)')
    BY <1>5, <1>6
  <1>8. flash'[q].items[i].id = job.id
    BY <1>5, <1>6 DEF Items
  <1>9. job'.src # Null /\ job'.src[1] = q /\ job'.src[2] = i /\ job'.src[1] # pgRes'
    BY <1>2, <1>4, <1>10
  <1> QED BY <1>5, <1>6, <1>7, <1>8, <1>9 DEF Source, Item, Items

\* The item to copy fits on the reserve page.
LEMMA CopyFits ==
  ASSUME Shape, Copying, AtItem
  PROVE  /\ Copied(job.ix) = Copied(job.ix - 1) + ItemSize[Item(job.pg, job.ix).id]
         /\ Copied(job.ix) <= PageCap
         /\ Copied(job.ix - 1) \in Nat /\ Copied(job.ix) \in Nat
         /\ Item(job.pg, job.ix).id \in Ids
         /\ ItemSize[Item(job.pg, job.ix).id] \in Nat
  <1> DEFINE s == Items(job.pg)
             n == job.ix
             I == Ids \ {job.id}
  <1>1. job.pg \in Pages
    BY DEF Copying
  <1>2. s \in Seq(ItemState) /\ Len(s) \in Nat /\ SizedItems(s) /\ U(job.pg) <= PageCap
    BY <1>1, Rooms
  <1>3. n \in Nat \ {0} /\ n <= Len(s) /\ Item(job.pg, n).id \in I
    BY JobFields DEF Shape, AtItem
  <1>4. Copied(n) = WordsTo(s, I, n) /\ Copied(n - 1) = WordsTo(s, I, n - 1)
    BY DEF Copied
  <1>5. Item(job.pg, n) = s[n]
    BY DEF Item, Items
  <1>6. U(job.pg) = WordsTo(s, Ids \cup {Null}, Len(s)) /\ U(job.pg) \in Nat /\ PageCap \in Nat
    BY <1>1, Rooms DEF U, Words
  <1> HIDE DEF s, n
  <1>7. n \in 1 .. Len(s) /\ n - 1 \in Nat /\ (n - 1) + 1 = n
    BY <1>2, <1>3
  <1>8. s[n].id # Null /\ s[n].id \in Ids
    BY <1>3, <1>5, NvAssumption
  <1>9. s[n].size = ItemSize[s[n].id]
    BY <1>2, <1>7, <1>8 DEF SizedItems
  <1>10. WordsTo(s, I, n) = WordsTo(s, I, n - 1) + ItemSize[s[n].id]
    <2>1. WordsTo(s, I, n) = WordsTo(s, I, n - 1) + Weight(s[n], I)
      BY <1>7, WordsStep
    <2> QED BY <1>3, <1>5, <1>9, <2>1 DEF Weight
  <1>11. WordsTo(s, I, n - 1) \in Nat /\ WordsTo(s, I, n) \in Nat
    <2>1. n - 1 \in 0 .. Len(s) /\ n \in 0 .. Len(s)
      BY <1>2, <1>7
    <2> QED BY <1>2, <2>1, WordsNat
  <1>12. WordsTo(s, I, n) <= PageCap
    <2>1. n \in Nat /\ n <= Len(s) /\ Len(s) \in 0 .. Len(s)
      BY <1>2, <1>7
    <2>2. WordsTo(s, I, n) <= WordsTo(s, I, Len(s))
      BY <1>2, <2>1, WordsGrow
    <2>3. I \subseteq Ids \cup {Null}
      OBVIOUS
    <2>4. WordsTo(s, I, Len(s)) <= WordsTo(s, Ids \cup {Null}, Len(s))
      BY <1>2, <2>1, <2>3, WordsSubset
    <2>5. WordsTo(s, I, Len(s)) \in Nat
      BY <1>2, <2>1, WordsNat
    <2> QED BY <1>2, <1>6, <1>11, <2>2, <2>4, <2>5
  <1>13. ItemSize[s[n].id] \in Nat
    BY <1>8, NvAssumption
  <1> QED BY <1>4, <1>5, <1>8, <1>10, <1>11, <1>12, <1>13 DEF n

LEMMA CopyHeaderInv ==
  ASSUME Inv, CopyHeader
  PROVE  Inv'
  <1>1. Shape /\ CopyHdrOK
    BY DEF Inv, Control, CopyHeader
  <1>2. PICK ok \in WriteTakes :
          /\ WriteHeader(pgRes, Item(job.pg, job.ix).id, ok)
          /\ IF ok THEN Goto("copyData", job) ELSE CompactFail
          /\ pgRes' = pgRes /\ hot' = hot
    BY DEF CopyHeader
  <1>3. Copying /\ AtItem /\ pgOff[pgRes] <= Copied(job.ix - 1)
    BY <1>1 DEF CopyHdrOK
  <1>4. /\ job.pg \in Pages /\ pgRes \in Pages /\ job.pg # pgRes
        /\ OthersActive(pgRes) /\ RoomOn(pgRes)
        /\ job.com = Null /\ job.ret = "idle"
        /\ job.ix <= Len(Items(job.pg)) + 1
        /\ CallToCopy \/ Boot_
    BY <1>3 DEF Copying
  <1>5. PICK r \in Pages, id \in Ids, q \in Pages :
          r = pgRes /\ id = Item(job.pg, job.ix).id /\ q = job.pg /\ q # r
    BY <1>1, <1>3, <1>4, CopyFits
  <1>6. /\ Copied(job.ix) = Copied(job.ix - 1) + ItemSize[id] /\ Copied(job.ix) <= PageCap
        /\ Copied(job.ix - 1) \in Nat /\ Copied(job.ix) \in Nat /\ ItemSize[id] \in Nat
    BY <1>1, <1>3, <1>5, CopyFits
  <1>7. pgOff[r] \in Nat /\ PageCap \in Nat
    BY <1>1, Rooms
  <1>8. WriteHeader(r, id, ok) /\ ItemSize[id] <= PageCap - pgOff[r] /\ RoomOn(r)
    BY <1>2, <1>3, <1>4, <1>5, <1>6, <1>7
  <1>9. /\ flash' \in [Pages -> PageState] /\ (~ok => flash' = flash)
        /\ \A p \in Pages : flash'[p].active = flash[p].active
        /\ \A p \in Pages \ {r} : /\ flash'[p] = flash[p] /\ pgOff'[p] = pgOff[p]
                                  /\ pgLost'[p] = pgLost[p]
        /\ pgOff' \in [Pages -> 0 .. PageCap] /\ pgLost' \in [Pages -> 0 .. PageCap]
        /\ faults' \in 0 .. MaxFaults
        /\ \A p \in Pages : SizedItems(Items(p)') /\ U(p)' <= PageCap
        /\ \A p \in Pages : RoomOn(p) => RoomOn(p)'
        /\ ok => pgOff'[r] = pgOff[r] + ItemSize[id] /\ pgLost'[r] = pgLost[r]
        /\ \A p \in Pages : Len(Items(p)') >= Len(Items(p))
        /\ \A p \in Pages : \A i \in 1 .. Len(Items(p)) : Items(p)'[i] = Items(p)[i]
    BY <1>1, <1>8, HeaderWritten
  <1>10. CASE ok
    <2>1. pc' = "copyData" /\ job' = job
      BY <1>2, <1>10 DEF Goto
    <2>2. Shape'
      BY <1>1, <1>2, <1>9, <2>1 DEF Shape
    <2>3. Items(q)' = Items(q)
      BY <1>5, <1>9, SamePage
    <2>4. Items(job.pg)' = Items(job.pg)
      BY <1>5, <2>1, <2>3 DEF Items
    <2>5. OthersActive(pgRes)' /\ RoomOn(r)'
      BY <1>2, <1>4, <1>8, <1>9 DEF OthersActive
    <2>6. RoomOn(pgRes)'
      BY <1>2, <1>5, <2>5 DEF RoomOn, U, L, Items
    <2>7. Boot_ => Boot_'
      BY <1>5, <1>9, <1>10, <2>1 DEF Boot_
    <2>8. CallToCopy => CallToCopy'
      <3> SUFFICES ASSUME CallToCopy PROVE CallToCopy'
        OBVIOUS
      <3>1. Call_ /\ InUse /\ FitsOnce
        BY DEF CallToCopy
      <3>2. Source(pgRes) => Source(pgRes)'
        BY <1>1, <1>2, <1>9, <2>1, SourceStays
      <3>3. Call_'
        BY <1>2, <2>1, <3>1, <3>2 DEF Call_
      <3>4. InUse'
        BY <1>2, <1>9, <2>5, <3>1 DEF InUse
      <3>5. FitsOnce'
        BY <1>5, <1>9, <2>1, <3>1 DEF FitsOnce
      <3> QED BY <3>3, <3>4, <3>5 DEF CallToCopy
    <2>9. Copying'
      BY <1>2, <1>4, <2>1, <2>4, <2>5, <2>6, <2>7, <2>8 DEF Copying
    <2>10. AtItem'
      BY <1>3, <2>1, <2>4 DEF AtItem, Item, Items
    <2>11. Copied(job.ix)' = Copied(job.ix)
      BY <2>1, <2>4 DEF Copied
    <2>12. pgOff'[r] <= Copied(job.ix)
      BY <1>3, <1>5, <1>6, <1>7, <1>9, <1>10
    <2>13. CopyItemOK'
      BY <1>2, <1>5, <2>9, <2>10, <2>11, <2>12 DEF CopyItemOK
    <2> QED BY <2>1, <2>2, <2>13 DEF Inv, Control, Steps
  <1>11. CASE ~ok
    <2>1. CompactFail
      BY <1>2, <1>11
    <2>2. pc' = "erase" /\ EraseOK' /\ job' \in JobState
      BY <1>1, <1>2, <1>3, <1>5, <1>9, <2>1, CompactFails
    <2>3. Shape'
      BY <1>1, <1>2, <1>9, <2>2 DEF Shape
    <2> QED BY <2>2, <2>3 DEF Inv, Control, Steps
  <1>12. ok \in BOOLEAN
    BY DEF WriteTakes
  <1> QED BY <1>10, <1>11, <1>12

LEMMA CopyDataInv ==
  ASSUME Inv, CopyData
  PROVE  Inv'
  <1>1. Shape /\ CopyItemOK
    BY DEF Inv, Control, CopyData
  <1>2. PICK ok \in WriteTakes :
          /\ FlashWrite(ok, LastData(pgRes, Item(job.pg, job.ix).val))
          /\ IF ok THEN Goto("copyChk", job) ELSE CompactFail
          /\ pgOff' = pgOff /\ pgLost' = pgLost /\ pgRes' = pgRes /\ hot' = hot
    BY DEF CopyData, ram
  <1>3. Copying /\ AtItem /\ pgOff[pgRes] <= Copied(job.ix)
    BY <1>1 DEF CopyItemOK
  <1>4. /\ job.pg \in Pages /\ pgRes \in Pages /\ job.ix <= Len(Items(job.pg)) + 1
        /\ job.ix <= Len(Items(job.pg)) /\ job.ix \in Nat \ {0} /\ Len(Items(job.pg)) \in Nat
    BY <1>1, <1>3, Rooms, JobFields DEF Copying, AtItem, Shape
  <1>5. /\ ok \in BOOLEAN /\ (ok => flash' = LastData(pgRes, Item(job.pg, job.ix).val))
        /\ (~ok => flash' = flash) /\ faults' \in 0 .. MaxFaults
    BY <1>1, <1>2, Written
  <1>6. SameRam
    BY <1>2 DEF SameRam
  <1>7. CASE ok
    <2>1. Item(job.pg, job.ix).val \in Values \cup {Null}
      <3>1. Items(job.pg) \in Seq(ItemState) /\ job.ix \in 1 .. Len(Items(job.pg))
        BY <1>1, <1>4, Rooms
      <3> QED BY <3>1, ItemFields DEF Item, Items
    <2>2. Keeps(flash', pgRes)
      BY <1>1, <1>4, <1>5, <1>7, <2>1, DataKeeps DEF Shape
    <2>3. pc' = "copyChk" /\ job' = job
      BY <1>2, <1>7 DEF Goto
    <2>4. SameCall /\ SameBoot
      BY <2>3 DEF SameCall, SameBoot
    <2>5. Shape'
      BY <1>1, <1>2, <1>5, <1>6, <2>2, <2>3, KeepsShape DEF Shape
    <2>6. Copying'
      BY <1>1, <1>3, <1>4, <1>6, <2>2, <2>3, <2>4, KeepsCopying
    <2>7. /\ \A n \in 0 .. Len(Items(job.pg)) : Copied(n)' = Copied(n)
          /\ Len(Items(job.pg)') = Len(Items(job.pg))
          /\ \A k \in 1 .. Len(Items(job.pg)) :
               flash'[job'.pg].items[k].id = flash[job.pg].items[k].id
      BY <1>1, <1>4, <2>2, <2>4, KeepsCopied
    <2>8. PICK n : n = job.ix /\ n \in 0 .. Len(Items(job.pg)) /\ n \in 1 .. Len(Items(job.pg))
      BY <1>4
    <2>9. AtItem'
      BY <1>3, <2>3, <2>7, <2>8 DEF AtItem, Item
    <2>10. Copied(job.ix)' = Copied(job.ix)
      <3>1. Copied(n)' = Copied(n)
        BY <2>7, <2>8
      <3> QED BY <2>3, <2>8, <3>1 DEF Copied
    <2>11. CopyItemOK'
      BY <1>2, <1>3, <2>6, <2>9, <2>10 DEF CopyItemOK
    <2> QED BY <2>3, <2>5, <2>11 DEF Inv, Control, Steps
  <1>8. CASE ~ok
    <2>1. CompactFail /\ flash' = flash
      BY <1>2, <1>5, <1>8
    <2>2. pc' = "erase" /\ EraseOK' /\ job' \in JobState
      BY <1>1, <1>2, <1>3, <2>1, CompactFails
    <2>3. Shape'
      BY <1>1, <1>2, <1>5, <1>6, <2>1, <2>2, StaysKept, KeepsShape DEF Shape
    <2> QED BY <2>2, <2>3 DEF Inv, Control, Steps
  <1> QED BY <1>5, <1>7, <1>8

LEMMA CopyChkInv ==
  ASSUME Inv, CopyChk
  PROVE  Inv'
  <1>1. Shape /\ CopyItemOK
    BY DEF Inv, Control, CopyChk
  <1>2. PICK ok \in WriteTakes :
          /\ FlashWrite(ok, LastChk(pgRes))
          /\ IF ok THEN /\ Goto("compact", [job EXCEPT !.ix = @ + 1])
                        /\ hot' = hotItemUpdate(Item(job.pg, job.ix).id,
                                                <<pgRes, Len(flash[pgRes].items)>>)
             ELSE CompactFail /\ hot' = hot
          /\ pgOff' = pgOff /\ pgLost' = pgLost /\ pgRes' = pgRes
    BY DEF CopyChk
  <1>3. Copying /\ AtItem /\ pgOff[pgRes] <= Copied(job.ix)
    BY <1>1 DEF CopyItemOK
  <1>4. /\ job.pg \in Pages /\ pgRes \in Pages /\ job \in JobState
        /\ job.ix <= Len(Items(job.pg)) /\ job.ix \in Nat \ {0} /\ Len(Items(job.pg)) \in Nat
    BY <1>1, <1>3, Rooms, JobFields DEF Copying, AtItem, Shape
  <1>5. /\ ok \in BOOLEAN /\ (ok => flash' = LastChk(pgRes))
        /\ (~ok => flash' = flash) /\ faults' \in 0 .. MaxFaults
    BY <1>1, <1>2, Written
  <1>6. SameRam /\ DOMAIN hot' = HotIds
    BY <1>1, <1>2, <1>5, HotDomain DEF SameRam
  <1>7. CASE ok
    <2>1. Keeps(flash', pgRes)
      BY <1>1, <1>4, <1>5, <1>7, ChkKeeps DEF Shape
    <2>2. pc' = "compact" /\ job' = [job EXCEPT !.ix = job.ix + 1]
      BY <1>2, <1>7 DEF Goto
    <2>3. job.ix + 1 \in Nat \ {0}
      BY <1>4
    <2>4. /\ job' \in JobState /\ job'.ix = job.ix + 1 /\ job'.ret = job.ret
          /\ job'.com = job.com /\ SameCall /\ SameBoot
      BY <1>4, <2>2, <2>3, SetIx DEF SameCall, SameBoot
    <2>5. Shape'
      BY <1>1, <1>2, <1>5, <1>6, <2>1, <2>4, KeepsShape
    <2>6. Copying'
      <3>1. job'.ix <= Len(Items(job.pg)) + 1
        BY <1>4, <2>4
      <3> QED BY <1>1, <1>3, <1>6, <2>1, <2>4, <3>1, KeepsCopying
    <2>7. PICK n : n = job.ix /\ n \in 0 .. Len(Items(job.pg))
      BY <1>4
    <2>8. Copied(n)' = Copied(n)
      BY <1>1, <1>4, <2>1, <2>4, <2>7, KeepsCopied
    <2>9. Copied(job.ix - 1)' = Copied(n)'
      <3>1. job'.ix - 1 = n
        BY <1>4, <2>4, <2>7
      <3> QED BY <3>1 DEF Copied
    <2>10. CompactOK'
      BY <1>2, <1>3, <2>6, <2>7, <2>8, <2>9 DEF CompactOK
    <2> QED BY <2>2, <2>5, <2>10 DEF Inv, Control, Steps
  <1>8. CASE ~ok
    <2>1. CompactFail /\ flash' = flash
      BY <1>2, <1>5, <1>8
    <2>2. pc' = "erase" /\ EraseOK' /\ job' \in JobState
      BY <1>1, <1>2, <1>3, <2>1, CompactFails
    <2>3. Shape'
      BY <1>1, <1>2, <1>5, <1>6, <2>1, <2>2, StaysKept, KeepsShape
    <2> QED BY <2>2, <2>3 DEF Inv, Control, Steps
  <1> QED BY <1>5, <1>7, <1>8

\* What was copied is no more than the live words of the page.
LEMMA CopiedIsLive ==
  ASSUME Shape, job.pg \in Pages, job.ix <= Len(Items(job.pg)) + 1
  PROVE  Copied(job.ix - 1) \in Nat /\ Copied(job.ix - 1) <= L(job.pg)
  <1> DEFINE s == Items(job.pg)
             I == Ids \ {job.id}
  <1>1. s \in Seq(ItemState) /\ Len(s) \in Nat /\ job.ix \in Nat \ {0}
    BY Rooms, JobFields DEF Shape
  <1>2. job.ix - 1 \in 0 .. Len(s) /\ job.ix - 1 \in Nat /\ job.ix - 1 <= Len(s)
    BY <1>1
  <1>3. Copied(job.ix - 1) = WordsTo(s, I, job.ix - 1) /\ L(job.pg) = WordsTo(s, Ids, Len(s))
    BY DEF Copied, L, Words
  <1> HIDE DEF s
  <1>4. WordsTo(s, I, job.ix - 1) <= WordsTo(s, I, Len(s))
    <2>1. Len(s) \in 0 .. Len(s)
      BY <1>1
    <2> QED BY <1>1, <1>2, <2>1, WordsGrow
  <1>5. WordsTo(s, I, Len(s)) <= WordsTo(s, Ids, Len(s))
    <2>1. Len(s) \in 0 .. Len(s) /\ I \subseteq Ids
      BY <1>1
    <2> HIDE DEF I
    <2> QED BY <1>1, <2>1, WordsSubset
  <1>6. /\ WordsTo(s, I, job.ix - 1) \in Nat /\ WordsTo(s, I, Len(s)) \in Nat
        /\ WordsTo(s, Ids, Len(s)) \in Nat
    <2>1. Len(s) \in 0 .. Len(s)
      BY <1>1
    <2> QED BY <1>1, <1>2, <2>1, WordsNat
  <1> QED BY <1>3, <1>4, <1>5, <1>6

LEMMA CompactDoneInv ==
  ASSUME Inv, CompactDone
  PROVE  Inv'
  <1>1. Shape /\ CompactOK
    BY DEF Inv, Control, CompactDone
  <1>2. /\ pc' = IF job.op = "boot" THEN "use" ELSE "header"
        /\ job' = [job EXCEPT !.com = job.pg] /\ flash' = flash
        /\ pgOff' = pgOff /\ pgLost' = pgLost /\ pgRes' = pgRes /\ hot' = hot /\ faults' = faults
    BY DEF CompactDone, Goto, ram
  <1>3. Copying /\ pgOff[pgRes] <= Copied(job.ix - 1)
    BY <1>1 DEF CompactOK
  <1>4. /\ job.pg \in Pages /\ pgRes \in Pages /\ job.pg # pgRes
        /\ OthersActive(pgRes) /\ RoomOn(pgRes)
        /\ job.com = Null /\ job.ret = "idle"
        /\ job.ix <= Len(Items(job.pg)) + 1
        /\ (CallToCopy \/ Boot_) /\ job \in JobState
    BY <1>1, <1>3 DEF Copying, Shape
  <1>5. /\ job' \in JobState /\ job'.com = job.pg /\ job'.ret = job.ret
        /\ SameCall /\ SameBoot
    <2>1. job \in JobState
      BY <1>1 DEF Shape
    <2> QED BY <1>2, <1>4, <2>1, SetCom DEF SameCall, SameBoot
  <1>6. Keeps(flash', pgRes) /\ SameRam
    BY <1>1, <1>2, StaysKept DEF SameRam
  <1>7. Shape'
    BY <1>1, <1>2, <1>5, <1>6, KeepsShape DEF Shape
  <1>8. OthersActive(pgRes)' /\ (InUse => InUse') /\ (Call_ => Call_') /\ (Boot_ => Boot_')
    BY <1>1, <1>4, <1>5, <1>6, KeepsRoom, KeepsCall, SameBootStays DEF SameRam
  <1>9. CASE job.op = "boot"
    <2>1. Boot_
      BY <1>4, <1>9 DEF CallToCopy, Call_
    <2>2. UseOK'
      BY <1>2, <1>4, <1>5, <1>8, <2>1 DEF UseOK, SameCall
    <2> QED BY <1>2, <1>7, <1>9, <2>2 DEF Inv, Control, Steps
  <1>10. CASE job.op # "boot"
    <2>1. Call_ /\ InUse /\ FitsOnce
      BY <1>4, <1>10 DEF CallToCopy, Boot_
    <2>2. job.pg # Null /\ job'.com # Null
      BY <1>4, <1>5, NvAssumption
    <2>3. Writing'
      BY <1>5, <1>8, <2>1, <2>2 DEF Writing, SameCall
    <2>4. RoomOn(job.pg) /\ job.id \in Ids
      BY <1>4, <2>1 DEF InUse, Call_
    <2>5. ItemSize[job.id] <= PageCap - pgOff[pgRes]
      <3>1. Copied(job.ix - 1) \in Nat /\ Copied(job.ix - 1) <= L(job.pg)
        BY <1>1, <1>4, CopiedIsLive
      <3>2. /\ L(job.pg) \in Nat /\ pgOff[job.pg] \in Nat /\ pgLost[job.pg] \in Nat
            /\ PageCap \in Nat /\ pgOff[pgRes] \in Nat
        BY <1>1, <1>4, Rooms
      <3>3. ItemSize[job.id] \in Nat
        BY <2>4, NvAssumption
      <3>4. pgLost[job.pg] <= pgOff[job.pg] - L(job.pg)
        BY <2>4 DEF RoomOn
      <3>5. ItemSize[job.id] <= PageCap - pgOff[job.pg] + pgLost[job.pg]
        BY <2>1 DEF FitsOnce
      <3> QED BY <1>3, <3>1, <3>2, <3>3, <3>4, <3>5
    <2>6. Target' = pgRes
      BY <1>2, <2>2 DEF Target
    <2>7. ItemSize[job'.id] <= PageCap - pgOff'[pgRes]
      BY <1>2, <1>5, <2>5 DEF SameCall
    <2>8. HeaderOK'
      BY <2>3, <2>6, <2>7 DEF HeaderOK
    <2> QED BY <1>2, <1>7, <1>10, <2>8 DEF Inv, Control, Steps
  <1> QED BY <1>9, <1>10

-----------------------------------------------------------------------------
(* The steps that write the item of a call.                                *)

\* The end of the writes of a call: the cleanup comes, or the call returns.
LEMMA FinishInv ==
  ASSUME Shape, Call_, job.com \in {Null, job.pg}, pgRes' = pgRes, InUse',
         job.com = Null => Empty(pgRes)',
         job.op = "write" => /\ job.src # Null /\ job.src[1] # pgRes
                             /\ job.src[2] \in 1 .. Len(flash'[job.src[1]].items)
                             /\ flash'[job.src[1]].items[job.src[2]].id = job.id,
         NEW ok \in BOOLEAN, Finish(ok)
  PROVE  job' \in JobState /\ Control'
  <1> DEFINE j == [job EXCEPT !.ok = ok]
  <1>1. /\ job \in JobState /\ job.op \in {"create", "write"} /\ job.id \in Ids
        /\ job.val \in Values /\ job.pg \in Pages /\ job.pg # pgRes /\ job.ret = "idle"
    BY DEF Shape, Call_
  <1>2. /\ j \in JobState /\ j.ret = job.ret /\ j.op = job.op /\ j.id = job.id
        /\ j.val = job.val /\ j.src = job.src /\ j.pg = job.pg /\ j.com = job.com
    BY <1>1, SetOk
  <1>3. pgRes' \in Pages /\ OthersActive(pgRes)' /\ \A q \in Pages : RoomOn(q)'
    BY DEF InUse
  <1>4. Finish(ok) <=>
          IF job.com # Null
          THEN IF job.op = "write" /\ job.src[1] = job.com /\ ~ok
               THEN ThenErase(j, pgRes, "idle")
               ELSE Goto("use", j)
          ELSE IF job.op = "write" /\ ok THEN Goto("zero", j) ELSE Return
    BY DEF Finish
  <1> HIDE DEF j
  <1>5. CASE ThenErase(j, pgRes, "idle")
    <2>1. pc' = "erase" /\ job' = ErasingAt(j, pgRes, "idle")
      BY <1>5 DEF ThenErase, Goto, ErasingAt
    <2>2. "idle" \in Returns /\ pgRes \in Pages
      BY <1>3 DEF Returns
    <2>3. job' \in JobState /\ job'.er = pgRes /\ job'.ret = "idle"
      BY <1>2, <2>1, <2>2, SetErase
    <2>4. OthersActive(job.er)'
      BY <1>3, <2>3 DEF OthersActive
    <2>5. EraseOK'
      BY <1>3, <2>2, <2>3, <2>4 DEF EraseOK
    <2> QED BY <2>1, <2>3, <2>5 DEF Control, Steps
  <1>6. CASE job.com # Null /\ Goto("use", j)
    <2>1. pc' = "use" /\ job' = j
      BY <1>6 DEF Goto
    <2>2. job.op = "write" => Source(pgRes)'
      BY <1>2, <2>1 DEF Source, Items, Item
    <2>3. Call_'
      BY <1>1, <1>2, <2>1, <2>2 DEF Call_
    <2>4. UseOK'
      BY <1>1, <1>2, <1>3, <1>6, <2>1, <2>3 DEF UseOK
    <2> QED BY <1>2, <2>1, <2>4 DEF Control, Steps
  <1>7. CASE job.com = Null /\ job.op = "write" /\ Goto("zero", j)
    <2>1. pc' = "zero" /\ job' = j
      BY <1>7 DEF Goto
    <2>2. Source(pgRes)'
      BY <1>2, <1>7, <2>1 DEF Source, Items, Item
    <2>3. Ready'
      BY <1>7 DEF Ready
    <2>4. ZeroOK'
      BY <1>1, <1>2, <1>7, <2>1, <2>2, <2>3 DEF ZeroOK
    <2> QED BY <1>2, <2>1, <2>4 DEF Control, Steps
  <1>8. CASE job.com = Null /\ Return
    <2>1. pc' = "idle" /\ job' = NoJob
      BY <1>8 DEF Return
    <2>2. IdleOK'
      BY <1>8, <2>1 DEF IdleOK, Ready
    <2> QED BY <2>1, <2>2, NoJobIs DEF Control, Steps
  <1> QED BY <1>4, <1>5, <1>6, <1>7, <1>8

LEMMA HeaderInv ==
  ASSUME Inv, Header
  PROVE  Inv'
  <1>1. Shape /\ HeaderOK
    BY DEF Inv, Control, Header
  <1>2. PICK ok \in WriteTakes :
          /\ WriteHeader(Target, job.id, ok)
          /\ IF ~ok THEN Finish(FALSE)
             ELSE Goto(IF job.op = "write" /\ Item(job.src[1], job.src[2]).stat = "new"
                       THEN "markSrc" ELSE "data", [job EXCEPT !.dst = Target])
          /\ pgRes' = pgRes /\ hot' = hot
    BY DEF Header, Target
  <1>3. /\ Writing /\ ItemSize[job.id] <= PageCap - pgOff[Target]
        /\ Call_ /\ InUse /\ job.com \in {Null, job.pg} /\ (job.com = Null => Empty(pgRes))
    BY <1>1 DEF HeaderOK, Writing
  <1>4. /\ job \in JobState /\ job.op \in {"create", "write"} /\ job.id \in Ids
        /\ job.val \in Values /\ job.pg \in Pages /\ job.pg # pgRes /\ job.ret = "idle"
        /\ pgRes \in Pages /\ OthersActive(pgRes) /\ \A q \in Pages : RoomOn(q)
        /\ (job.op = "write" => Source(pgRes))
    BY <1>1, <1>3 DEF Shape, Call_, InUse
  <1>5. PICK p \in Pages, id \in Ids : p = Target /\ id = job.id
    BY <1>4 DEF Target
  <1>6. WriteHeader(p, id, ok) /\ ItemSize[id] <= PageCap - pgOff[p] /\ RoomOn(p)
    BY <1>2, <1>3, <1>4, <1>5
  <1>7. /\ flash' \in [Pages -> PageState]
        /\ \A q \in Pages : flash'[q].active = flash[q].active
        /\ \A q \in Pages \ {p} : /\ flash'[q] = flash[q] /\ pgOff'[q] = pgOff[q]
                                  /\ pgLost'[q] = pgLost[q]
        /\ pgOff' \in [Pages -> 0 .. PageCap] /\ pgLost' \in [Pages -> 0 .. PageCap]
        /\ faults' \in 0 .. MaxFaults
        /\ \A q \in Pages : SizedItems(Items(q)') /\ U(q)' <= PageCap
        /\ \A q \in Pages : RoomOn(q) => RoomOn(q)'
        /\ \A q \in Pages : Len(Items(q)') >= Len(Items(q))
        /\ \A q \in Pages : \A i \in 1 .. Len(Items(q)) : Items(q)'[i] = Items(q)[i]
    BY <1>1, <1>6, HeaderWritten
  <1>8. InUse'
    BY <1>2, <1>4, <1>7 DEF InUse, OthersActive
  <1>9. job.com = Null => Empty(pgRes)'
    BY <1>2, <1>3, <1>4, <1>5, <1>7 DEF Empty, Target
  <1>10. ok \in BOOLEAN
    BY DEF WriteTakes
  <1>11. job' \in JobState => Shape'
    BY <1>1, <1>2, <1>7 DEF Shape
  <1>12. CASE ok
    <2> DEFINE step == IF job.op = "write" /\ Item(job.src[1], job.src[2]).stat = "new"
                       THEN "markSrc" ELSE "data"
    <2>1. pc' = step /\ job' = [job EXCEPT !.dst = p]
      BY <1>2, <1>5, <1>12 DEF Goto
    <2>2. /\ job' \in JobState /\ job'.dst = p /\ job'.ret = job.ret /\ job'.com = job.com
          /\ SameCall
      BY <1>4, <2>1, SetDst DEF SameCall
    <2>3. job.op = "write" => Source(pgRes)'
      BY <1>1, <1>2, <1>4, <1>7, <2>2, SourceStays DEF SameCall
    <2>4. Call_'
      BY <1>2, <1>4, <2>2, <2>3 DEF Call_, SameCall
    <2>5. Writing'
      BY <1>3, <1>8, <1>9, <2>2, <2>4 DEF Writing, SameCall
    <2>6. Target' = p
      BY <1>2, <1>5, <2>2 DEF Target, SameCall
    <2>7. BodyOK'
      BY <2>2, <2>5, <2>6 DEF BodyOK
    <2>8. pc' \in {"markSrc", "data"} /\ (pc' = "markSrc" => job'.op = "write")
      BY <2>1, <2>2 DEF SameCall
    <2> HIDE DEF step
    <2>9. Control'
      BY <2>7, <2>8 DEF Control, Steps
    <2> QED BY <1>11, <2>2, <2>9 DEF Inv
  <1>13. CASE ~ok
    <2>1. Finish(FALSE)
      BY <1>2, <1>13
    <2>2. job.op = "write" => /\ job.src # Null /\ job.src[1] # pgRes
                              /\ job.src[2] \in 1 .. Len(flash'[job.src[1]].items)
                              /\ flash'[job.src[1]].items[job.src[2]].id = job.id
      <3>1. flash' = flash
        BY <1>10, <1>13, <1>1, <1>6, HeaderWritten
      <3> QED BY <1>4, <3>1 DEF Source, Item, Items
    <2>3. job' \in JobState /\ Control'
      BY <1>1, <1>2, <1>3, <1>8, <1>9, <2>1, <2>2, FinishInv
    <2> QED BY <1>11, <2>3 DEF Inv
  <1> QED BY <1>10, <1>12, <1>13

LEMMA MarkSourceInv ==
  ASSUME Inv, MarkSource
  PROVE  Inv'
  <1>1. Shape /\ BodyOK /\ job.op = "write"
    BY DEF Inv, Control, MarkSource
  <1>2. /\ flash' = XferItem(job.src[1], job.src[2]) /\ pc' = "data" /\ job' = job
        /\ pgOff' = pgOff /\ pgLost' = pgLost /\ pgRes' = pgRes /\ hot' = hot /\ faults' = faults
    BY DEF MarkSource, Goto, ram
  <1>3. /\ Call_ /\ InUse /\ job.com \in {Null, job.pg} /\ (job.com = Null => Empty(pgRes))
        /\ job.dst = Target /\ Source(pgRes) /\ job.ret = "idle"
    BY <1>1 DEF BodyOK, Writing, Call_
  <1>4. job.src \in (Pages \X (Nat \ {0})) \cup {Null} /\ job.src # Null /\ job.src[1] # pgRes
    BY <1>1, <1>3, JobFields DEF Shape, Source
  <1>5. PICK p \in Pages : p = job.src[1] /\ p # pgRes
    BY <1>4
  <1>6. Keeps(flash', p)
    BY <1>1, <1>2, <1>5, XferKeeps DEF Shape
  <1>7. SameRam /\ SameCall
    BY <1>2 DEF SameRam, SameCall
  <1>8. Shape'
    BY <1>1, <1>2, <1>6, <1>7, KeepsShape DEF Shape
  <1>9. InUse' /\ Call_' /\ (job.com = Null => Empty(pgRes)')
    BY <1>1, <1>2, <1>3, <1>5, <1>6, <1>7, KeepsRoom, KeepsCall DEF InUse
  <1>10. BodyOK'
    BY <1>2, <1>3, <1>9 DEF BodyOK, Writing, Target
  <1> QED BY <1>2, <1>8, <1>10 DEF Inv, Control, Steps

\* The data and the checksum are written behind the header, on the page it is on.
LEMMA BodyWritten ==
  ASSUME Shape, BodyOK, Keeps(flash', job.dst), SameRam
  PROVE  /\ InUse' /\ (job.com = Null => Empty(pgRes)')
         /\ Call_ /\ job.com \in {Null, job.pg}
         /\ job.op = "write" => /\ job.src # Null /\ job.src[1] # pgRes
                                /\ job.src[2] \in 1 .. Len(flash'[job.src[1]].items)
                                /\ flash'[job.src[1]].items[job.src[2]].id = job.id
         /\ job' = job => BodyOK'
  <1>1. /\ Call_ /\ InUse /\ job.com \in {Null, job.pg} /\ (job.com = Null => Empty(pgRes))
        /\ job.dst = Target /\ job.pg \in Pages /\ job.pg # pgRes /\ pgRes \in Pages
        /\ job.ret = "idle" /\ (job.op = "write" => Source(pgRes))
    BY DEF BodyOK, Writing, Call_, InUse
  <1>2. PICK p \in Pages : p = job.dst /\ (job.com = Null => p # pgRes)
    BY <1>1 DEF Target
  <1>3. Keeps(flash', p)
    BY <1>2
  <1>4. InUse' /\ (job.com = Null => Empty(pgRes)')
    BY <1>1, <1>2, <1>3, KeepsRoom
  <1>5. job.op = "write" => /\ job.src # Null /\ job.src[1] # pgRes
                            /\ job.src[2] \in 1 .. Len(flash'[job.src[1]].items)
                            /\ flash'[job.src[1]].items[job.src[2]].id = job.id
    <2> SUFFICES ASSUME job.op = "write"
                 PROVE  /\ job.src # Null /\ job.src[1] # pgRes
                        /\ job.src[2] \in 1 .. Len(flash'[job.src[1]].items)
                        /\ flash'[job.src[1]].items[job.src[2]].id = job.id
      OBVIOUS
    <2>1. /\ job.src # Null /\ job.src[1] # pgRes
          /\ job.src[2] \in 1 .. Len(Items(job.src[1]))
          /\ Item(job.src[1], job.src[2]).id = job.id
      BY <1>1 DEF Source
    <2>2. job.src \in (Pages \X (Nat \ {0})) \cup {Null}
      BY JobFields DEF Shape
    <2>3. PICK q \in Pages : q = job.src[1]
      BY <2>1, <2>2
    <2>7. PICK i : i = job.src[2]
      OBVIOUS
    <2>4. Alike(flash[q].items, flash'[q].items)
      BY <1>3 DEF Keeps
    <2>5. i \in 1 .. Len(flash[q].items) /\ flash[q].items[i].id = job.id
      BY <2>1, <2>3, <2>7 DEF Items, Item
    <2>6. i \in 1 .. Len(flash'[q].items) /\ flash'[q].items[i].id = job.id
      BY <2>4, <2>5 DEF Alike
    <2> QED BY <2>1, <2>3, <2>6, <2>7
  <1>6. job' = job => BodyOK'
    <2> SUFFICES ASSUME job' = job PROVE BodyOK'
      OBVIOUS
    <2>1. SameCall /\ job'.ret = "idle"
      BY <1>1 DEF SameCall
    <2>2. Call_'
      BY <1>1, <1>3, <2>1, KeepsCall
    <2> QED BY <1>1, <1>4, <2>2 DEF BodyOK, Writing, Target, SameRam
  <1> QED BY <1>1, <1>4, <1>5, <1>6

LEMMA DataInv ==
  ASSUME Inv, Data
  PROVE  Inv'
  <1>1. Shape /\ BodyOK
    BY DEF Inv, Control, Data
  <1>2. PICK ok \in WriteTakes :
          /\ FlashWrite(ok, LastData(job.dst, job.val))
          /\ IF ok /\ (job.op = "create" \/ Item(job.src[1], job.src[2]).chk)
             THEN Goto("chk", job) ELSE Finish(FALSE)
          /\ pgOff' = pgOff /\ pgLost' = pgLost /\ pgRes' = pgRes /\ hot' = hot
    BY DEF Data, ram
  <1>3. job.dst \in Pages /\ job.val \in Values \cup {Null}
    BY <1>1 DEF BodyOK, Writing, Call_, Target, InUse
  <1>4. /\ ok \in BOOLEAN /\ (ok => flash' = LastData(job.dst, job.val))
        /\ (~ok => flash' = flash) /\ faults' \in 0 .. MaxFaults
    BY <1>1, <1>2, Written
  <1>5. Keeps(flash', job.dst)
    BY <1>1, <1>3, <1>4, DataKeeps, StaysKept DEF Shape
  <1>6. SameRam
    BY <1>2 DEF SameRam
  <1>7. job' \in JobState => Shape'
    BY <1>1, <1>2, <1>4, <1>5, <1>6, KeepsShape DEF Shape
  <1>8. /\ InUse' /\ (job.com = Null => Empty(pgRes)')
        /\ Call_ /\ job.com \in {Null, job.pg}
        /\ job.op = "write" => /\ job.src # Null /\ job.src[1] # pgRes
                               /\ job.src[2] \in 1 .. Len(flash'[job.src[1]].items)
                               /\ flash'[job.src[1]].items[job.src[2]].id = job.id
        /\ job' = job => BodyOK'
    BY <1>1, <1>5, <1>6, BodyWritten
  <1>9. CASE Goto("chk", job)
    <2>1. pc' = "chk" /\ job' = job
      BY <1>9 DEF Goto
    <2>2. BodyOK' /\ Shape'
      BY <1>1, <1>7, <1>8, <2>1 DEF Shape
    <2> QED BY <2>1, <2>2 DEF Inv, Control, Steps
  <1>10. CASE Finish(FALSE)
    <2>1. job' \in JobState /\ Control'
      BY <1>1, <1>2, <1>8, <1>10, FinishInv
    <2> QED BY <1>7, <2>1 DEF Inv
  <1> QED BY <1>2, <1>9, <1>10

LEMMA ChecksumInv ==
  ASSUME Inv, Checksum
  PROVE  Inv'
  <1>1. Shape /\ BodyOK
    BY DEF Inv, Control, Checksum
  <1>2. PICK ok \in WriteTakes :
          /\ FlashWrite(ok, LastChk(job.dst))
          /\ hot' = IF ok THEN hotItemUpdate(job.id, <<job.dst, Len(flash[job.dst].items)>>)
                    ELSE hot
          /\ Finish(ok)
          /\ pgOff' = pgOff /\ pgLost' = pgLost /\ pgRes' = pgRes
    BY DEF Checksum
  <1>3. job.dst \in Pages
    BY <1>1 DEF BodyOK, Writing, Call_, Target, InUse
  <1>4. /\ ok \in BOOLEAN /\ (ok => flash' = LastChk(job.dst))
        /\ (~ok => flash' = flash) /\ faults' \in 0 .. MaxFaults
    BY <1>1, <1>2, Written
  <1>5. Keeps(flash', job.dst)
    BY <1>1, <1>3, <1>4, ChkKeeps, StaysKept DEF Shape
  <1>6. SameRam /\ DOMAIN hot' = HotIds
    BY <1>1, <1>2, <1>4, HotDomain DEF SameRam
  <1>7. /\ InUse' /\ (job.com = Null => Empty(pgRes)')
        /\ Call_ /\ job.com \in {Null, job.pg}
        /\ job.op = "write" => /\ job.src # Null /\ job.src[1] # pgRes
                               /\ job.src[2] \in 1 .. Len(flash'[job.src[1]].items)
                               /\ flash'[job.src[1]].items[job.src[2]].id = job.id
    BY <1>1, <1>5, <1>6, BodyWritten
  <1>8. job' \in JobState /\ Control'
    BY <1>1, <1>2, <1>4, <1>7, FinishInv
  <1> QED BY <1>1, <1>4, <1>5, <1>6, <1>8, KeepsShape DEF Inv

-----------------------------------------------------------------------------
(* Finding an item, and a page for one.                                    *)

LEMMA FirstIn ==
  ASSUME NEW Q, Q \subseteq Pages \X (Nat \ {0}), Q # {}
  PROVE  FirstOf(Q) \in Q
  <1> DEFINE A == {l[1] : l \in Q}
  <1>1. A \subseteq Nat /\ A # {}
    BY DEF Pages
  <1>2. PICK p \in A : \A q \in A : p <= q
    BY <1>1, LeastOf
  <1> DEFINE B == {l[2] : l \in {m \in Q : m[1] = p}}
  <1>3. B \subseteq Nat /\ B # {}
    BY <1>2
  <1>4. PICK i \in B : \A k \in B : i <= k
    BY <1>3, LeastOf
  <1>5. PICK l \in Q : l[1] = p /\ l[2] = i
    BY <1>4
  <1>6. ASSUME NEW m \in Q PROVE l[1] < m[1] \/ (l[1] = m[1] /\ l[2] <= m[2])
    <2>1. m[1] \in A /\ p <= m[1] /\ m[1] \in Nat /\ p \in Nat
      BY <1>1, <1>2
    <2>2. m[1] = p => m[2] \in B /\ i <= m[2]
      BY <1>4
    <2> QED BY <1>5, <2>1, <2>2
  <1>7. \E x \in Q : \A m \in Q : x[1] < m[1] \/ (x[1] = m[1] /\ x[2] <= m[2])
    BY <1>5, <1>6
  <1> QED BY <1>7 DEF FirstOf

LEMMA PlacesAre ==
  ASSUME Shape
  PROVE  /\ Places \subseteq Pages \X (Nat \ {0})
         /\ \A l \in Places : l[1] \in Pages /\ l[2] \in 1 .. Len(Items(l[1]))
  <1>1. ASSUME NEW l \in Places
        PROVE  /\ l \in Pages \X (Nat \ {0}) /\ l[1] \in Pages
               /\ l[2] \in 1 .. Len(Items(l[1]))
    <2>1. PICK p \in Pages : \E k \in DOMAIN flash[p].items : l = <<p, k>>
      BY DEF Places
    <2>5. PICK i \in DOMAIN flash[p].items : l = <<p, i>>
      BY <2>1
    <2>2. Items(p) \in Seq(ItemState) /\ Len(Items(p)) \in Nat
      BY Rooms
    <2>3. i \in 1 .. Len(Items(p))
      BY <2>1, <2>2 DEF Items
    <2>4. i \in Nat \ {0}
      BY <2>2, <2>3
    <2> QED BY <2>5, <2>3, <2>4
  <1> QED BY <1>1

LEMMA FirstCopy ==
  ASSUME Shape, NEW id, NEW st, Copies(id, st) # {}, NEW l, l = FirstOf(Copies(id, st))
  PROVE  /\ l \in Pages \X (Nat \ {0}) /\ l[1] \in Pages
         /\ l[2] \in 1 .. Len(Items(l[1])) /\ Item(l[1], l[2]).id = id
  <1>1. Copies(id, st) \subseteq Places
    BY DEF Copies
  <1>2. Copies(id, st) \subseteq Pages \X (Nat \ {0})
    BY <1>1, PlacesAre
  <1>3. l \in Copies(id, st)
    BY <1>2, FirstIn
  <1> QED BY <1>1, <1>2, <1>3, PlacesAre DEF Copies

LEMMA FoundItem ==
  ASSUME Shape, NEW id, NEW l, l = findItem(id), l # Null
  PROVE  /\ l \in Pages \X (Nat \ {0}) /\ l[1] \in Pages
         /\ l[2] \in 1 .. Len(Items(l[1])) /\ Item(l[1], l[2]).id = id
  <1>1. \/ Copies(id, "new") # {} /\ l = FirstOf(Copies(id, "new"))
        \/ Copies(id, "xfer") # {} /\ l = FirstOf(Copies(id, "xfer"))
    BY DEF findItem
  <1> QED BY <1>1, FirstCopy

LEMMA PageFound ==
  ASSUME Shape, pgRes \in Pages, NEW id, NEW p, p = PageFor(id), p # Null
  PROVE  p \in Pages /\ FitsIn(id, p)
  <1> DEFINE ks == {k \in 1 .. LastPage : FitsIn(id, Cyclic(k))}
             c == CHOOSE k \in ks : \A j \in ks : k <= j
  <1>1. ks # {} /\ p = Cyclic(c)
    BY DEF PageFor
  <1>2. ks \subseteq Nat
    OBVIOUS
  <1>3. \E k \in ks : \A j \in ks : k <= j
    <2> HIDE DEF ks
    <2> QED BY <1>1, <1>2, LeastOf
  <1>4. c \in ks
    <2> HIDE DEF ks
    <2> QED BY <1>3
  <1>5. c \in 1 .. LastPage /\ FitsIn(id, Cyclic(c))
    BY <1>4
  <1> HIDE DEF c
  <1>6. pgRes + c - 1 \in Nat /\ LastPage \in Nat \ {0}
    BY <1>5, NvAssumption DEF Pages
  <1>7. \A x \in Nat : (x % LastPage) + 1 \in 1 .. LastPage
    BY <1>6
  <1> QED BY <1>1, <1>5, <1>6, <1>7 DEF Cyclic, Pages

-----------------------------------------------------------------------------
(* The calls.                                                              *)

\* initItem has found a page: the item fits on it, or will after its compaction.
LEMMA StartInv ==
  ASSUME Inv, pc = "idle", NEW j \in JobState, StartInitItem(j),
         j.op \in {"create", "write"}, j.id \in Ids, j.val \in Values, j.com = Null,
         j.ret = "idle", j.ix = 1,
         j.op = "write" => /\ j.src # Null /\ j.src[1] # pgRes
                           /\ j.src[2] \in 1 .. Len(Items(j.src[1]))
                           /\ Item(j.src[1], j.src[2]).id = j.id
  PROVE  Inv'
  <1>1. Shape /\ IdleOK
    BY DEF Inv, Control
  <1>2. Ready /\ InUse /\ Empty(pgRes) /\ pgRes \in Pages
    BY <1>1 DEF IdleOK, Ready, InUse
  <1>3. PICK p : p = PageFor(j.id)
    OBVIOUS
  <1>4. /\ p # Null
        /\ pc' = IF ItemSize[j.id] <= PageCap - pgOff[p] THEN "header"
                 ELSE IF flash[p].xfer THEN "compact" ELSE "mark"
        /\ job' = [j EXCEPT !.pg = p] /\ flash' = flash
        /\ pgOff' = pgOff /\ pgLost' = pgLost /\ pgRes' = pgRes /\ hot' = hot /\ faults' = faults
    BY <1>3 DEF StartInitItem, Goto, ram
  <1>5. p \in Pages /\ p # pgRes /\ ItemSize[j.id] <= PageCap - pgOff[p] + pgLost[p]
    BY <1>1, <1>2, <1>3, <1>4, PageFound DEF FitsIn
  <1>6. /\ job' \in JobState /\ job'.pg = p /\ job'.ret = j.ret
        /\ job'.op = j.op /\ job'.id = j.id /\ job'.val = j.val /\ job'.src = j.src
        /\ job'.ix = j.ix /\ job'.com = j.com
    BY <1>4, <1>5, SetPage
  <1>7. Keeps(flash', p) /\ SameRam
    BY <1>1, <1>4, StaysKept DEF SameRam
  <1>8. Shape'
    BY <1>1, <1>4, <1>6, <1>7, KeepsShape DEF Shape
  <1>9. Ready' /\ InUse' /\ Empty(pgRes)'
    BY <1>1, <1>2, <1>5, <1>7, KeepsRoom DEF Ready
  <1>10. Call_'
    <2>1. job'.op = "write" => Source(pgRes)'
      BY <1>4, <1>6 DEF Source, Items, Item
    <2> QED BY <1>4, <1>5, <1>6, <2>1 DEF Call_
  <1>11. CallToCopy'
    BY <1>4, <1>5, <1>6, <1>9, <1>10 DEF CallToCopy, FitsOnce
  <1>12. CASE pc' = "header"
    <2>1. ItemSize[j.id] <= PageCap - pgOff[p]
      BY <1>4, <1>12
    <2>2. Writing'
      BY <1>6, <1>9, <1>10 DEF Writing
    <2>3. Target' = p
      BY <1>6 DEF Target
    <2>4. HeaderOK'
      BY <1>4, <1>6, <2>1, <2>2, <2>3 DEF HeaderOK
    <2> QED BY <1>8, <1>12, <2>4 DEF Inv, Control, Steps
  <1>13. CASE pc' = "mark"
    <2>1. MarkOK'
      BY <1>6, <1>9, <1>11 DEF MarkOK
    <2> QED BY <1>8, <1>13, <2>1 DEF Inv, Control, Steps
  <1>14. CASE pc' = "compact"
    <2>1. job'.ix <= Len(Items(job.pg)') + 1
      <3>1. Items(job.pg)' = Items(p) /\ Len(Items(p)) \in Nat
        BY <1>1, <1>4, <1>5, <1>6, Rooms DEF Items
      <3> QED BY <1>6, <3>1
    <2>2. RoomOn(pgRes)'
      BY <1>9 DEF InUse, RoomOn, Items, U, L
    <2>3. Copying'
      BY <1>2, <1>4, <1>5, <1>6, <1>9, <1>11, <2>1, <2>2 DEF Copying, InUse
    <2>4. pgOff'[pgRes'] = 0
      BY <1>9 DEF Empty
    <2>5. Copied(job.ix - 1)' = 0
      <3>1. job'.ix - 1 = 0
        BY <1>6
      <3> QED BY <3>1, WordsStep DEF Copied
    <2>6. CompactOK'
      BY <2>3, <2>4, <2>5 DEF CompactOK
    <2> QED BY <1>8, <1>14, <2>6 DEF Inv, Control, Steps
  <1> QED BY <1>4, <1>12, <1>13, <1>14

Creating(j, id, v)   == [j EXCEPT !.op = "create", !.id = id, !.val = v]
Rewriting(j, id, v, l) == [j EXCEPT !.op = "write", !.id = id, !.val = v, !.src = l]

LEMMA SetCreate ==
  ASSUME NEW j \in JobState, NEW id \in Ids, NEW v \in Values
  PROVE  LET k == Creating(j, id, v)
         IN  /\ k \in JobState /\ k.op = "create" /\ k.id = id /\ k.val = v /\ k.src = j.src
             /\ k.com = j.com /\ k.ret = j.ret /\ k.ix = j.ix
  BY ZenonT(60) DEF JobState, Creating

LEMMA SetWrite ==
  ASSUME NEW j \in JobState, NEW id \in Ids, NEW v \in Values, NEW l \in Pages \X (Nat \ {0})
  PROVE  LET k == Rewriting(j, id, v, l)
         IN  /\ k \in JobState /\ k.op = "write" /\ k.id = id /\ k.val = v /\ k.src = l
             /\ k.com = j.com /\ k.ret = j.ret /\ k.ix = j.ix
  BY ZenonT(60) DEF JobState, Rewriting

LEMMA CreateInv ==
  ASSUME Inv, NEW id \in Ids, NEW v \in Values, osal_nv_item_init(id, v)
  PROVE  Inv'
  <1>1. pc = "idle" /\ StartInitItem(Creating(NoJob, id, v))
    BY DEF osal_nv_item_init, Creating
  <1>2. PICK j : j = Creating(NoJob, id, v)
    OBVIOUS
  <1>3. /\ j \in JobState /\ j.op = "create" /\ j.id = id /\ j.val = v
        /\ j.com = Null /\ j.ret = "idle" /\ j.ix = 1
    BY <1>2, NoJobIs, SetCreate
  <1> QED BY <1>1, <1>2, <1>3, StartInv

LEMMA WriteInv ==
  ASSUME Inv, NEW id \in Ids, NEW v \in Values, osal_nv_write(id, v)
  PROVE  Inv'
  <1>1. PICK l : l = findItem(id)
    OBVIOUS
  <1>2. pc = "idle" /\ l # Null /\ StartInitItem(Rewriting(NoJob, id, v, l))
    BY <1>1 DEF osal_nv_write, Rewriting
  <1>3. Shape /\ IdleOK
    BY <1>2 DEF Inv, Control
  <1>4. /\ l \in Pages \X (Nat \ {0}) /\ l[1] \in Pages
        /\ l[2] \in 1 .. Len(Items(l[1])) /\ Item(l[1], l[2]).id = id
    BY <1>1, <1>2, <1>3, FoundItem
  <1>5. l[1] # pgRes
    <2>1. flash[pgRes] = ErasedPage
      BY <1>3 DEF IdleOK, Ready, Empty
    <2>2. Len(Items(pgRes)) = 0
      BY <2>1, EmptyWords
    <2>3. 1 .. 0 = {}
      OBVIOUS
    <2> QED BY <1>4, <2>2, <2>3
  <1>6. PICK j : j = Rewriting(NoJob, id, v, l)
    OBVIOUS
  <1>7. /\ j \in JobState /\ j.op = "write" /\ j.id = id /\ j.val = v /\ j.src = l
        /\ j.com = Null /\ j.ret = "idle" /\ j.ix = 1
    BY <1>4, <1>6, NoJobIs, SetWrite
  <1>8. j.src # Null
    BY <1>2, <1>7
  <1>9. /\ j.src[1] # pgRes /\ j.src[2] \in 1 .. Len(Items(j.src[1]))
        /\ Item(j.src[1], j.src[2]).id = j.id
    BY <1>4, <1>5, <1>7
  <1> QED BY <1>2, <1>6, <1>7, <1>8, <1>9, StartInv

LEMMA ReopenInv ==
  ASSUME Inv, NEW id, Reopen(id)
  PROVE  Inv'
  <1>1. Shape /\ IdleOK
    BY DEF Inv, Control, Reopen
  <1>2. /\ hot' = hotItemUpdate(id, findItem(id)) /\ flash' = flash /\ pgOff' = pgOff
        /\ pgLost' = pgLost /\ pgRes' = pgRes /\ pc' = pc /\ job' = job /\ faults' = faults
        /\ pc = "idle"
    BY DEF Reopen
  <1>3. Keeps(flash', Null) /\ SameRam
    BY <1>1, <1>2, StaysKept DEF SameRam
  <1>4. DOMAIN hot' = HotIds
    BY <1>1, <1>2, HotDomain
  <1>5. Shape'
    BY <1>1, <1>2, <1>3, <1>4, KeepsShape DEF Shape
  <1>6. IdleOK'
    <2>1. Ready /\ job = NoJob /\ pgRes \in Pages
      BY <1>1 DEF IdleOK, Ready, InUse
    <2>2. Null # pgRes
      BY <2>1, NvAssumption
    <2>3. Ready'
      BY <1>1, <1>3, <2>1, <2>2, KeepsRoom
    <2> QED BY <1>2, <2>1, <2>3 DEF IdleOK
  <1> QED BY <1>2, <1>5, <1>6 DEF Inv, Control, Steps

\* An item is zeroed: its words are lost, not freed.
LEMMA ZeroRoom ==
  ASSUME Shape, NEW p \in Pages, NEW i \in 1 .. Len(Items(p)), Item(p, i).id \in Ids,
         flash' = ZeroItem(p, i), pgOff' = pgOff,
         pgLost' = [pgLost EXCEPT ![p] = @ + Item(p, i).size],
         RoomOn(p) \/ pgLost[p] <= N(p)
  PROVE  /\ flash' \in [Pages -> PageState] /\ pgLost' \in [Pages -> 0 .. PageCap]
         /\ \A q \in Pages : flash'[q].active = flash[q].active
         /\ \A q \in Pages \ {p} : flash'[q] = flash[q]
         /\ \A q \in Pages : SizedItems(Items(q)') /\ U(q)' <= PageCap /\ U(q)' = U(q)
         /\ \A q \in Pages : RoomOn(q) => RoomOn(q)'
         /\ \A q \in Pages : pgLost[q] <= N(q) => pgLost'[q] <= N(q)'
         /\ \A q \in Pages : Len(Items(q)') = Len(Items(q))
         /\ \A n \in 0 .. Len(Items(p)) :
              WordsTo(Items(p)', {Null}, n) = WordsTo(Items(p), {Null}, n)
                                              + IF n >= i THEN Item(p, i).size ELSE 0
  <1> DEFINE sz == Item(p, i).size
  <1>1. /\ flash' \in [Pages -> PageState]
        /\ \A q \in Pages : flash'[q].active = flash[q].active
        /\ \A q \in Pages \ {p} : flash'[q] = flash[q]
        /\ sz \in 1 .. PageCap
        /\ U(p)' = U(p) /\ L(p)' + sz = L(p) /\ N(p)' = N(p) + sz
        /\ Len(Items(p)') = Len(Items(p)) /\ L(p)' \in Nat
        /\ \A n \in 0 .. Len(Items(p)) :
             WordsTo(Items(p)', {Null}, n) = WordsTo(Items(p), {Null}, n)
                                             + IF n >= i THEN sz ELSE 0
        /\ SizedItems(Items(p)) => SizedItems(Items(p)')
    BY ItemZeroed DEF Shape
  <1>2. /\ U(p) \in Nat /\ L(p) \in Nat /\ N(p) \in Nat /\ U(p) = L(p) + N(p)
        /\ U(p) <= PageCap /\ SizedItems(Items(p)) /\ PageCap \in Nat
        /\ pgOff[p] \in Nat /\ pgOff[p] <= PageCap /\ pgLost[p] \in Nat
    BY Rooms
  <1> HIDE DEF sz
  <1>3. sz \in Nat
    BY <1>1, <1>2
  <1>4. pgLost' = [pgLost EXCEPT ![p] = pgLost[p] + sz]
    BY DEF sz
  <1>5. pgLost'[p] = pgLost[p] + sz /\ \A q \in Pages \ {p} : pgLost'[q] = pgLost[q]
    BY <1>4 DEF Shape
  <1>6. RoomOn(p) => RoomOn(p)'
    <2>0. L(p)' + sz = L(p) /\ L(p)' \in Nat
      BY <1>1
    <2>2. \A o, w, k, l \in Nat : w <= o - (l + k) => w + k <= o - l
      OBVIOUS
    <2>1. pgLost[p] <= pgOff[p] - L(p) => pgLost[p] + sz <= pgOff[p] - L(p)'
      BY <1>2, <1>3, <2>0, <2>2
    <2> QED BY <1>1, <1>5, <2>1 DEF RoomOn
  <1>7. pgLost[p] <= N(p) => pgLost'[p] <= N(p)'
    BY <1>1, <1>2, <1>3, <1>5
  <1>8. pgLost[p] + sz \in 0 .. PageCap
    <2>1. CASE RoomOn(p)
      <3>1. pgLost[p] <= pgOff[p] - L(p)
        BY <2>1 DEF RoomOn
      <3>2. L(p)' + sz = L(p) /\ L(p)' \in Nat
        BY <1>1
      <3>3. \A c, o, w, k, l \in Nat : w <= o - (l + k) /\ o <= c => w + k \in 0 .. c
        OBVIOUS
      <3> QED BY <1>2, <1>3, <3>1, <3>2, <3>3
    <2>2. CASE pgLost[p] <= N(p)
      BY <1>1, <1>2, <1>3, <2>2
    <2> QED BY <2>1, <2>2
  <1>9. pgLost' \in [Pages -> 0 .. PageCap]
    BY <1>4, <1>8 DEF Shape
  <1>10. \A q \in Pages \ {p} : /\ Items(q)' = Items(q) /\ U(q)' = U(q) /\ L(q)' = L(q)
                                /\ N(q)' = N(q)
    BY <1>1, SamePage
  <1>11. \A q \in Pages : SizedItems(Items(q)') /\ U(q)' <= PageCap /\ U(q)' = U(q)
    BY <1>1, <1>2, <1>10, Rooms
  <1>12. \A q \in Pages \ {p} : RoomOn(q) => RoomOn(q)'
    BY <1>5, <1>10 DEF RoomOn
  <1>13. \A q \in Pages \ {p} : pgLost[q] <= N(q) => pgLost'[q] <= N(q)'
    BY <1>5, <1>10
  <1>14. \A q \in Pages : Len(Items(q)') = Len(Items(q))
    BY <1>1, <1>10
  <1> QED BY <1>1, <1>6, <1>7, <1>9, <1>11, <1>12, <1>13, <1>14 DEF sz

\* Between calls, or at the end of one: the copy at l is zeroed.
LEMMA ZeroReady ==
  ASSUME Shape, Ready, NEW l, l[1] \in Pages, l[2] \in 1 .. Len(Items(l[1])),
         Item(l[1], l[2]).id \in Ids, l[1] # pgRes, ZeroAt(l), job' \in JobState
  PROVE  Shape' /\ Ready'
  <1>1. PICK p \in Pages : p = l[1]
    OBVIOUS
  <1>9. PICK i : i = l[2]
    OBVIOUS
  <1>2. i \in 1 .. Len(Items(p)) /\ Item(p, i).id \in Ids /\ p # pgRes
    BY <1>1, <1>9
  <1>3. /\ flash' = ZeroItem(p, i) /\ pgLost' = [pgLost EXCEPT ![p] = @ + Item(p, i).size]
        /\ pgOff' = pgOff /\ pgRes' = pgRes /\ hot' = hot /\ faults' = faults
    BY <1>1, <1>9 DEF ZeroAt
  <1>4. InUse /\ Empty(pgRes) /\ \A q \in Pages : RoomOn(q)
    BY DEF Ready, InUse
  <1>5. /\ flash' \in [Pages -> PageState] /\ pgLost' \in [Pages -> 0 .. PageCap]
        /\ \A q \in Pages : flash'[q].active = flash[q].active
        /\ \A q \in Pages \ {p} : flash'[q] = flash[q]
        /\ \A q \in Pages : SizedItems(Items(q)') /\ U(q)' <= PageCap
        /\ \A q \in Pages : RoomOn(q) => RoomOn(q)'
    BY <1>2, <1>3, <1>4, ZeroRoom
  <1>6. Shape'
    BY <1>3, <1>5 DEF Shape
  <1>7. InUse'
    BY <1>3, <1>4, <1>5 DEF InUse, OthersActive
  <1>8. Empty(pgRes)'
    <2>1. \A q \in Pages \ {p} : pgLost'[q] = pgLost[q]
      BY <1>3 DEF Shape
    <2> QED BY <1>2, <1>3, <1>4, <1>5, <2>1 DEF Empty, InUse
  <1> QED BY <1>6, <1>7, <1>8 DEF Ready

LEMMA DeleteInv ==
  ASSUME Inv, NEW id \in Ids, osal_nv_delete(id)
  PROVE  Inv'
  <1>1. Shape /\ IdleOK
    BY DEF Inv, Control, osal_nv_delete
  <1>2. PICK l : l = findItem(id)
    OBVIOUS
  <1>3. l # Null /\ ZeroAt(l) /\ pc = "idle" /\ pc' = pc /\ job' = job
    BY <1>2 DEF osal_nv_delete
  <1>4. /\ l[1] \in Pages /\ l[2] \in 1 .. Len(Items(l[1])) /\ Item(l[1], l[2]).id = id
    BY <1>1, <1>2, <1>3, FoundItem
  <1>5. Ready /\ job = NoJob
    BY <1>1 DEF IdleOK
  <1>6. l[1] # pgRes
    <2>1. flash[pgRes] = ErasedPage
      BY <1>5 DEF Ready, Empty
    <2>2. Len(Items(pgRes)) = 0
      BY <2>1, EmptyWords
    <2>3. 1 .. 0 = {}
      OBVIOUS
    <2> QED BY <1>4, <2>2, <2>3
  <1>7. Shape' /\ Ready'
    BY <1>1, <1>3, <1>4, <1>5, <1>6, ZeroReady DEF Shape
  <1>8. IdleOK'
    BY <1>3, <1>5, <1>7 DEF IdleOK
  <1> QED BY <1>3, <1>7, <1>8 DEF Inv, Control, Steps

LEMMA ZeroOldInv ==
  ASSUME Inv, ZeroOld
  PROVE  Inv'
  <1>1. Shape /\ ZeroOK
    BY DEF Inv, Control, ZeroOld
  <1>2. ZeroAt(job.src) /\ pc' = "idle" /\ job' = NoJob
    BY DEF ZeroOld, Return
  <1>3. /\ Ready /\ job.id \in Ids /\ job.src # Null /\ job.src[1] # pgRes
        /\ job.src[2] \in 1 .. Len(Items(job.src[1]))
        /\ Item(job.src[1], job.src[2]).id = job.id
    BY <1>1 DEF ZeroOK, Source
  <1>4. PICK l : l = job.src
    OBVIOUS
  <1>5. l[1] \in Pages
    BY <1>1, <1>3, <1>4, JobFields DEF Shape
  <1>6. Shape' /\ Ready'
    BY <1>1, <1>2, <1>3, <1>4, <1>5, NoJobIs, ZeroReady
  <1>7. IdleOK'
    BY <1>2, <1>6 DEF IdleOK
  <1> QED BY <1>2, <1>6, <1>7 DEF Inv, Control, Steps

-----------------------------------------------------------------------------
(* The cleanup: the reserve page is put in use, the compacted page erased. *)

LEMMA UseReserveInv ==
  ASSUME Inv, UseReserve
  PROVE  Inv'
  <1>1. Shape /\ UseOK
    BY DEF Inv, Control, UseReserve
  <1> DEFINE back == IF job.op = "boot" THEN "initPages"
                     ELSE IF job.op = "write" /\ job.ok /\ job.src[1] # job.com THEN "zero"
                     ELSE "idle"
  <1>2. /\ flash' = [flash EXCEPT ![pgRes].active = TRUE] /\ pc' = "erase"
        /\ job' = ErasingAt(job, job.com, back)
        /\ pgOff' = pgOff /\ pgLost' = pgLost /\ pgRes' = pgRes /\ hot' = hot /\ faults' = faults
    BY DEF UseReserve, setPageUse, ThenErase, Goto, ErasingAt, ram
  <1>3. /\ pgRes \in Pages /\ OthersActive(pgRes) /\ job.ret = "idle"
        /\ job.pg \in Pages /\ job.pg # pgRes /\ job.com = job.pg
        /\ (Call_ /\ InUse) \/ Boot_
    BY <1>1 DEF UseOK
  <1>4. /\ flash' \in [Pages -> PageState] /\ flash'[pgRes].active = TRUE
        /\ \A q \in Pages \ {pgRes} : flash'[q] = flash[q]
        /\ \A q \in Pages : flash'[q].items = Items(q)
    BY <1>1, <1>2, <1>3, HeaderWords DEF Shape
  <1>5. \A q \in Pages : Items(q)' = Items(q) /\ U(q)' = U(q) /\ L(q)' = L(q)
    BY <1>4 DEF Items, U, L
  <1>6. back \in Returns /\ job.com \in Pages /\ job \in JobState
    BY <1>1, <1>3 DEF Returns, Shape
  <1>7. /\ job' \in JobState /\ job'.er = job.com /\ job'.ret = back
        /\ job'.op = job.op /\ job'.id = job.id /\ job'.src = job.src
        /\ job'.ip = job.ip /\ job'.ii = job.ii /\ job'.lost = job.lost /\ job'.dups = job.dups
    <2> HIDE DEF back
    <2> QED BY <1>2, <1>6, SetErase
  <1>8. Shape'
    BY <1>1, <1>2, <1>4, <1>5, <1>7 DEF Shape
  <1>9. OthersActive(job.er)'
    BY <1>3, <1>4, <1>7 DEF OthersActive
  <1>10. job'.ret \in {"idle", "zero"} => \A q \in Pages \ {job'.er} : RoomOn(q)'
    <2> SUFFICES ASSUME job'.ret \in {"idle", "zero"}, NEW q \in Pages PROVE RoomOn(q)'
      OBVIOUS
    <2>1. job.op # "boot"
      BY <1>7
    <2>2. RoomOn(q)
      BY <1>3, <2>1 DEF InUse, Boot_
    <2> QED BY <1>2, <1>5, <2>2 DEF RoomOn
  <1>11. job'.ret = "zero" => job'.op = "write" /\ job'.id \in Ids /\ Source(job.er)'
    <2> SUFFICES ASSUME job'.ret = "zero"
                 PROVE  job'.op = "write" /\ job'.id \in Ids /\ Source(job.er)'
      OBVIOUS
    <2>1. job.op = "write" /\ job.src[1] # job.com
      BY <1>7
    <2>2. job.id \in Ids /\ Source(pgRes)
      BY <1>3, <2>1 DEF Call_, Boot_
    <2>3. job.src \in (Pages \X (Nat \ {0})) \cup {Null} /\ job.src # Null
      BY <1>1, <2>2, JobFields DEF Shape, Source
    <2>4. flash'[job.src[1]].items = flash[job.src[1]].items
      BY <1>4, <2>3 DEF Items
    <2>5. Source(job.er)'
      BY <1>7, <2>1, <2>2, <2>4 DEF Source, Item, Items
    <2> QED BY <1>7, <2>1, <2>2, <2>5
  <1>12. job'.ret = "initPages" => /\ \A q \in Pages \ {job'.er} : pgLost'[q] = 0
                                   /\ job'.ip = 1 /\ job'.ii = 1 /\ job'.lost = 0
                                   /\ job'.dups = "no"
    <2> SUFFICES ASSUME job'.ret = "initPages"
                 PROVE  /\ \A q \in Pages : pgLost'[q] = 0
                        /\ job'.ip = 1 /\ job'.ii = 1 /\ job'.lost = 0 /\ job'.dups = "no"
      OBVIOUS
    <2>1. job.op = "boot"
      BY <1>7
    <2>2. Boot_
      BY <1>3, <2>1 DEF Call_
    <2> QED BY <1>2, <1>7, <2>2 DEF Boot_
  <1>13. job'.ret # "compact"
    BY <1>7
  <1>14. EraseOK'
    BY <1>6, <1>7, <1>9, <1>10, <1>11, <1>12, <1>13 DEF EraseOK
  <1> QED BY <1>2, <1>8, <1>14 DEF Inv, Control, Steps

LEMMA EraseInv ==
  ASSUME Inv, Erase
  PROVE  Inv'
  <1>1. Shape /\ EraseOK
    BY DEF Inv, Control, Erase
  <1>2. PICK p \in Pages : p = job.er
    BY <1>1 DEF EraseOK
  <1>3. /\ flash' = [flash EXCEPT ![p] = ErasedPage]
        /\ pgOff' = [pgOff EXCEPT ![p] = 0] /\ pgLost' = [pgLost EXCEPT ![p] = 0]
        /\ pgRes' = p /\ hot' = hot /\ faults' = faults
        /\ IF job.ret = "idle" THEN pc' = "idle" /\ job' = NoJob
           ELSE pc' = job.ret /\ job' = Erased(job)
    BY <1>2 DEF Erase, Return, Goto, Erased
  <1>4. /\ flash' \in [Pages -> PageState] /\ flash'[p] = ErasedPage
        /\ \A q \in Pages \ {p} : flash'[q] = flash[q]
        /\ Len(Items(p)') = 0 /\ U(p)' = 0 /\ L(p)' = 0 /\ N(p)' = 0
        /\ SizedItems(Items(p)')
    BY <1>1, <1>3, ErasedWords DEF Shape
  <1>5. \A q \in Pages \ {p} : /\ Items(q)' = Items(q) /\ U(q)' = U(q) /\ L(q)' = L(q)
                               /\ N(q)' = N(q)
    BY <1>4, SamePage
  <1>6. /\ PageCap \in Nat /\ job \in JobState
        /\ pgOff \in [Pages -> 0 .. PageCap] /\ pgLost \in [Pages -> 0 .. PageCap]
    BY <1>1, NvAssumption DEF Shape
  <1>7. /\ pgOff' \in [Pages -> 0 .. PageCap] /\ pgLost' \in [Pages -> 0 .. PageCap]
        /\ pgOff'[p] = 0 /\ pgLost'[p] = 0
        /\ \A q \in Pages \ {p} : pgOff'[q] = pgOff[q] /\ pgLost'[q] = pgLost[q]
    BY <1>3, <1>6
  <1>8. \A q \in Pages : SizedItems(Items(q)') /\ U(q)' <= PageCap
    <2>1. \A q \in Pages \ {p} : SizedItems(Items(q)') /\ U(q)' <= PageCap
      <3>1. \A q \in Pages : SizedItems(Items(q)) /\ U(q) <= PageCap
        BY <1>1, Rooms
      <3> QED BY <1>5, <3>1
    <2>2. U(p)' <= PageCap
      BY <1>4, <1>6
    <2> QED BY <1>4, <2>1, <2>2
  <1>9. job' \in JobState => Shape'
    BY <1>1, <1>3, <1>4, <1>7, <1>8 DEF Shape
  <1>10. OthersActive(pgRes)'
    BY <1>1, <1>2, <1>3, <1>4 DEF EraseOK, OthersActive
  <1>11. RoomOn(p)' /\ Empty(pgRes)' /\ RoomOn(pgRes)'
    BY <1>3, <1>4, <1>7 DEF RoomOn, Empty, U, L, Items
  <1>12. job.ret \in {"idle", "zero"} => Ready'
    <2> SUFFICES ASSUME job.ret \in {"idle", "zero"} PROVE Ready'
      OBVIOUS
    <2>1. \A q \in Pages \ {p} : RoomOn(q)
      BY <1>1, <1>2 DEF EraseOK
    <2>2. \A q \in Pages \ {p} : RoomOn(q)'
      BY <1>5, <1>7, <2>1 DEF RoomOn
    <2> QED BY <1>3, <1>10, <1>11, <2>2 DEF Ready, InUse
  <1>13. CASE job.ret = "idle"
    <2>1. pc' = "idle" /\ job' = NoJob
      BY <1>3, <1>13
    <2>2. IdleOK'
      BY <1>12, <1>13, <2>1 DEF IdleOK
    <2> QED BY <1>9, <2>1, <2>2, NoJobIs DEF Inv, Control, Steps
  <1>14. job.ret # "idle" =>
           /\ pc' = job.ret /\ job' \in JobState /\ job'.ret = "idle"
           /\ job'.op = job.op /\ job'.id = job.id /\ job'.src = job.src /\ job'.pg = job.pg
           /\ job'.ix = job.ix /\ job'.com = job.com
           /\ job'.ip = job.ip /\ job'.ii = job.ii /\ job'.lost = job.lost
           /\ job'.dups = job.dups
    BY <1>3, <1>6, EndErase
  <1>15. CASE job.ret = "zero"
    <2>1. job.op = "write" /\ job.id \in Ids /\ Source(p)
      BY <1>1, <1>2, <1>15 DEF EraseOK
    <2>2. job.src \in (Pages \X (Nat \ {0})) \cup {Null} /\ job.src # Null /\ job.src[1] # p
      BY <1>6, <2>1, JobFields DEF Source
    <2>3. flash'[job.src[1]] = flash[job.src[1]]
      BY <1>4, <2>2
    <2>4. job'.src = job.src /\ job'.id = job.id /\ job'.op = job.op
      BY <1>14, <1>15
    <2>5. Source(pgRes)'
      BY <1>3, <2>1, <2>3, <2>4 DEF Source, Item, Items
    <2>6. ZeroOK'
      BY <1>12, <1>15, <2>1, <2>4, <2>5 DEF ZeroOK
    <2> QED BY <1>9, <1>14, <1>15, <2>6 DEF Inv, Control, Steps
  <1>16. CASE job.ret = "compact"
    <2>1. /\ Boot_ /\ p = pgRes /\ job.ix = 1 /\ job.com = Null
          /\ job.pg \in Pages /\ job.pg # pgRes
      BY <1>1, <1>2, <1>16 DEF EraseOK
    <2>2. Boot_'
      BY <1>7, <1>14, <1>16, <2>1 DEF Boot_
    <2>3. job'.ix <= Len(Items(job.pg)') + 1
      <3>1. Items(job.pg)' = Items(job.pg)
        BY <1>4, <1>14, <1>16, <2>1 DEF Items
      <3>2. Len(Items(job.pg)) \in Nat
        BY <1>1, <2>1, Rooms
      <3> QED BY <1>14, <1>16, <2>1, <3>1, <3>2
    <2>4. Copying'
      BY <1>3, <1>10, <1>11, <1>14, <1>16, <2>1, <2>2, <2>3 DEF Copying
    <2>5. Copied(job.ix - 1)' = 0
      <3>1. job'.ix - 1 = 0
        BY <1>14, <1>16, <2>1
      <3> QED BY <3>1, WordsStep DEF Copied
    <2>6. CompactOK'
      BY <1>3, <1>7, <2>4, <2>5 DEF CompactOK
    <2> QED BY <1>9, <1>14, <1>16, <2>6 DEF Inv, Control, Steps
  <1>17. CASE job.ret = "initPages"
    <2>1. /\ \A q \in Pages \ {p} : pgLost[q] = 0
          /\ job.ip = 1 /\ job.ii = 1 /\ job.lost = 0 /\ job.dups = "no"
      BY <1>1, <1>2, <1>17 DEF EraseOK
    <2>2. \A q \in Pages : pgLost'[q] <= N(q)'
      <3>1. \A q \in Pages : N(q) \in Nat
        BY <1>1, Rooms
      <3>2. \A q \in Pages \ {p} : pgLost'[q] <= N(q)'
        BY <1>5, <1>7, <2>1, <3>1
      <3>3. pgLost'[p] <= N(p)'
        BY <1>4, <1>7
      <3> QED BY <3>2, <3>3
    <2>3. Scanning'
      BY <1>3, <1>4, <1>10, <2>2 DEF Scanning
    <2>4. job'.ip = 1 /\ job'.ii = 1 /\ job'.lost = 0 /\ job'.dups = "no" /\ 1 \in Pages
      BY <1>14, <1>17, <2>1, NvAssumption DEF Pages
    <2>5. job'.ii <= Len(Items(job.ip)') + 1
      <3>1. \A q \in Pages : Len(Items(q)') \in Nat
        BY <1>1, <1>4, <1>5, Rooms
      <3>2. Len(Items(1)') \in Nat
        BY <2>4, <3>1
      <3>3. Items(job.ip)' = Items(1)'
        BY <2>4 DEF Items
      <3> QED BY <2>4, <3>2, <3>3
    <2>6. job'.lost <= WordsTo(Items(job.ip)', {Null}, job'.ii - 1)
      <3>1. job'.ii - 1 = 0
        BY <2>4
      <3> QED BY <2>4, <3>1, WordsStep
    <2>7. \A q \in Pages : ~(q < job'.ip \/ job'.dups = "final")
      BY <2>4 DEF Pages
    <2>8. ScanOK'
      BY <2>3, <2>4, <2>5, <2>6, <2>7 DEF ScanOK
    <2> QED BY <1>9, <1>14, <1>17, <2>8 DEF Inv, Control, Steps
  <1>18. job.ret \in Returns
    BY <1>6, JobFields
  <1> QED BY <1>13, <1>15, <1>16, <1>17, <1>18 DEF Returns

-----------------------------------------------------------------------------
(* The recovery at power-up.                                               *)

LEMMA BootScanInv ==
  ASSUME Inv, BootScan
  PROVE  Inv'
  <1>1. Shape /\ BootOK
    BY DEF Inv, Control, BootScan
  <1>2. /\ job.op = "boot" /\ job.id = Null /\ job.ii = 1 /\ job.lost = 0 /\ job.dups = "no"
        /\ job.ix = 1 /\ job.com = Null
        /\ \A p \in Pages : pgOff[p] = 0 /\ pgLost[p] = 0
        /\ pgRes # Null => pgRes < job.ip
        /\ job.pg # Null => job.pg < job.ip /\ job.pg # pgRes
        /\ \A p \in Pages \ {pgRes} : p < job.ip => flash[p].active
    BY <1>1 DEF BootOK
  <1>3. PICK p \in Pages : p = job.ip /\ p \in Nat /\ job \in JobState
    BY <1>1, JobFields DEF Shape, BootScan, Pages
  <1>4. /\ pc = "boot" /\ pc' = "boot" /\ pgOff' = pgOff /\ pgLost' = pgLost
        /\ hot' = hot /\ faults' = faults
    BY DEF BootScan
  <1>5. PICK n : n = [job EXCEPT !.ip = p + 1]
    OBVIOUS
  <1>6. /\ n \in JobState /\ n.ip = p + 1
        /\ n.op = job.op /\ n.id = job.id /\ n.pg = job.pg /\ n.ix = job.ix /\ n.com = job.com
        /\ n.ii = job.ii /\ n.lost = job.lost /\ n.dups = job.dups
    <2>1. p + 1 \in Nat \ {0}
      BY <1>3
    <2> QED BY <1>3, <1>5, <2>1, SetIp
  <1>7. \/ ~flash[p].active /\ pgRes = Null /\ pgRes' = p /\ job' = n /\ flash' = flash
        \/ ~flash[p].active /\ pgRes # Null /\ flash' = setPageUse(p) /\ job' = n /\ pgRes' = pgRes
        \/ /\ flash[p].active /\ flash' = flash /\ pgRes' = pgRes
           /\ job' = n \/ job' = [n EXCEPT !.pg = p]
    BY <1>3, <1>5 DEF BootScan
  <1>8. /\ flash' \in [Pages -> PageState]
        /\ \A q \in Pages : flash'[q].items = Items(q)
        /\ \A q \in Pages : flash[q].active => flash'[q].active
    <2>1. CASE flash' = flash
      BY <1>1, <2>1 DEF Shape, Items
    <2>2. CASE flash' = [flash EXCEPT ![p].active = TRUE]
      BY <1>1, <2>2, HeaderWords DEF Shape
    <2> QED BY <1>7, <2>1, <2>2 DEF setPageUse
  <1>9. \A q \in Pages : SizedItems(Items(q)') /\ U(q)' <= PageCap
    BY <1>1, <1>8 DEF Shape, Items, U
  <1>10. job' \in JobState => Shape'
    BY <1>1, <1>3, <1>4, <1>7, <1>8, <1>9 DEF Shape
  <1>11. \A q \in Pages : q < p + 1 => q < p \/ q = p
    BY <1>3 DEF Pages
  <1>12. pgRes # Null => pgRes < p /\ pgRes # p /\ pgRes < p + 1
    BY <1>1, <1>2, <1>3 DEF Shape, Pages
  <1>13. job.pg # Null => job.pg < p /\ job.pg # p /\ job.pg < p + 1
    BY <1>2, <1>3, JobFields DEF Pages
  <1>14. p # Null /\ p < p + 1
    BY <1>3, NvAssumption
  <1>15. CASE ~flash[p].active /\ pgRes = Null /\ pgRes' = p /\ job' = n /\ flash' = flash
    <2>1. \A q \in Pages \ {p} : q < p + 1 => flash'[q].active
      <3>1. \A q \in Pages : q # Null
        BY NvAssumption
      <3> QED BY <1>2, <1>3, <1>11, <1>15, <3>1
    <2>2. BootOK'
      BY <1>2, <1>4, <1>6, <1>13, <1>14, <1>15, <2>1 DEF BootOK
    <2> QED BY <1>4, <1>6, <1>10, <1>15, <2>2 DEF Inv, Control, Steps
  <1>16. CASE pgRes # Null /\ flash' = setPageUse(p) /\ job' = n /\ pgRes' = pgRes
    <2>1. flash'[p].active
      BY <1>1, <1>16, HeaderWords DEF setPageUse, Shape
    <2>2. \A q \in Pages \ {pgRes} : q < p + 1 => flash'[q].active
      BY <1>2, <1>3, <1>8, <1>11, <2>1
    <2>3. BootOK'
      BY <1>2, <1>4, <1>6, <1>12, <1>13, <1>16, <2>2 DEF BootOK
    <2> QED BY <1>4, <1>6, <1>10, <1>16, <2>3 DEF Inv, Control, Steps
  <1>17. CASE /\ flash[p].active /\ flash' = flash /\ pgRes' = pgRes
              /\ job' = n \/ job' = [n EXCEPT !.pg = p]
    <2>1. \A q \in Pages \ {pgRes} : q < p + 1 => flash'[q].active
      BY <1>2, <1>3, <1>11, <1>17
    <2>2. /\ job' \in JobState /\ (job'.pg = p \/ job'.pg = job.pg) /\ job'.ip = p + 1
          /\ job'.op = job.op /\ job'.id = job.id /\ job'.ix = job.ix /\ job'.com = job.com
          /\ job'.ii = job.ii /\ job'.lost = job.lost /\ job'.dups = job.dups
      <3>1. CASE job' = n
        BY <1>6, <3>1
      <3>2. CASE job' = [n EXCEPT !.pg = p]
        BY <1>6, <3>2, SetPage
      <3> QED BY <1>17, <3>1, <3>2
    <2>3. p # pgRes
      BY <1>12, <1>14
    <2>4. job'.pg # Null => job'.pg < p + 1 /\ job'.pg # pgRes
      BY <1>2, <1>13, <1>14, <2>2, <2>3
    <2>5. BootOK'
      BY <1>2, <1>4, <1>12, <1>17, <2>1, <2>2, <2>4 DEF BootOK
    <2> QED BY <1>4, <1>10, <2>2, <2>5 DEF Inv, Control, Steps
  <1> QED BY <1>7, <1>15, <1>16, <1>17

\* The scan of the pages begins.
LEMMA ScanBegins ==
  ASSUME Shape, pgRes = Null, OthersActive(Null), \A p \in Pages : pgLost[p] = 0,
         flash' = flash, pgRes' = pgRes, pgLost' = pgLost,
         job'.ip = 1, job'.ii = 1, job'.lost = 0, job'.dups = "no"
  PROVE  ScanOK'
  <1>1. 1 \in Pages
    BY NvAssumption DEF Pages
  <1>2. \A p \in Pages : Len(Items(p)) \in Nat /\ N(p) \in Nat
    BY Rooms
  <1>3. ASSUME NEW p \in Pages PROVE pgLost'[p] <= N(p)'
    <2>1. N(p)' = N(p) /\ pgLost'[p] = 0
      BY SamePage
    <2>2. N(p) \in Nat
      BY <1>2
    <2> QED BY <2>1, <2>2
  <1>4. Scanning'
    BY <1>3 DEF Scanning, OthersActive
  <1>5. job'.ii <= Len(Items(job.ip)') + 1
    BY <1>1, <1>2 DEF Items
  <1>6. job'.lost <= WordsTo(Items(job.ip)', {Null}, job'.ii - 1)
    <2>1. job'.ii - 1 = 0
      OBVIOUS
    <2> QED BY <2>1, WordsStep
  <1>7. \A p \in Pages : ~(p < job'.ip \/ job'.dups = "final")
    BY DEF Pages
  <1> QED BY <1>1, <1>4, <1>5, <1>6, <1>7 DEF ScanOK

LEMMA BootSettleInv ==
  ASSUME Inv, BootSettle
  PROVE  Inv'
  <1>1. Shape /\ BootOK
    BY DEF Inv, Control, BootSettle
  <1>2. /\ job.op = "boot" /\ job.id = Null /\ job.ii = 1 /\ job.lost = 0 /\ job.dups = "no"
        /\ job.ix = 1 /\ job.com = Null
        /\ \A p \in Pages : pgOff[p] = 0 /\ pgLost[p] = 0
        /\ job.pg # Null => job.pg < job.ip /\ job.pg # pgRes
        /\ \A p \in Pages \ {pgRes} : p < job.ip => flash[p].active
        /\ job \in JobState
    BY <1>1 DEF BootOK, Shape
  <1>3. PICK j : j = [job EXCEPT !.ip = 1]
    OBVIOUS
  <1>4. /\ j \in JobState /\ j.ip = 1 /\ j.ret = job.ret
        /\ j.op = job.op /\ j.id = job.id /\ j.pg = job.pg /\ j.ix = job.ix /\ j.com = job.com
        /\ j.ii = job.ii /\ j.lost = job.lost /\ j.dups = job.dups
    <2>1. 1 \in Nat \ {0}
      OBVIOUS
    <2> QED BY <1>2, <1>3, <2>1, SetIp
  <1>5. /\ flash' = flash /\ pgOff' = pgOff /\ pgLost' = pgLost /\ pgRes' = pgRes
        /\ hot' = hot /\ faults' = faults /\ job.ip > LastPage
    BY DEF BootSettle, ram
  <1>6. OthersActive(pgRes)
    <2>1. job.ip \in Nat
      BY <1>2, JobFields
    <2>2. \A p \in Pages : p < job.ip
      BY <1>5, <2>1, NvAssumption DEF Pages
    <2> QED BY <1>2, <2>2 DEF OthersActive
  <1>7. SameRam /\ Keeps(flash', Null)
    BY <1>1, <1>5, StaysKept DEF SameRam
  <1>8. job' \in JobState => Shape'
    BY <1>1, <1>5, <1>7, KeepsShape DEF Shape
  <1>9. job.pg \in Pages \cup {Null} /\ pgRes \in Pages \cup {Null}
    BY <1>1, <1>2, JobFields DEF Shape
  <1>10. CASE pgRes # Null /\ ThenErase(j, pgRes, IF job.pg # Null THEN "compact" ELSE "initPages")
    <2> DEFINE back == IF job.pg # Null THEN "compact" ELSE "initPages"
    <2>1. pc' = "erase" /\ job' = ErasingAt(j, pgRes, back)
      BY <1>10 DEF ThenErase, Goto, ErasingAt
    <2>2. back \in Returns /\ pgRes \in Pages
      BY <1>9, <1>10 DEF Returns
    <2>3. /\ job' \in JobState /\ job'.er = pgRes /\ job'.ret = back /\ job'.ip = 1
          /\ job'.op = job.op /\ job'.id = job.id /\ job'.pg = job.pg /\ job'.ix = job.ix
          /\ job'.com = job.com /\ job'.ii = job.ii /\ job'.lost = job.lost
          /\ job'.dups = job.dups
      <3> HIDE DEF back
      <3> QED BY <1>4, <2>1, <2>2, SetErase
    <2>4. OthersActive(job.er)'
      BY <1>5, <1>6, <2>3 DEF OthersActive
    <2>5. Boot_'
      BY <1>2, <1>5, <2>3 DEF Boot_
    <2>6. job'.ret = "compact" => job'.pg \in Pages /\ job'.pg # pgRes
      BY <1>2, <1>9, <2>3
    <2>7. EraseOK'
      BY <1>2, <1>5, <2>2, <2>3, <2>4, <2>5, <2>6 DEF EraseOK, Boot_
    <2> QED BY <1>8, <2>1, <2>3, <2>7 DEF Inv, Control, Steps
  <1>11. CASE pgRes = Null /\ job.pg # Null /\ ThenErase(j, job.pg, "initPages")
    <2>1. pc' = "erase" /\ job' = ErasingAt(j, job.pg, "initPages")
      BY <1>11 DEF ThenErase, Goto, ErasingAt
    <2>2. "initPages" \in Returns /\ job.pg \in Pages
      BY <1>9, <1>11 DEF Returns
    <2>3. /\ job' \in JobState /\ job'.er = job.pg /\ job'.ret = "initPages" /\ job'.ip = 1
          /\ job'.ii = job.ii /\ job'.lost = job.lost /\ job'.dups = job.dups
      BY <1>4, <2>1, <2>2, SetErase
    <2>4. OthersActive(job.er)'
      <3>1. \A q \in Pages : q # Null
        BY NvAssumption
      <3> QED BY <1>5, <1>6, <1>11, <2>3, <3>1 DEF OthersActive
    <2>5. EraseOK'
      BY <1>2, <1>5, <2>2, <2>3, <2>4 DEF EraseOK
    <2> QED BY <1>8, <2>1, <2>3, <2>5 DEF Inv, Control, Steps
  <1>12. CASE pgRes = Null /\ Goto("initPages", j)
    <2>1. pc' = "initPages" /\ job' = j
      BY <1>12 DEF Goto
    <2>2. ScanOK'
      BY <1>1, <1>2, <1>4, <1>5, <1>6, <1>12, <2>1, ScanBegins
    <2> QED BY <1>4, <1>8, <2>1, <2>2 DEF Inv, Control, Steps
  <1> QED BY <1>3, <1>10, <1>11, <1>12 DEF BootSettle

LEMMA NextPage ==
  ASSUME NEW j \in JobState, NEW i \in Nat \ {0}
  PROVE  LET k == ScanAt(j, i, 1, 0)
         IN  k \in JobState /\ k.ip = i /\ k.ii = 1 /\ k.lost = 0 /\ k.dups = j.dups
  <1>1. 1 \in Nat \ {0} /\ 0 \in Nat
    OBVIOUS
  <1> QED BY <1>1, SetScan

\* initPage is done with a page: the next page, the last pass, or the end.
LEMMA ToPageInv ==
  ASSUME Shape, Scanning', job.ip \in Pages, ToPage(job), \A p \in Pages : Len(Items(p)') \in Nat,
         \A p \in Pages : p <= job.ip \/ job.dups = "final" => pgOff'[p] = U(p)'
  PROVE  job' \in JobState /\ Control'
  <1>1. job \in JobState /\ job.ip \in Nat /\ job.ip <= LastPage
    BY NvAssumption DEF Shape, Pages
  <1>2. 1 \in Pages /\ 1 \in Nat \ {0} /\ 0 \in Nat
    BY NvAssumption DEF Pages
  <1>4. ASSUME pc' = "initPages", job' \in JobState, job'.ip \in Pages, job'.ii = 1, job'.lost = 0,
               \A p \in Pages : p < job'.ip \/ job'.dups = "final" => pgOff'[p] = U(p)'
        PROVE  Control'
    <2>1. PICK q \in Pages : q = job'.ip
      BY <1>4
    <2>2. job'.ii - 1 = 0 /\ job'.lost <= 0 /\ WordsTo(Items(q)', {Null}, 0) = 0
      BY <1>4, WordsStep
    <2>3. job'.ii <= Len(Items(q)') + 1
      BY <1>4
    <2>4. /\ job'.ii <= Len(Items(job.ip)') + 1
          /\ job'.lost <= WordsTo(Items(job.ip)', {Null}, job'.ii - 1)
      BY <1>4, <2>1, <2>2, <2>3 DEF Items
    <2>5. ScanOK'
      BY <1>4, <2>4 DEF ScanOK
    <2> QED BY <1>4, <2>5 DEF Control, Steps
  <1>5. CASE job.ip < LastPage
    <2>1. pc' = "initPages" /\ job' = ScanAt(job, job.ip + 1, 1, 0)
      BY <1>5 DEF ToPage, Goto, ScanAt
    <2>2. job.ip + 1 \in Nat \ {0} /\ job.ip + 1 \in Pages
      BY <1>1, <1>5, NvAssumption DEF Pages
    <2>3. /\ job' \in JobState /\ job'.ip = job.ip + 1 /\ job'.ii = 1 /\ job'.lost = 0
          /\ job'.dups = job.dups
      <3>1. PICK i \in Nat \ {0} : i = job.ip + 1
        BY <2>2
      <3>2. job' = ScanAt(job, i, 1, 0)
        BY <2>1, <3>1
      <3> QED BY <1>1, <3>1, <3>2, NextPage
    <2>4. \A p \in Pages : p < job'.ip => p <= job.ip
      BY <1>1, <2>3 DEF Pages
    <2>5. Control'
      BY <1>4, <2>1, <2>2, <2>3, <2>4
    <2> QED BY <2>3, <2>5
  <1>6. CASE ~(job.ip < LastPage) /\ job.dups = "yes"
    <2>1. pc' = "initPages" /\ job' = PassAt(job, 1, 1, 0, "final")
      BY <1>6 DEF ToPage, Goto, PassAt
    <2>2. job' \in JobState /\ job'.ip = 1 /\ job'.ii = 1 /\ job'.lost = 0
      BY SMTT(30), <1>1, <1>2, <2>1, SetPass
    <2>3. \A p \in Pages : p <= job.ip
      BY <1>1, <1>6, NvAssumption DEF Pages
    <2>4. Control'
      BY <1>2, <1>4, <2>1, <2>2, <2>3
    <2> QED BY <2>2, <2>4
  <1>7. CASE ~(job.ip < LastPage) /\ job.dups # "yes"
    <2>1. pc' = "pickRes" /\ job' = job
      BY <1>7 DEF ToPage, Goto
    <2>2. \A p \in Pages : p <= job.ip
      BY <1>1, <1>7, NvAssumption DEF Pages
    <2>3. PickOK'
      BY <2>2 DEF PickOK
    <2> QED BY <1>1, <2>1, <2>3 DEF Control, Steps
  <1> QED BY <1>5, <1>6, <1>7

LEMMA ScanEndInv ==
  ASSUME Inv, ScanEnd
  PROVE  Inv'
  <1>1. Shape /\ ScanOK
    BY DEF Inv, Control, ScanEnd
  <1>2. PICK p \in Pages : p = job.ip
    BY <1>1 DEF ScanOK
  <1>3. /\ Items(p) \in Seq(ItemState) /\ Len(Items(p)) \in Nat
        /\ U(p) \in Nat /\ N(p) \in Nat /\ U(p) <= PageCap /\ U(p) = L(p) + N(p) /\ L(p) \in Nat
        /\ PageCap \in Nat
    BY <1>1, Rooms
  <1>4. job \in JobState /\ job.ii \in Nat /\ job.lost \in Nat
    BY <1>1, JobFields DEF Shape
  <1>5. job.ii - 1 = Len(Items(p))
    <2>1. job.ii > Len(Items(p)) /\ job.ii <= Len(Items(p)) + 1
      BY <1>1, <1>2 DEF ScanEnd, ScanOK, Items
    <2>2. Len(Items(p)) \in Nat /\ job.ii \in Nat
      BY <1>3, <1>4
    <2> QED BY <2>1, <2>2
  <1>6. job.lost <= N(p)
    BY <1>1, <1>2, <1>5 DEF ScanOK, N, Words
  <1>7. /\ flash' = flash /\ pgRes' = pgRes /\ hot' = hot /\ faults' = faults
        /\ pgOff' = [pgOff EXCEPT ![p] = U(p)] /\ pgLost' = [pgLost EXCEPT ![p] = job.lost]
    BY <1>2 DEF ScanEnd, U, Items, Used
  <1>8. pgOff \in [Pages -> 0 .. PageCap] /\ pgLost \in [Pages -> 0 .. PageCap]
    BY <1>1 DEF Shape
  <1>9. U(p) \in 0 .. PageCap /\ job.lost \in 0 .. PageCap
    BY <1>3, <1>4, <1>6
  <1>10. /\ pgOff' \in [Pages -> 0 .. PageCap] /\ pgLost' \in [Pages -> 0 .. PageCap]
         /\ pgOff'[p] = U(p) /\ pgLost'[p] = job.lost
         /\ \A q \in Pages \ {p} : pgOff'[q] = pgOff[q] /\ pgLost'[q] = pgLost[q]
    BY <1>7, <1>8, <1>9
  <1>11. \A q \in Pages : /\ U(q)' = U(q) /\ N(q)' = N(q) /\ Items(q)' = Items(q)
    BY <1>7, SamePage
  <1>12. Scanning'
    <2>1. \A q \in Pages : pgLost'[q] <= N(q)'
      BY <1>1, <1>6, <1>10, <1>11 DEF ScanOK, Scanning
    <2> QED BY <1>1, <1>7, <2>1 DEF ScanOK, Scanning, OthersActive
  <1>13. \A q \in Pages : Len(Items(q)') \in Nat
    BY <1>1, <1>11, Rooms
  <1>14. \A q \in Pages : q <= job.ip \/ job.dups = "final" => pgOff'[q] = U(q)'
    <2>1. pgOff'[p] = U(p)'
      BY <1>10, <1>11
    <2>2. \A q \in Pages \ {p} : q <= job.ip => q < job.ip
      BY <1>2 DEF Pages
    <2>3. ASSUME NEW q \in Pages \ {p}, q <= job.ip \/ job.dups = "final"
          PROVE  pgOff'[q] = U(q)'
      BY <1>1, <1>10, <1>11, <2>2, <2>3 DEF ScanOK
    <2> QED BY <2>1, <2>3
  <1>15. job' \in JobState /\ Control'
    <2>1. ToPage(job) /\ job.ip \in Pages
      BY <1>2 DEF ScanEnd
    <2> QED BY <1>1, <1>12, <1>13, <1>14, <2>1, ToPageInv
  <1>16. \A q \in Pages : SizedItems(Items(q)') /\ U(q)' <= PageCap
    BY <1>1, <1>11 DEF Shape
  <1>17. Shape'
    BY <1>1, <1>7, <1>10, <1>15, <1>16 DEF Shape
  <1> QED BY <1>15, <1>17 DEF Inv

\* A copy is zeroed during the scan.
LEMMA ZeroScan ==
  ASSUME Shape, Scanning, NEW p \in Pages, NEW i \in 1 .. Len(Items(p)), Item(p, i).id \in Ids,
         NEW l, l[1] = p, l[2] = i, ZeroAt(l)
  PROVE  /\ flash' \in [Pages -> PageState] /\ pgLost' \in [Pages -> 0 .. PageCap]
         /\ \A q \in Pages : SizedItems(Items(q)') /\ U(q)' <= PageCap /\ U(q)' = U(q)
         /\ \A q \in Pages : Len(Items(q)') = Len(Items(q))
         /\ Scanning'
         /\ \A n \in 0 .. Len(Items(p)) :
              WordsTo(Items(p)', {Null}, n) = WordsTo(Items(p), {Null}, n)
                                              + IF n >= i THEN Item(p, i).size ELSE 0
         /\ \A q \in Pages \ {p} : Items(q)' = Items(q)
  <1>1. /\ flash' = ZeroItem(p, i) /\ pgOff' = pgOff /\ pgRes' = pgRes
        /\ pgLost' = [pgLost EXCEPT ![p] = @ + Item(p, i).size]
    BY DEF ZeroAt
  <1>2. RoomOn(p) \/ pgLost[p] <= N(p)
    BY DEF Scanning
  <1>3. /\ flash' \in [Pages -> PageState] /\ pgLost' \in [Pages -> 0 .. PageCap]
        /\ \A q \in Pages : flash'[q].active = flash[q].active
        /\ \A q \in Pages \ {p} : flash'[q] = flash[q]
        /\ \A q \in Pages : SizedItems(Items(q)') /\ U(q)' <= PageCap /\ U(q)' = U(q)
    BY <1>1, <1>2, ZeroRoom
  <1>8. /\ \A q \in Pages : pgLost[q] <= N(q) => pgLost'[q] <= N(q)'
        /\ \A q \in Pages : Len(Items(q)') = Len(Items(q))
    BY <1>1, <1>2, ZeroRoom
  <1>9. ASSUME NEW n \in 0 .. Len(Items(p))
        PROVE  WordsTo(Items(p)', {Null}, n) = WordsTo(Items(p), {Null}, n)
                                               + IF n >= i THEN Item(p, i).size ELSE 0
    <2>1. flash \in [Pages -> PageState]
      BY DEF Shape
    <2> QED BY <1>1, <2>1, ItemZeroed
  <1>4. pgRes # Null => pgRes # p
    <2> SUFFICES ASSUME pgRes = p, p # Null PROVE FALSE
      OBVIOUS
    <2>1. flash[p] = ErasedPage
      BY DEF Scanning
    <2>2. Len(Items(p)) = 0
      BY <2>1, EmptyWords
    <2> QED BY <2>2
  <1>5. pgRes # Null => flash'[pgRes] = ErasedPage
    <2>1. pgRes \in Pages \cup {Null}
      BY DEF Shape
    <2> QED BY <1>3, <1>4, <2>1 DEF Scanning
  <1>6. Scanning'
    BY <1>1, <1>3, <1>5, <1>8 DEF Scanning, OthersActive
  <1>7. \A q \in Pages \ {p} : Items(q)' = Items(q)
    BY <1>3 DEF Items
  <1> QED BY <1>3, <1>6, <1>7, <1>8, <1>9

\* The scan goes on behind an item.
LEMMA NextItem ==
  ASSUME Shape, ScanOK, NEW p \in Pages, p = job.ip, NEW i \in 1 .. Len(Items(p)), i = job.ii,
         pc' = "initPages", Scanning', pgOff' = pgOff,
         \A q \in Pages : U(q)' = U(q), Len(Items(p)') = Len(Items(p)),
         job' \in JobState, job'.ip = p, job'.ii = i + 1, job'.dups = job.dups,
         job'.lost <= WordsTo(Items(p)', {Null}, i)
  PROVE  Control'
  <1>1. Items(job.ip)' = Items(p)'
    BY DEF Items
  <1>2. i \in Nat /\ job'.ii - 1 = i /\ Len(Items(p)) \in Nat /\ i <= Len(Items(p))
    <2>1. Len(Items(p)) \in Nat
      BY Rooms
    <2>2. i \in Nat /\ i <= Len(Items(p))
      BY <2>1
    <2> QED BY <2>1, <2>2
  <1>3. /\ job'.ii <= Len(Items(job.ip)') + 1
        /\ job'.lost <= WordsTo(Items(job.ip)', {Null}, job'.ii - 1)
    BY <1>1, <1>2
  <1>4. \A q \in Pages : q < job'.ip \/ job'.dups = "final" => pgOff'[q] = U(q)'
    BY DEF ScanOK
  <1>5. ScanOK'
    BY <1>3, <1>4 DEF ScanOK
  <1> QED BY <1>5 DEF Control, Steps

LEMMA ScanItemInv ==
  ASSUME Inv, ScanItem
  PROVE  Inv'
  <1>1. Shape /\ ScanOK /\ Scanning
    BY DEF Inv, Control, ScanItem, ScanOK
  <1>2. job \in JobState /\ job.ii \in Nat \ {0} /\ job.lost \in Nat
        /\ job.dups \in {"no", "yes", "final"}
    BY <1>1, JobFields DEF Shape
  <1>3. PICK p \in Pages : p = job.ip
    BY <1>1 DEF ScanOK
  <1>4. PICK i \in Nat \ {0} : i = job.ii
    BY <1>2
  <1>5. Items(p) \in Seq(ItemState) /\ Len(Items(p)) \in Nat
    BY <1>1, Rooms
  <1>6. i \in 1 .. Len(Items(p))
    <2>1. i <= Len(Items(p))
      BY <1>3, <1>4 DEF ScanItem, Items
    <2> QED BY <1>5, <2>1
  <1>7. PICK it : it = Item(p, i)
    OBVIOUS
  <1>8. it = Items(p)[i] /\ it.id \in Ids \cup {Null} /\ it.size \in Nat
    <2>1. it = Items(p)[i]
      BY <1>7 DEF Item, Items
    <2>2. it.id \in Ids \cup {Null} /\ it.size \in 1 .. PageCap
      BY <1>5, <1>6, <2>1, ItemFields
    <2> QED BY <2>1, <2>2, NvAssumption
  <1>9. PICK n : n = [job EXCEPT !.ii = i + 1]
    OBVIOUS
  <1>10. n \in JobState /\ n.ip = p /\ n.ii = i + 1 /\ n.lost = job.lost /\ n.dups = job.dups
    <2>1. PICK k \in Nat \ {0} : k = i + 1
      OBVIOUS
    <2>2. n = [job EXCEPT !.ii = k]
      BY <1>9, <2>1
    <2> QED BY <1>2, <1>3, <2>1, <2>2, SetIi
  <1>11. PICK m : m = [n EXCEPT !.lost = job.lost + it.size]
    OBVIOUS
  <1>12. /\ m \in JobState /\ m.ip = p /\ m.ii = i + 1 /\ m.lost = job.lost + it.size
         /\ m.dups = job.dups
    <2>1. PICK w \in Nat : w = job.lost + it.size
      BY <1>2, <1>8
    <2>2. m = [n EXCEPT !.lost = w]
      BY <1>11, <2>1
    <2> QED BY <1>10, <2>1, <2>2, SetLost
  <1>13. /\ WordsTo(Items(p), {Null}, i - 1) \in Nat /\ WordsTo(Items(p), {Null}, i) \in Nat
         /\ job.lost <= WordsTo(Items(p), {Null}, i - 1)
         /\ WordsTo(Items(p), {Null}, i - 1) <= WordsTo(Items(p), {Null}, i)
         /\ WordsTo(Items(p), {Null}, i)
              = WordsTo(Items(p), {Null}, i - 1) + Weight(Items(p)[i], {Null})
    <2>1. i - 1 \in Nat /\ i - 1 \in 0 .. Len(Items(p)) /\ i \in 0 .. Len(Items(p))
          /\ i - 1 <= i /\ (i - 1) + 1 = i
      BY <1>5, <1>6
    <2>2. WordsTo(Items(p), {Null}, i - 1) \in Nat /\ WordsTo(Items(p), {Null}, i) \in Nat
      BY <1>1, <2>1, PrefixNat
    <2>3. job.lost <= WordsTo(Items(p), {Null}, i - 1)
      BY <1>1, <1>3, <1>4 DEF ScanOK
    <2>4. WordsTo(Items(p), {Null}, i - 1) <= WordsTo(Items(p), {Null}, i)
      BY <1>5, <2>1, WordsGrow
    <2>5. WordsTo(Items(p), {Null}, i)
            = WordsTo(Items(p), {Null}, i - 1) + Weight(Items(p)[i], {Null})
      BY <2>1, WordsStep
    <2> QED BY <2>2, <2>3, <2>4, <2>5
  <1>14. /\ pgOff' = pgOff /\ pgRes' = pgRes /\ hot' = hot /\ faults' = faults
         /\ pc = "initPages"
    BY DEF ScanItem, ram, ZeroAt
  <1>15. \/ it.id = Null /\ pc' = "initPages" /\ job' = m /\ flash' = flash /\ pgLost' = pgLost
         \/ it.id # Null /\ ZeroAt(<<p, i>>) /\ pc' = "initPages" /\ job' = m
         \/ /\ it.id # Null /\ Copies(it.id, "xfer") # {}
            /\ ZeroAt(FirstOf(Copies(it.id, "xfer"))) /\ pc' = "initPages" /\ job' = n
         \/ pc' = "initPages" /\ job' = n /\ flash' = flash /\ pgLost' = pgLost
         \/ /\ job.dups = "no" /\ pc' = "initPages" /\ job' = PassAt(job, 1, 1, 0, "yes")
            /\ flash' = flash /\ pgLost' = pgLost
         \/ job.dups = "final" /\ ToPage(job) /\ flash' = flash /\ pgLost' = pgLost
    <2>1. m = [[job EXCEPT !.ii = @ + 1] EXCEPT !.lost = @ + it.size]
          /\ n = [job EXCEPT !.ii = @ + 1]
      <3>1. n = [job EXCEPT !.ii = @ + 1]
        BY <1>4, <1>9
      <3>2. m = [n EXCEPT !.lost = @ + it.size]
        BY <1>10, <1>11
      <3> QED BY <3>1, <3>2
    <2>2. it = Item(job.ip, job.ii) /\ <<p, i>> = <<job.ip, job.ii>>
      BY <1>3, <1>4, <1>7
    <2> QED BY <1>2, <1>14, <2>1, <2>2 DEF ScanItem, Goto, ram, PassAt
  <1>16. ASSUME flash' = flash, pgLost' = pgLost, job' \in JobState
         PROVE  /\ Shape' /\ Scanning'
                /\ \A q \in Pages : U(q)' = U(q) /\ Items(q)' = Items(q)
    <2>1. \A q \in Pages : U(q)' = U(q) /\ N(q)' = N(q) /\ Items(q)' = Items(q)
      BY <1>16, SamePage
    <2>2. Shape'
      BY <1>1, <1>14, <1>16, <2>1 DEF Shape
    <2>3. Scanning'
      BY <1>1, <1>14, <1>16, <2>1 DEF Scanning, OthersActive
    <2> QED BY <2>1, <2>2, <2>3
  <1>17. CASE it.id = Null /\ pc' = "initPages" /\ job' = m /\ flash' = flash /\ pgLost' = pgLost
    <2>1. /\ Shape' /\ Scanning'
          /\ \A q \in Pages : U(q)' = U(q) /\ Items(q)' = Items(q)
      BY <1>12, <1>16, <1>17
    <2>2. Weight(Items(p)[i], {Null}) = it.size
      BY <1>8, <1>17 DEF Weight
    <2>3. job.lost + it.size <= WordsTo(Items(p), {Null}, i)
      BY <1>2, <1>8, <1>13, <2>2
    <2>4. job'.lost <= WordsTo(Items(p)', {Null}, i)
      BY <1>12, <1>17, <2>1, <2>3
    <2>5. Control'
      BY <1>1, <1>3, <1>4, <1>6, <1>12, <1>14, <1>17, <2>1, <2>4, NextItem
    <2> QED BY <2>1, <2>5 DEF Inv
  <1>18. CASE it.id # Null /\ ZeroAt(<<p, i>>) /\ pc' = "initPages" /\ job' = m
    <2>1. Item(p, i).id \in Ids
      BY <1>7, <1>8, <1>18
    <2>2. PICK l : l = <<p, i>>
      OBVIOUS
    <2>3. l[1] = p /\ l[2] = i /\ ZeroAt(l)
      BY <1>18, <2>2
    <2>4. /\ flash' \in [Pages -> PageState] /\ pgLost' \in [Pages -> 0 .. PageCap]
          /\ \A q \in Pages : SizedItems(Items(q)') /\ U(q)' <= PageCap /\ U(q)' = U(q)
          /\ \A q \in Pages : Len(Items(q)') = Len(Items(q))
          /\ Scanning'
      BY <1>1, <1>6, <2>1, <2>3, ZeroScan
    <2>5. WordsTo(Items(p)', {Null}, i) = WordsTo(Items(p), {Null}, i) + it.size
      <3>1. i \in 0 .. Len(Items(p)) /\ i >= i
        BY <1>6
      <3>2. WordsTo(Items(p)', {Null}, i) = WordsTo(Items(p), {Null}, i)
                                            + IF i >= i THEN Item(p, i).size ELSE 0
        BY <1>1, <1>6, <2>1, <2>3, <3>1, ZeroScan
      <3> QED BY <1>7, <3>1, <3>2
    <2>6. job'.lost <= WordsTo(Items(p)', {Null}, i)
      BY <1>2, <1>8, <1>12, <1>13, <1>18, <2>5
    <2>7. Shape'
      BY <1>1, <1>12, <1>14, <1>18, <2>4 DEF Shape
    <2>8. Control'
      BY <1>1, <1>3, <1>4, <1>6, <1>12, <1>14, <1>18, <2>4, <2>6, NextItem
    <2> QED BY <2>7, <2>8 DEF Inv
  <1>19. CASE /\ it.id # Null /\ Copies(it.id, "xfer") # {}
              /\ ZeroAt(FirstOf(Copies(it.id, "xfer"))) /\ pc' = "initPages" /\ job' = n
    <2>1. PICK l : l = FirstOf(Copies(it.id, "xfer"))
      OBVIOUS
    <2>2. PICK r \in Pages, k \in Nat \ {0} : r = l[1] /\ k = l[2]
      BY <1>1, <1>19, <2>1, FirstCopy
    <2>3. k \in 1 .. Len(Items(r)) /\ Item(r, k).id \in Ids
      BY <1>1, <1>8, <1>19, <2>1, <2>2, FirstCopy
    <2>4. ZeroAt(l)
      BY <1>19, <2>1
    <2>5. /\ flash' \in [Pages -> PageState] /\ pgLost' \in [Pages -> 0 .. PageCap]
          /\ \A q \in Pages : SizedItems(Items(q)') /\ U(q)' <= PageCap /\ U(q)' = U(q)
          /\ \A q \in Pages : Len(Items(q)') = Len(Items(q))
          /\ Scanning'
      BY <1>1, <2>2, <2>3, <2>4, ZeroScan
    <2>6. WordsTo(Items(p)', {Null}, i) >= WordsTo(Items(p), {Null}, i)
      <3>1. CASE r = p
        <4>1. i \in 0 .. Len(Items(r)) /\ k \in Nat
          BY <1>6, <3>1
        <4>5. \A j \in 0 .. Len(Items(r)) :
                WordsTo(Items(r)', {Null}, j) = WordsTo(Items(r), {Null}, j)
                                                + IF j >= k THEN Item(r, k).size ELSE 0
          BY ZenonT(30), <1>1, <2>2, <2>3, <2>4, ZeroScan
        <4>2. WordsTo(Items(r)', {Null}, i) = WordsTo(Items(r), {Null}, i)
                                              + IF i >= k THEN Item(r, k).size ELSE 0
          BY <4>1, <4>5
        <4>3. Item(r, k).size \in Nat
          <5>1. Items(r) \in Seq(ItemState)
            BY <1>1, Rooms
          <5>2. Items(r)[k].size \in 1 .. PageCap
            BY <2>3, <5>1, ItemFields
          <5> QED BY <5>2, NvAssumption DEF Item, Items
        <4>4. WordsTo(Items(r), {Null}, i) \in Nat
          BY <1>13, <3>1
        <4>6. WordsTo(Items(r)', {Null}, i) >= WordsTo(Items(r), {Null}, i)
          BY <4>1, <4>2, <4>3, <4>4
        <4> QED BY <3>1, <4>6
      <3>2. CASE r # p
        <4>1. Items(p)' = Items(p)
          BY <1>1, <2>2, <2>3, <2>4, <3>2, ZeroScan
        <4> QED BY <1>13, <4>1
      <3> QED BY <3>1, <3>2
    <2>7. job'.lost <= WordsTo(Items(p)', {Null}, i)
      <3>1. job'.lost = job.lost
        BY <1>10, <1>19
      <3>2. WordsTo(Items(p)', {Null}, i) \in Nat
        <4>1. i \in 0 .. Len(Items(p)') /\ Items(p)' \in Seq(ItemState)
          <5>1. Len(Items(p)') = Len(Items(p))
            BY <2>5
          <5>2. flash'[p] \in PageState
            BY <2>5
          <5>3. Items(p)' \in Seq(ItemState)
            BY <5>2 DEF Items, PageState
          <5> QED BY <1>6, <5>1, <5>3
        <4> QED BY <4>1, WordsNat
      <3> QED BY <1>2, <1>13, <2>6, <3>1, <3>2
    <2>8. Shape'
      BY <1>1, <1>10, <1>14, <1>19, <2>5 DEF Shape
    <2>9. Control'
      BY <1>1, <1>3, <1>4, <1>6, <1>10, <1>14, <1>19, <2>5, <2>7, NextItem
    <2> QED BY <2>8, <2>9 DEF Inv
  <1>20. CASE pc' = "initPages" /\ job' = n /\ flash' = flash /\ pgLost' = pgLost
    <2>1. /\ Shape' /\ Scanning'
          /\ \A q \in Pages : U(q)' = U(q) /\ Items(q)' = Items(q)
      BY <1>10, <1>16, <1>20
    <2>2. job'.lost <= WordsTo(Items(p)', {Null}, i)
      BY <1>2, <1>10, <1>13, <1>20, <2>1
    <2>3. Control'
      BY <1>1, <1>3, <1>4, <1>6, <1>10, <1>14, <1>20, <2>1, <2>2, NextItem
    <2> QED BY <2>1, <2>3 DEF Inv
  <1>21. CASE /\ job.dups = "no" /\ pc' = "initPages" /\ job' = PassAt(job, 1, 1, 0, "yes")
              /\ flash' = flash /\ pgLost' = pgLost
    <2>1. job' \in JobState /\ job'.ip = 1 /\ job'.ii = 1 /\ job'.lost = 0 /\ job'.dups = "yes"
      <3>1. 1 \in Nat \ {0} /\ 0 \in Nat
        OBVIOUS
      <3> QED BY <1>2, <1>21, <3>1, SetPass
    <2>2. /\ Shape' /\ Scanning'
          /\ \A q \in Pages : U(q)' = U(q) /\ Items(q)' = Items(q)
      BY <1>16, <1>21, <2>1
    <2>3. PICK q \in Pages : q = 1
      BY NvAssumption DEF Pages
    <2>4. WordsTo(Items(q)', {Null}, 0) = 0 /\ Len(Items(q)') \in Nat
      BY <1>1, <2>2, Rooms, WordsStep
    <2>5. Items(job.ip)' = Items(q)' /\ job'.ii - 1 = 0
      BY <2>1, <2>3 DEF Items
    <2>6. /\ job'.ii <= Len(Items(job.ip)') + 1
          /\ job'.lost <= WordsTo(Items(job.ip)', {Null}, job'.ii - 1)
      BY <2>1, <2>4, <2>5
    <2>7. \A r \in Pages : ~(r < job'.ip) /\ job'.dups # "final"
      BY <2>1 DEF Pages
    <2>8. ScanOK'
      BY <2>1, <2>2, <2>3, <2>6, <2>7 DEF ScanOK
    <2> QED BY <1>21, <2>2, <2>8 DEF Inv, Control, Steps
  <1>22. CASE job.dups = "final" /\ ToPage(job) /\ flash' = flash /\ pgLost' = pgLost
    <2>1. \A q \in Pages : U(q)' = U(q) /\ N(q)' = N(q) /\ Items(q)' = Items(q)
      BY <1>22, SamePage
    <2>2. Scanning'
      BY <1>1, <1>14, <1>22, <2>1 DEF Scanning, OthersActive
    <2>3. \A q \in Pages : Len(Items(q)') \in Nat /\ pgOff'[q] = U(q)'
      BY <1>1, <1>14, <1>22, <2>1, Rooms DEF ScanOK
    <2>4. job' \in JobState /\ Control'
      BY <1>1, <1>3, <1>22, <2>2, <2>3, ToPageInv
    <2>5. Shape'
      BY <1>16, <1>22, <2>4
    <2> QED BY <2>4, <2>5 DEF Inv
  <1> QED BY <1>15, <1>17, <1>18, <1>19, <1>20, <1>21, <1>22

\* The page that lost most is a page.
LEMMA MostLostIs ==
  ASSUME Shape
  PROVE  MostLost \in Pages
  <1>1. pgLost \in [Pages -> 0 .. PageCap] /\ PageCap \in Nat
    BY NvAssumption DEF Shape
  <1> DEFINE Room == {PageCap - pgLost[p] : p \in Pages}
  <1>2. 1 \in Pages
    BY NvAssumption DEF Pages
  <1>3. \A p \in Pages : pgLost[p] \in Nat /\ pgLost[p] <= PageCap
    BY <1>1
  <1>4. Room \subseteq Nat /\ Room # {}
    BY <1>1, <1>2, <1>3
  <1>5. PICK m \in Room : \A k \in Room : m <= k
    BY <1>4, LeastOf
  <1>6. PICK r \in Pages : m = PageCap - pgLost[r]
    OBVIOUS
  <1>7. \A q \in Pages : pgLost[q] <= pgLost[r]
    <2> TAKE q \in Pages
    <2>1. PageCap - pgLost[r] <= PageCap - pgLost[q]
      BY <1>5, <1>6
    <2> QED BY <1>1, <1>3, <2>1
  <1> DEFINE Most == {q \in Pages : pgLost[q] = pgLost[r]}
  <1>8. Most \subseteq Nat /\ Most # {}
    BY DEF Pages
  <1>9. PICK p \in Most : \A q \in Most : p <= q
    BY <1>8, LeastOf
  <1>10. p \in Pages /\ \A q \in Pages : pgLost[q] <= pgLost[p]
    BY <1>7
  <1>11. ASSUME NEW q \in 1 .. (p - 1) PROVE pgLost[q] < pgLost[p]
    <2>1. p \in Nat /\ p <= LastPage /\ LastPage \in Nat
      BY <1>10, NvAssumption DEF Pages
    <2>2. q \in Pages /\ q < p
      BY <2>1 DEF Pages
    <2>3. q \in Nat
      OBVIOUS
    <2>4. q \notin Most
      BY <1>9, <2>1, <2>2, <2>3
    <2>5. pgLost[q] # pgLost[p] /\ pgLost[q] <= pgLost[p]
      BY <1>10, <2>2, <2>4
    <2> QED BY <1>3, <1>10, <2>2, <2>5
  <1>12. \E s \in Pages : /\ \A q \in Pages : pgLost[q] <= pgLost[s]
                          /\ \A q \in 1 .. (s - 1) : pgLost[q] < pgLost[s]
    BY <1>10, <1>11
  <1> QED BY <1>12 DEF MostLost

LEMMA PickReserveInv ==
  ASSUME Inv, PickReserve
  PROVE  Inv'
  <1>1. Shape /\ PickOK
    BY DEF Inv, Control, PickReserve
  <1>2. /\ flash' = flash /\ pgOff' = pgOff /\ pgLost' = pgLost /\ pgRes' = pgRes
        /\ hot' = hot /\ faults' = faults
    BY DEF PickReserve, ram
  <1>3. job \in JobState /\ pgRes \in Pages \cup {Null}
    BY <1>1 DEF Shape
  <1>4. ASSUME NEW p \in Pages PROVE RoomOn(p)
    <2>1. pgOff[p] = U(p) /\ pgLost[p] <= N(p)
      BY <1>1 DEF PickOK, Scanning
    <2>2. U(p) \in Nat /\ L(p) \in Nat /\ N(p) \in Nat /\ U(p) = L(p) + N(p) /\ pgLost[p] \in Nat
      BY <1>1, Rooms
    <2>3. U(p) <= U(p) /\ pgLost[p] <= U(p) - L(p)
      BY <2>1, <2>2
    <2> QED BY <2>1, <2>3 DEF RoomOn
  <1>5. \A p \in Pages : RoomOn(p)'
    <2>1. \A p \in Pages : U(p)' = U(p) /\ L(p)' = L(p)
      BY <1>2, SamePage
    <2> QED BY <1>2, <1>4, <2>1 DEF RoomOn
  <1>6. job' \in JobState => Shape'
    <2>1. \A p \in Pages : Items(p)' = Items(p) /\ U(p)' = U(p)
      BY <1>2, SamePage
    <2> QED BY <1>1, <1>2, <2>1 DEF Shape
  <1>7. CASE pgRes = Null
    <2>1. PICK p \in Pages : p = MostLost
      BY <1>1, MostLostIs
    <2>2. pc' = "erase" /\ job' = ErasingAt(job, p, "idle")
      BY <1>7, <2>1 DEF PickReserve, ThenErase, Goto, ErasingAt
    <2>3. "idle" \in Returns
      BY DEF Returns
    <2>4. job' \in JobState /\ job'.er = p /\ job'.ret = "idle"
      BY <1>3, <2>2, <2>3, SetErase
    <2>5. OthersActive(job.er)'
      BY <1>1, <1>2, <1>7, <2>4, NvAssumption DEF PickOK, Scanning, OthersActive
    <2>6. EraseOK'
      BY <1>5, <2>4, <2>5 DEF EraseOK
    <2> QED BY <1>6, <2>2, <2>4, <2>6 DEF Inv, Control, Steps
  <1>8. CASE pgRes # Null
    <2>1. pc' = "idle" /\ job' = NoJob
      BY <1>8 DEF PickReserve, Return
    <2>2. PICK r \in Pages : r = pgRes
      BY <1>3, <1>8
    <2>3. flash[r] = ErasedPage /\ OthersActive(r) /\ pgOff[r] = U(r) /\ pgLost[r] <= N(r)
      BY <1>1, <1>8, <2>2 DEF PickOK, Scanning
    <2>4. U(r) = 0 /\ N(r) = 0 /\ pgLost[r] \in Nat
      BY <1>1, <2>3, EmptyWords, Rooms
    <2>5. pgOff[r] = 0 /\ pgLost[r] = 0
      BY <2>3, <2>4
    <2>6. Empty(pgRes)'
      BY <1>2, <2>2, <2>3, <2>5 DEF Empty
    <2>7. InUse'
      BY <1>2, <1>5, <2>2, <2>3 DEF InUse, OthersActive
    <2>8. IdleOK'
      BY <2>1, <2>6, <2>7 DEF IdleOK, Ready
    <2> QED BY <1>6, <2>1, <2>8, NoJobIs DEF Inv, Control, Steps
  <1> QED BY <1>7, <1>8

-----------------------------------------------------------------------------
(* Power is lost, and the first power-up.                                  *)

\* A cold start: whatever the flash holds, the recovery begins.
LEMMA ColdStart ==
  ASSUME ColdRam, flash' \in [Pages -> PageState], faults' \in 0 .. MaxFaults,
         \A p \in Pages : SizedItems(Items(p)') /\ U(p)' <= PageCap
  PROVE  Inv'
  <1>1. /\ \A p \in Pages : pgOff'[p] = 0 /\ pgLost'[p] = 0
        /\ pgOff' \in [Pages -> 0 .. PageCap] /\ pgLost' \in [Pages -> 0 .. PageCap]
        /\ pgRes' = Null /\ DOMAIN hot' = HotIds
        /\ pc' = "boot" /\ job' = [NoJob EXCEPT !.op = "boot"]
    <2>1. 0 \in 0 .. PageCap
      BY NvAssumption
    <2> QED BY <2>1 DEF ColdRam
  <1>2. /\ job' \in JobState /\ job'.op = "boot" /\ job'.id = Null /\ job'.pg = Null
        /\ job'.ix = 1 /\ job'.com = Null /\ job'.ip = 1 /\ job'.ii = 1 /\ job'.lost = 0
        /\ job'.dups = "no"
    BY <1>1, BootJob
  <1>3. Shape'
    BY <1>1, <1>2 DEF Shape
  <1>4. \A p \in Pages : ~(p < job'.ip)
    BY <1>2 DEF Pages
  <1>5. BootOK'
    BY <1>1, <1>2, <1>4 DEF BootOK
  <1> QED BY <1>1, <1>3, <1>5 DEF Inv, Control, Steps

LEMMA PowerLossInv ==
  ASSUME Inv, PowerLoss
  PROVE  Inv'
  <1>1. Shape
    BY DEF Inv
  <1>2. ColdRam /\ faults' = faults /\ faults \in 0 .. MaxFaults
    BY <1>1 DEF PowerLoss, Shape
  <1>3. /\ flash' \in [Pages -> PageState]
        /\ \A p \in Pages : Items(p)' = Items(p)
    <2>1. CASE flash' = flash
      BY <1>1, <2>1, SamePage DEF Shape
    <2>2. CASE pc = "erase" /\ flash' \in HalfErased(job.er)
      <3>1. PICK r \in Pages : r = job.er
        BY <2>2 DEF Inv, Control, EraseOK
      <3>2. \/ flash' = [flash EXCEPT ![r].active = FALSE, ![r].xfer = FALSE]
            \/ flash' = [flash EXCEPT ![r].xfer = FALSE]
        BY <2>2, <3>1 DEF HalfErased
      <3>3. /\ flash \in [Pages -> PageState] /\ FALSE \in BOOLEAN
        BY <1>1 DEF Shape
      <3>4. CASE flash' = [flash EXCEPT ![r].active = FALSE, ![r].xfer = FALSE]
        <4>1. /\ flash' \in [Pages -> PageState]
              /\ \A q \in Pages : flash'[q].items = Items(q)
          BY <3>3, <3>4, HeaderWords
        <4> QED BY <4>1 DEF Items
      <3>5. CASE flash' = [flash EXCEPT ![r].xfer = FALSE]
        <4>1. /\ flash' \in [Pages -> PageState]
              /\ \A q \in Pages : flash'[q].items = Items(q)
          BY <3>3, <3>5, HeaderWords
        <4> QED BY <4>1 DEF Items
      <3> QED BY <3>2, <3>4, <3>5
    <2> QED BY <2>1, <2>2 DEF PowerLoss
  <1>4. \A p \in Pages : SizedItems(Items(p)') /\ U(p)' <= PageCap
    <2>1. \A p \in Pages : U(p)' = U(p)
      BY <1>3 DEF U
    <2> QED BY <1>1, <1>3, <2>1 DEF Shape
  <1> QED BY <1>2, <1>3, <1>4, ColdStart

\* The memory as delivered: every page erased.
LEMMA InitInv ==
  ASSUME Init
  PROVE  Inv
  <1>1. /\ \A p \in Pages : flash[p] = ErasedPage /\ pgOff[p] = 0 /\ pgLost[p] = 0
        /\ pgOff \in [Pages -> 0 .. PageCap] /\ pgLost \in [Pages -> 0 .. PageCap]
        /\ pgRes = Null /\ DOMAIN hot = HotIds /\ pc = "boot" /\ faults \in 0 .. MaxFaults
        /\ job = [NoJob EXCEPT !.op = "boot"]
    <2>1. 0 \in 0 .. PageCap /\ 0 \in 0 .. MaxFaults
      BY NvAssumption
    <2> QED BY <2>1 DEF Init
  <1>2. /\ job \in JobState /\ job.op = "boot" /\ job.id = Null /\ job.pg = Null
        /\ job.ix = 1 /\ job.com = Null /\ job.ip = 1 /\ job.ii = 1 /\ job.lost = 0
        /\ job.dups = "no"
    BY <1>1, BootJob
  <1>3. flash \in [Pages -> PageState]
    <2>1. ErasedPage \in PageState
      BY DEF ErasedPage, PageState
    <2> QED BY <2>1 DEF Init
  <1>4. ASSUME NEW p \in Pages PROVE SizedItems(Items(p)) /\ U(p) <= PageCap
    <2>1. Len(Items(p)) = 0 /\ U(p) = 0
      BY <1>1, EmptyWords
    <2>2. 1 .. 0 = {}
      OBVIOUS
    <2> QED BY <2>1, <2>2, NvAssumption DEF SizedItems
  <1>5. Shape
    BY <1>1, <1>2, <1>3, <1>4 DEF Shape
  <1>6. \A p \in Pages : ~(p < job.ip)
    BY <1>2 DEF Pages
  <1>7. BootOK
    BY <1>1, <1>2, <1>6 DEF BootOK
  <1> QED BY <1>1, <1>5, <1>7 DEF Inv, Control, Steps

-----------------------------------------------------------------------------
(* The results.                                                            *)

\* The invariant is kept by every step.
LEMMA StepInv ==
  ASSUME Inv, [Next]_vars
  PROVE  Inv'
  <1>1. CASE Call
    BY <1>1, CreateInv, WriteInv, ReopenInv, DeleteInv DEF Call
  <1>2. CASE Compact
    BY <1>2, MarkPageInv, CompactItemInv, CopyHeaderInv, CopyDataInv, CopyChkInv,
       CompactDoneInv DEF Compact
  <1>3. CASE Continue
    BY <1>3, HeaderInv, MarkSourceInv, DataInv, ChecksumInv, UseReserveInv, EraseInv,
       ZeroOldInv DEF Continue
  <1>4. CASE Boot
    BY <1>4, BootScanInv, BootSettleInv, ScanItemInv, ScanEndInv, PickReserveInv DEF Boot
  <1>5. CASE PowerLoss
    BY <1>5, PowerLossInv
  <1>6. CASE UNCHANGED vars
    <2>1. /\ flash' = flash /\ pgOff' = pgOff /\ pgLost' = pgLost /\ pgRes' = pgRes
          /\ hot' = hot /\ pc' = pc /\ job' = job /\ faults' = faults
      BY <1>6 DEF vars
    <2>2. Shape'
      BY <2>1 DEF Inv, Shape, Items, U
    <2>3. Control'
      <3>1. /\ IdleOK' = IdleOK /\ MarkOK' = MarkOK /\ CompactOK' = CompactOK
            /\ CopyHdrOK' = CopyHdrOK /\ CopyItemOK' = CopyItemOK /\ HeaderOK' = HeaderOK
            /\ BodyOK' = BodyOK /\ UseOK' = UseOK /\ EraseOK' = EraseOK /\ ZeroOK' = ZeroOK
            /\ BootOK' = BootOK /\ ScanOK' = ScanOK /\ PickOK' = PickOK
        BY <2>1 DEF IdleOK, MarkOK, CompactOK, CopyHdrOK, CopyItemOK, HeaderOK, BodyOK, UseOK,
           EraseOK, ZeroOK, BootOK, ScanOK, PickOK, Ready, InUse, OthersActive, RoomOn, Empty,
           U, L, N, Items, Item, CallToCopy, Call_, Source, FitsOnce, Boot_, Copying, Copied,
           AtItem, Writing, Target, Scanning
      <3> QED BY <2>1, <3>1 DEF Inv, Control
    <2> QED BY <2>2, <2>3 DEF Inv
  <1> QED BY <1>1, <1>2, <1>3, <1>4, <1>5, <1>6 DEF Next

THEOREM Invariance == Spec => []Inv
  <1>1. Init => Inv
    BY InitInv
  <1>2. Inv /\ [Next]_vars => Inv'
    BY StepInv
  <1> QED BY <1>1, <1>2, PTL DEF Spec

LEMMA InvType == Inv => TypeOK
  <1> SUFFICES ASSUME Inv PROVE TypeOK
    OBVIOUS
  <1>1. Shape
    BY DEF Inv
  <1>2. \A p \in Pages : Used(flash[p].items) <= PageCap
    BY <1>1 DEF Shape, Used, U, Items
  <1>3. DOMAIN job = DOMAIN NoJob
    <2>1. job \in JobState
      BY <1>1 DEF Shape
    <2>2. /\ \A j \in JobState : DOMAIN j = {"op", "id", "val", "src", "pg", "ix", "com", "dst",
                                             "ok", "er", "ret", "ip", "ii", "lost", "dups"}
      BY DEF JobState
    <2> QED BY <2>1, <2>2, NoJobIs
  <1> QED BY <1>1, <1>2, <1>3 DEF TypeOK, Shape

\* The state keeps its shape, and no page ever holds more words than it has: compactPage and
\* writeItem append at pgOff without looking at the end of the page again, whatever writes
\* fail and wherever power is lost before.
THEOREM TypeCorrect == Spec => []TypeOK
  <1>1. Inv => TypeOK
    BY InvType
  <1> QED BY <1>1, Invariance, PTL

LEMMA InvSound == Inv => PagesSound
  <1> SUFFICES ASSUME Inv, pc = "idle" PROVE OneReserve /\ RoomIsThere
    BY DEF PagesSound
  <1>1. Shape /\ InUse /\ Empty(pgRes)
    BY DEF Inv, Control, IdleOK, Ready
  <1>2. OneReserve
    BY <1>1 DEF InUse, OthersActive, Empty, OneReserve
  <1>3. RoomIsThere
    BY <1>1 DEF InUse, RoomOn, U, L, Items, Used, RoomIsThere
  <1> QED BY <1>2, <1>3

\* Between calls exactly one page is erased and in reserve, every other page is in use, and
\* the counts pgOff and pgLost promise no room that a page does not have, after any sequence
\* of calls, failed writes (erasePage after a failed compaction, the page given up for a
\* failed header) and losses of power, for any number of pages, items and sizes.
THEOREM PagesAlwaysSound == Spec => []PagesSound
  <1>1. Inv => PagesSound
    BY InvSound
  <1> QED BY <1>1, Invariance, PTL

-----------------------------------------------------------------------------
(* What the flash holds as long as no write has failed.  A copy is live    *)
(* until it is zeroed, done once its checksum is written, and old once it  *)
(* is marked as transferred.  At each step of a call, of a compaction and  *)
(* of the recovery: which copies are complete, where an item may have two, *)
(* and where the cached places point.                                      *)

Id(l)   == Item(l[1], l[2]).id
Live    == {l \in Places : Id(l) # Null}
Done    == {l \in Live : Item(l[1], l[2]).chk}
Old     == {l \in Live : Item(l[1], l[2]).stat = "xfer"}
Off(p)  == {l \in Live : l[1] # p}
InUsed  == {l \in Live : flash[l[1]].active}

\* No item twice in X.
Alone(X) == \A l, m \in X : Id(l) = Id(m) => l = m

\* At most one new and one old copy of an item in X.
Paired(X) == \A l, m \in X : Id(l) = Id(m) /\ (l \in Old <=> m \in Old) => l = m

HotIn(X)  == \A x \in HotIds : hot[x] # Null => hot[x] \in X /\ Id(hot[x]) = x
Stored(X) == X \subseteq Done /\ Alone(X) /\ HotIn(X)
HotCold   == \A x \in HotIds : hot[x] = Null

\* The pages marked by a compaction are among P.
PendingIn(P) == \A p \in Pages : flash[p].xfer => p \in P

\* What holds of the flash alone, wherever power is lost.
FlashOK ==
  /\ Old \subseteq Done
  /\ \A p, q \in Pages : flash[p].xfer /\ flash[q].xfer => p = q
  /\ \A p \in Pages : flash[p].xfer => flash[p].active
  /\ Live = {} \/ \A p, q \in Pages : ~flash[p].active /\ ~flash[q].active => p = q
  /\ Paired(InUsed \cap Done)
  /\ (\E p \in Pages : flash[p].xfer) /\ (\E p \in Pages : ~flash[p].active)
       => InUsed \subseteq Done /\ Alone(InUsed)

\* The old copy of the item being written, which is its only copy in X.
Only(X) == \A l \in X : Id(l) = job.id => l = job.src
SourceDone == job.op = "write" => job.src \in Done

\* The copies on the reserve page stem from marked items of the compacted page, below n.
Moved(X, n) ==
  /\ X \subseteq Done \ Old /\ Alone(X)
  /\ \A l \in X : Id(l) # job.id /\ \E m \in Old : m[1] = job.pg /\ m[2] < n /\ Id(m) = Id(l)

OnReserve == {l \in Live : l[1] = pgRes}
Last(p)   == <<p, Len(Items(p))>>

\* A compaction that has come to item n; new is the copy being written.
CopyState(n, new) ==
  /\ PendingIn({job.pg}) /\ flash[job.pg].xfer /\ ~flash[pgRes].active
  /\ Off(pgRes) \subseteq Done /\ Alone(Off(pgRes)) /\ Only(Off(pgRes)) /\ SourceDone
  /\ Moved(OnReserve \ new, n)
  /\ HotIn(Live \ new)
  /\ \A x \in HotIds : hot[x] # Null /\ hot[x][1] = job.pg => x = job.id \/ hot[x][2] >= n
  /\ job.op = "boot" => \A x \in HotIds : hot[x] # Null => hot[x][1] = pgRes

\* new is the item whose header is written.
WriteState(new) ==
  /\ SourceDone
  /\ job.com = Null => /\ PendingIn({}) /\ Stored(Live \ new) /\ Only(Live \ new)
  /\ job.com # Null =>
       /\ PendingIn({job.pg}) /\ flash[job.pg].xfer /\ ~flash[pgRes].active
       /\ Off(pgRes) \subseteq Done /\ Alone(Off(pgRes)) /\ Only(Off(pgRes))
       /\ Moved(OnReserve \ new, Len(Items(job.pg)) + 1)
       /\ HotIn(Live \ new)
       /\ \A x \in HotIds : hot[x] # Null /\ hot[x][1] = job.pg => x = job.id

InWriting(l, id) == l \in Live \ (Done \cup Old) /\ Id(l) = id

\* Between calls every item has one complete copy, and no compaction is pending.
Idle2 == Stored(Live) /\ PendingIn({})
Mark2 == Idle2 /\ SourceDone /\ Only(Live)
Compact2 == CopyState(job.ix, {})
CopyHdr2 == CopyState(job.ix, {}) /\ <<job.pg, job.ix>> \in Old
CopyItem2 == /\ CopyState(job.ix, {Last(pgRes)}) /\ <<job.pg, job.ix>> \in Old
             /\ InWriting(Last(pgRes), Item(job.pg, job.ix).id)
Header2 == WriteState({})
Body2 == /\ WriteState({Last(job.dst)}) /\ InWriting(Last(job.dst), job.id)
         /\ pc \in {"data", "chk"} /\ job.op = "write" => job.src \in Old
\* The reserve page is about to be put in use: apart from the compacted page and the old
\* copy of the item written, what there is is what must stay.
Use2 == /\ job.ok \/ job.op = "boot"
        /\ PendingIn({job.com}) /\ Live \subseteq Done /\ Paired(Live)
        /\ Stored(Off(job.com) \ {job.src})
        /\ job.op = "boot" => HotIn(Done \ Old)
Erase2 ==
  /\ job.ret = "idle" => PendingIn({job.er}) /\ Stored(Off(job.er))
  /\ job.ret = "zero" => /\ PendingIn({job.er}) /\ Stored(Off(job.er) \ {job.src})
                         /\ Off(job.er) \subseteq Done
  /\ job.ret = "compact" => /\ HotCold /\ Off(job.er) \subseteq Done /\ Alone(Off(job.er))
                            /\ PendingIn({job.pg}) /\ flash[job.pg].xfer
  /\ job.ret = "initPages" => /\ PendingIn({job.er}) /\ Paired(Off(job.er) \cap Done)
                              /\ HotIn(Off(job.er) \cap (Done \ Old))
Zero2 == Live \subseteq Done /\ Stored(Live \ {job.src}) /\ PendingIn({})
\* Power-up: nothing is cached, and the pending page is known once it has been passed.
Boot2 ==
  /\ HotCold
  /\ pgRes # Null => ~flash[pgRes].active
  /\ job.pg # Null => flash[job.pg].xfer
  /\ \A p \in Pages : p < job.ip /\ flash[p].xfer => job.pg = p
\* The scan: an item may have an old and a new copy, but on the pages behind none is
\* incomplete, none is old before the pass over duplicates, and no pair is left after it.
Scan2 ==
  /\ PendingIn({}) /\ Paired(Done) /\ HotIn(Done \ Old) /\ (pgRes # Null \/ HotCold)
  /\ \A l \in Live : l[1] < job.ip \/ (l[1] = job.ip /\ l[2] < job.ii) =>
       /\ l \in Done
       /\ job.dups = "no" => l \notin Old
       /\ job.dups = "yes" /\ l \notin Old => \A m \in Old : Id(m) # Id(l)
  /\ job.dups = "final" => Live \subseteq Done /\ Alone(Live)
Pick2 == Stored(Live) /\ PendingIn({}) /\ (pgRes # Null \/ HotCold)

Control2 ==
  /\ job.op # "write" => job.src = Null
  /\ pc = "idle" => Idle2
  /\ pc = "mark" => Mark2
  /\ pc = "compact" => Compact2
  /\ pc = "copyHdr" => CopyHdr2
  /\ pc \in {"copyData", "copyChk"} => CopyItem2
  /\ pc = "header" => Header2
  /\ pc \in {"markSrc", "data", "chk"} => Body2
  /\ pc = "use" => Use2
  /\ pc = "erase" => Erase2
  /\ pc = "zero" => Zero2
  /\ pc = "boot" => Boot2
  /\ pc = "initPages" => Scan2
  /\ pc = "pickRes" => Pick2

\* A failed write may leave anything; until then:
Sem == faults = 0 => FlashOK /\ Control2

-----------------------------------------------------------------------------
(* The copies of the items, as sets of places, and what the flash          *)
(* operations do to them.                                                  *)

Spots == Pages \X (Nat \ {0})

LEMMA PlaceIs ==
  ASSUME flash \in [Pages -> PageState], NEW l
  PROVE  l \in Places <=> l \in Spots /\ l[2] \in 1 .. Len(Items(l[1]))
  <1>1. ASSUME l \in Places PROVE l \in Spots /\ l[2] \in 1 .. Len(Items(l[1]))
    <2>1. PICK p \in Pages : l \in {<<p, i>> : i \in DOMAIN flash[p].items}
      BY <1>1 DEF Places
    <2>2. PICK i \in DOMAIN flash[p].items : l = <<p, i>>
      BY <2>1
    <2>3. Items(p) \in Seq(ItemState)
      BY PageFields
    <2>4. DOMAIN flash[p].items = 1 .. Len(Items(p)) /\ Len(Items(p)) \in Nat
      BY <2>3 DEF Items
    <2>5. i \in 1 .. Len(Items(p)) /\ i \in Nat \ {0}
      BY <2>2, <2>4
    <2> QED BY <2>2, <2>5 DEF Spots
  <1>2. ASSUME l \in Spots, l[2] \in 1 .. Len(Items(l[1])) PROVE l \in Places
    <2>1. PICK p \in Pages, i \in Nat \ {0} : l = <<p, i>>
      BY <1>2 DEF Spots
    <2>2. Items(p) \in Seq(ItemState)
      BY PageFields
    <2>3. i \in DOMAIN flash[p].items
      BY <1>2, <2>1, <2>2 DEF Items
    <2> QED BY <2>1, <2>3 DEF Places
  <1> QED BY <1>1, <1>2

LEMMA PlaceIsNext ==
  ASSUME flash' \in [Pages -> PageState], NEW l
  PROVE  l \in Places' <=> l \in Spots /\ l[2] \in 1 .. Len(Items(l[1])')
  <1>1. ASSUME l \in Places' PROVE l \in Spots /\ l[2] \in 1 .. Len(Items(l[1])')
    <2>1. PICK p \in Pages : l \in {<<p, i>> : i \in DOMAIN flash'[p].items}
      BY <1>1 DEF Places
    <2>2. PICK i \in DOMAIN flash'[p].items : l = <<p, i>>
      BY <2>1
    <2>3. flash'[p].items \in Seq(ItemState)
      BY DEF PageState
    <2>4. /\ DOMAIN flash'[p].items = 1 .. Len(flash'[p].items)
          /\ Len(flash'[p].items) \in Nat
      BY <2>3
    <2>5. i \in 1 .. Len(flash'[p].items) /\ i \in Nat \ {0}
      BY <2>2, <2>4
    <2> QED BY <2>2, <2>5 DEF Spots, Items
  <1>2. ASSUME l \in Spots, l[2] \in 1 .. Len(Items(l[1])') PROVE l \in Places'
    <2>1. PICK p \in Pages, i \in Nat \ {0} : l = <<p, i>>
      BY <1>2 DEF Spots
    <2>2. flash'[p].items \in Seq(ItemState)
      BY DEF PageState
    <2>3. i \in DOMAIN flash'[p].items
      BY <1>2, <2>1, <2>2 DEF Items
    <2> QED BY <2>1, <2>3 DEF Places
  <1> QED BY <1>1, <1>2

\* A place whose item keeps its id, checksum and mark keeps its part.
LEMMA SpotSame ==
  ASSUME NEW l, l \in Places' <=> l \in Places,
         l \in Places => LET a == flash[l[1]].items[l[2]]
                             b == flash'[l[1]].items[l[2]]
                         IN  b.id = a.id /\ b.chk = a.chk /\ b.stat = a.stat
  PROVE  /\ l \in Live' <=> l \in Live
         /\ l \in Done' <=> l \in Done
         /\ l \in Old' <=> l \in Old
         /\ l \in Live => Id(l)' = Id(l)
  BY DEF Live, Done, Old, Id, Item

\* Nothing about the items changes but data and sizes.
LEMMA SameCopies ==
  ASSUME flash \in [Pages -> PageState], flash' \in [Pages -> PageState],
         \A p \in Pages : /\ Len(Items(p)') = Len(Items(p))
                          /\ \A i \in 1 .. Len(Items(p)) :
                               LET a == flash[p].items[i]
                                   b == flash'[p].items[i]
                               IN  b.id = a.id /\ b.chk = a.chk /\ b.stat = a.stat
  PROVE  Live' = Live /\ Done' = Done /\ Old' = Old /\ \A l \in Live : Id(l)' = Id(l)
  <1>1. ASSUME NEW l
        PROVE  /\ l \in Live' <=> l \in Live
               /\ l \in Done' <=> l \in Done
               /\ l \in Old' <=> l \in Old
               /\ l \in Live => Id(l)' = Id(l)
    <2>1. l \in Spots => l[1] \in Pages
      BY DEF Spots
    <2>2. l \in Places' <=> l \in Places
      BY <2>1, PlaceIs, PlaceIsNext
    <2>3. l \in Places => LET a == flash[l[1]].items[l[2]]
                              b == flash'[l[1]].items[l[2]]
                          IN  b.id = a.id /\ b.chk = a.chk /\ b.stat = a.stat
      BY <2>1, PlaceIs
    <2> QED BY <2>2, <2>3, SpotSame
  <1> QED BY <1>1

\* The marks of the pages, and where the items are, do not change.
SameFlags == \A p \in Pages : flash'[p].active = flash[p].active /\ flash'[p].xfer = flash[p].xfer
SameIds   == \A l \in Live : Id(l)' = Id(l)
SameSets  == Live' = Live /\ Done' = Done /\ Old' = Old /\ SameIds

\* One page changes, with the items t.
LEMMA OnePage ==
  ASSUME flash \in [Pages -> PageState], NEW p \in Pages, NEW t \in Seq(ItemState),
         flash' = [flash EXCEPT ![p].items = t]
  PROVE  /\ flash' \in [Pages -> PageState] /\ SameFlags
         /\ flash'[p].items = t
         /\ \A q \in Pages \ {p} : flash'[q] = flash[q]
  <1>1. PICK f : f = flash'
    OBVIOUS
  <1>2. /\ f \in [Pages -> PageState]
        /\ f[p].items = t /\ f[p].active = flash[p].active
        /\ \A q \in Pages \ {p} : f[q] = flash[q]
    BY <1>1, SetItems
  <1>3. f[p].xfer = flash[p].xfer
    <2>1. flash[p] \in PageState
      OBVIOUS
    <2>2. ASSUME NEW g \in PageState PROVE [g EXCEPT !.items = t].xfer = g.xfer
      BY DEF PageState
    <2>3. f[p] = [flash[p] EXCEPT !.items = t]
      BY <1>1
    <2> QED BY <2>1, <2>2, <2>3
  <1> QED BY <1>1, <1>2, <1>3 DEF SameFlags

\* Places other than w keep their part when only the item at w changes.
LEMMA OneSpot ==
  ASSUME flash \in [Pages -> PageState], flash' \in [Pages -> PageState], NEW p \in Pages,
         \A q \in Pages \ {p} : flash'[q] = flash[q], NEW n \in Nat \ {0},
         \A i \in (Nat \ {0}) \ {n} :
           /\ i \in 1 .. Len(flash'[p].items) <=> i \in 1 .. Len(flash[p].items)
           /\ i \in 1 .. Len(flash[p].items) =>
                LET a == flash[p].items[i]
                    b == flash'[p].items[i]
                IN  b.id = a.id /\ b.chk = a.chk /\ b.stat = a.stat
  PROVE  \A l \in Spots \ {<<p, n>>} : /\ l \in Live' <=> l \in Live
                                       /\ l \in Done' <=> l \in Done
                                       /\ l \in Old' <=> l \in Old
                                       /\ l \in Live => Id(l)' = Id(l)
  <1> SUFFICES ASSUME NEW l \in Spots \ {<<p, n>>}
               PROVE  /\ l \in Live' <=> l \in Live
                      /\ l \in Done' <=> l \in Done
                      /\ l \in Old' <=> l \in Old
                      /\ l \in Live => Id(l)' = Id(l)
    OBVIOUS
  <1>1. PICK q \in Pages, i \in Nat \ {0} : l = <<q, i>>
    BY DEF Spots
  <1>2. l[1] = q /\ l[2] = i
    BY <1>1
  <1>3. q = p => i # n
    BY <1>1
  <1>4. /\ i \in 1 .. Len(flash'[q].items) <=> i \in 1 .. Len(flash[q].items)
        /\ i \in 1 .. Len(flash[q].items) =>
             LET a == flash[q].items[i]
                 b == flash'[q].items[i]
             IN  b.id = a.id /\ b.chk = a.chk /\ b.stat = a.stat
    <2>1. CASE q = p
      BY <1>3, <2>1
    <2>2. CASE q # p
      <3>1. flash'[q] = flash[q]
        BY <2>2
      <3> QED BY <3>1
    <2> QED BY <2>1, <2>2
  <1>5. l \in Places <=> i \in 1 .. Len(flash[q].items)
    BY <1>2, PlaceIs DEF Items
  <1>6. l \in Places' <=> i \in 1 .. Len(flash'[q].items)
    BY <1>2, PlaceIsNext DEF Items
  <1> QED BY <1>2, <1>4, <1>5, <1>6, SpotSame

LEMMA LiveSpots ==
  ASSUME flash \in [Pages -> PageState]
  PROVE  /\ Live \subseteq Spots /\ Done \subseteq Live /\ Old \subseteq Live
         /\ \A l \in Live : l[1] \in Pages /\ l[2] \in 1 .. Len(Items(l[1]))
  <1>1. \A l \in Places : l \in Spots /\ l[2] \in 1 .. Len(Items(l[1]))
    BY PlaceIs
  <1> QED BY <1>1 DEF Live, Done, Old, Spots

LEMMA LiveSpotsNext ==
  ASSUME flash' \in [Pages -> PageState]
  PROVE  Live' \subseteq Spots /\ Done' \subseteq Live' /\ Old' \subseteq Live'
  <1>1. \A l \in Places' : l \in Spots
    BY PlaceIsNext
  <1> QED BY <1>1 DEF Live, Done, Old

-----------------------------------------------------------------------------
(* What each flash operation does to the sets of copies.                   *)

\* No item changes its id, checksum or mark.
LEMMA SameFlash ==
  ASSUME flash \in [Pages -> PageState], flash' = flash
  PROVE  SameSets /\ SameFlags
  BY DEF SameSets, SameFlags, SameIds, Live, Done, Old, Id, Item, Places

LEMMA FlagsSets ==
  ASSUME flash \in [Pages -> PageState], NEW p \in Pages, NEW b \in BOOLEAN,
         NEW c \in BOOLEAN,
         flash' = [flash EXCEPT ![p] = [flash[p] EXCEPT !.active = b, !.xfer = c]]
  PROVE  /\ flash' \in [Pages -> PageState] /\ SameSets
         /\ flash'[p].active = b /\ flash'[p].xfer = c
         /\ \A q \in Pages \ {p} : flash'[q] = flash[q]
  <1> DEFINE r == [flash[p] EXCEPT !.active = b, !.xfer = c]
  <1>1. ASSUME NEW g \in PageState
        PROVE  LET h == [g EXCEPT !.active = b, !.xfer = c]
               IN  h \in PageState /\ h.active = b /\ h.xfer = c /\ h.items = g.items
    BY DEF PageState
  <1>2. flash[p] \in PageState
    OBVIOUS
  <1>3. r \in PageState /\ r.active = b /\ r.xfer = c /\ r.items = flash[p].items
    BY <1>1, <1>2, Zenon
  <1>4. flash' = [flash EXCEPT ![p] = r]
    OBVIOUS
  <1> HIDE DEF r
  <1>5. /\ flash' \in [Pages -> PageState] /\ flash'[p] = r
        /\ \A q \in Pages \ {p} : flash'[q] = flash[q]
    BY <1>3, <1>4
  <1>6. \A q \in Pages : flash'[q].items = flash[q].items
    <2>1. ASSUME NEW q \in Pages PROVE flash'[q].items = flash[q].items
      <3>1. CASE q = p
        BY <1>3, <1>5, <3>1
      <3>2. CASE q # p
        BY <1>5, <3>2
      <3> QED BY <3>1, <3>2
    <2> QED BY <2>1
  <1>7. SameSets
    BY <1>5, <1>6, SameCopies DEF SameSets, SameIds, Items
  <1> QED BY <1>3, <1>5, <1>7

LEMMA SetFlags ==
  ASSUME flash \in [Pages -> PageState], NEW p \in Pages
  PROVE  /\ setPageUse(p) = [flash EXCEPT ![p] =
                               [flash[p] EXCEPT !.active = TRUE, !.xfer = flash[p].xfer]]
         /\ [flash EXCEPT ![p].xfer = TRUE] = [flash EXCEPT ![p] =
                               [flash[p] EXCEPT !.active = flash[p].active, !.xfer = TRUE]]
         /\ [flash EXCEPT ![p].active = FALSE, ![p].xfer = FALSE] = [flash EXCEPT ![p] =
                               [flash[p] EXCEPT !.active = FALSE, !.xfer = FALSE]]
         /\ [flash EXCEPT ![p].xfer = FALSE] = [flash EXCEPT ![p] =
                               [flash[p] EXCEPT !.active = flash[p].active, !.xfer = FALSE]]
  <1>1. flash[p] \in PageState
    OBVIOUS
  <1>2. ASSUME NEW g \in PageState, NEW b \in BOOLEAN, NEW c \in BOOLEAN
        PROVE  /\ [g EXCEPT !.active = b] = [g EXCEPT !.active = b, !.xfer = g.xfer]
               /\ [g EXCEPT !.xfer = c] = [g EXCEPT !.active = g.active, !.xfer = c]
    BY DEF PageState
  <1>3. ASSUME NEW b \in BOOLEAN, NEW c \in BOOLEAN
        PROVE  /\ [flash EXCEPT ![p].active = b] =
                    [flash EXCEPT ![p] = [flash[p] EXCEPT !.active = b]]
               /\ [flash EXCEPT ![p].xfer = c] =
                    [flash EXCEPT ![p] = [flash[p] EXCEPT !.xfer = c]]
               /\ [flash EXCEPT ![p].active = b, ![p].xfer = c] =
                    [flash EXCEPT ![p] = [flash[p] EXCEPT !.active = b, !.xfer = c]]
    OBVIOUS
  <1> QED BY <1>1, <1>2, <1>3 DEF setPageUse

LEMMA XferSets ==
  ASSUME flash \in [Pages -> PageState], NEW l \in Live, flash' = XferItem(l[1], l[2])
  PROVE  /\ flash' \in [Pages -> PageState] /\ SameFlags /\ SameIds
         /\ Live' = Live /\ Done' = Done /\ Old' = Old \cup {l}
         /\ \A q \in Pages : Len(Items(q)') = Len(Items(q))
  <1>1. PICK p \in Pages, n \in Nat \ {0} : l = <<p, n>>
    BY LiveSpots DEF Spots
  <1>2. l[1] = p /\ l[2] = n /\ n \in 1 .. Len(Items(p)) /\ l \in Places
    BY <1>1, LiveSpots DEF Live
  <1> DEFINE s == flash[p].items
             b == [s[n] EXCEPT !.stat = "xfer"]
             t == [s EXCEPT ![n] = b]
  <1>3. s \in Seq(ItemState) /\ n \in 1 .. Len(s) /\ s[n] \in ItemState
    BY <1>2, PageFields, ItemFields DEF Items
  <1>4. b \in ItemState /\ b.id = s[n].id /\ b.chk = s[n].chk /\ b.stat = "xfer"
    <2>1. ASSUME NEW a \in ItemState
          PROVE  LET c == [a EXCEPT !.stat = "xfer"]
                 IN  c \in ItemState /\ c.id = a.id /\ c.chk = a.chk /\ c.stat = "xfer"
      BY DEF ItemState
    <2> QED BY <1>3, <2>1, Zenon
  <1>5. flash' = [flash EXCEPT ![p].items = t]
    BY <1>2 DEF XferItem
  <1> HIDE DEF b
  <1>6. /\ t \in Seq(ItemState) /\ Len(t) = Len(s) /\ t[n] = b
        /\ \A i \in (1 .. Len(s)) \ {n} : t[i] = s[i]
    BY <1>3, <1>4
  <1> HIDE DEF t
  <1>7. /\ flash' \in [Pages -> PageState] /\ SameFlags /\ flash'[p].items = t
        /\ \A q \in Pages \ {p} : flash'[q] = flash[q]
    BY <1>5, <1>6, OnePage
  <1>8. \A m \in Spots \ {l} : /\ m \in Live' <=> m \in Live
                               /\ m \in Done' <=> m \in Done
                               /\ m \in Old' <=> m \in Old
                               /\ m \in Live => Id(m)' = Id(m)
    BY <1>1, <1>6, <1>7, OneSpot
  <1>9. l \in Live' /\ (l \in Done' <=> l \in Done) /\ l \in Old' /\ Id(l)' = Id(l)
    <2>1. l \in Places'
      BY <1>1, <1>2, <1>3, <1>6, <1>7, PlaceIsNext DEF Spots, Items
    <2> QED BY <1>2, <1>4, <1>6, <1>7, <2>1 DEF Live, Done, Old, Id, Item
  <1>10. \A q \in Pages : Len(Items(q)') = Len(Items(q))
    BY <1>6, <1>7 DEF Items
  <1>11. l \in Spots
    BY LiveSpots
  <1>12. /\ Live \subseteq Spots /\ Live' \subseteq Spots
         /\ Done \subseteq Live /\ Done' \subseteq Live'
         /\ Old \subseteq Live /\ Old' \subseteq Live'
    BY <1>7, LiveSpots, LiveSpotsNext
  <1>13. Live' = Live
    BY <1>8, <1>9, <1>12
  <1>14. Done' = Done /\ Old' = Old \cup {l}
    BY <1>8, <1>9, <1>11, <1>12
  <1>15. SameIds
    BY <1>8, <1>9, <1>12 DEF SameIds
  <1> QED BY <1>7, <1>10, <1>13, <1>14, <1>15

LEMMA HeaderSets ==
  ASSUME flash \in [Pages -> PageState], NEW p \in Pages, NEW id \in Ids,
         ItemSize[id] \in 1 .. PageCap, flash' = NewHeader(p, id), NEW w, w = Last(p)'
  PROVE  /\ flash' \in [Pages -> PageState] /\ SameFlags /\ SameIds
         /\ w = <<p, Len(Items(p)) + 1>> /\ w \in Spots /\ w \notin Live
         /\ Live' = Live \cup {w} /\ Done' = Done /\ Old' = Old /\ Id(w)' = id
         /\ \A q \in Pages \ {p} : Items(q)' = Items(q)
  <1> DEFINE s == flash[p].items
             b == [id |-> id, size |-> ItemSize[id], val |-> Null, chk |-> FALSE, stat |-> "new"]
             t == Append(s, b)
             n == Len(s) + 1
  <1>1. s \in Seq(ItemState) /\ Len(s) \in Nat /\ n \in Nat \ {0}
    BY PageFields DEF Items
  <1>2. b \in ItemState /\ b.id = id /\ b.chk = FALSE /\ b.stat = "new"
    BY DEF ItemState
  <1>3. flash' = [flash EXCEPT ![p].items = t]
    BY DEF NewHeader
  <1> HIDE DEF b
  <1>4. t \in Seq(ItemState) /\ Len(t) = n /\ t[n] = b /\ \A i \in 1 .. Len(s) : t[i] = s[i]
    BY <1>1, <1>2
  <1> HIDE DEF t
  <1>5. /\ flash' \in [Pages -> PageState] /\ SameFlags /\ flash'[p].items = t
        /\ \A q \in Pages \ {p} : flash'[q] = flash[q]
    BY <1>3, <1>4, OnePage
  <1>6. w = <<p, n>> /\ w = <<p, Len(Items(p)) + 1>>
    BY <1>4, <1>5 DEF Last, Items
  <1>7. \A i \in (Nat \ {0}) \ {n} : i \in 1 .. Len(t) <=> i \in 1 .. Len(s)
    BY <1>1, <1>4
  <1> HIDE DEF n
  <1>8. \A m \in Spots \ {w} : /\ m \in Live' <=> m \in Live
                               /\ m \in Done' <=> m \in Done
                               /\ m \in Old' <=> m \in Old
                               /\ m \in Live => Id(m)' = Id(m)
    BY <1>1, <1>4, <1>5, <1>6, <1>7, OneSpot
  <1>9. w[1] = p /\ w[2] = n /\ w \in Spots
    BY <1>1, <1>6 DEF Spots
  <1>10. w \notin Live
    BY <1>1, <1>6, <1>9, LiveSpots DEF Items
  <1>11. w \in Live' /\ w \notin Done' /\ w \notin Old' /\ Id(w)' = id
    <2>1. n \in 1 .. Len(t)
      BY <1>1, <1>4
    <2>2. w \in Places'
      BY <1>5, <1>9, <2>1, PlaceIsNext DEF Items
    <2>3. flash'[w[1]].items[w[2]] = b /\ id # Null
      BY <1>4, <1>5, <1>9, NvAssumption
    <2> QED BY <1>2, <2>2, <2>3 DEF Live, Done, Old, Id, Item
  <1>12. \A q \in Pages \ {p} : Items(q)' = Items(q)
    BY <1>5 DEF Items
  <1>13. /\ Live \subseteq Spots /\ Live' \subseteq Spots
         /\ Done \subseteq Live /\ Done' \subseteq Live'
         /\ Old \subseteq Live /\ Old' \subseteq Live'
    BY <1>5, LiveSpots, LiveSpotsNext
  <1>14. Live' = Live \cup {w}
    BY <1>8, <1>9, <1>10, <1>11, <1>13
  <1>15. Done' = Done /\ Old' = Old
    BY <1>8, <1>9, <1>10, <1>11, <1>13
  <1>16. SameIds
    BY <1>8, <1>10, <1>13 DEF SameIds
  <1> QED BY <1>5, <1>6, <1>9, <1>10, <1>11, <1>12, <1>14, <1>15, <1>16

LEMMA DataSets ==
  ASSUME flash \in [Pages -> PageState], NEW p \in Pages, NEW v \in Values \cup {Null},
         flash' = LastData(p, v)
  PROVE  /\ flash' \in [Pages -> PageState] /\ SameFlags /\ SameSets
         /\ \A q \in Pages : Len(Items(q)') = Len(Items(q))
  <1> DEFINE s == flash[p].items
             n == Len(s)
             b == [s[n] EXCEPT !.val = v]
             t == [s EXCEPT ![n] = b]
  <1>1. s \in Seq(ItemState) /\ n \in Nat /\ n = Len(s)
    BY PageFields DEF Items
  <1>2. ASSUME n \in 1 .. Len(s)
        PROVE  b \in ItemState /\ b.id = s[n].id /\ b.chk = s[n].chk /\ b.stat = s[n].stat
    <2>1. ASSUME NEW a \in ItemState
          PROVE  LET c == [a EXCEPT !.val = v]
                 IN  c \in ItemState /\ c.id = a.id /\ c.chk = a.chk /\ c.stat = a.stat
      BY DEF ItemState
    <2>2. s[n] \in ItemState
      BY <1>1, <1>2
    <2> QED BY <2>1, <2>2, Zenon
  <1>3. flash' = [flash EXCEPT ![p].items = t]
    BY DEF LastData
  <1> HIDE DEF b, n
  <1>4. /\ t \in Seq(ItemState) /\ Len(t) = Len(s)
        /\ \A i \in 1 .. Len(s) :
             t[i].id = s[i].id /\ t[i].chk = s[i].chk /\ t[i].stat = s[i].stat
    <2>1. CASE n \in 1 .. Len(s)
      BY <1>1, <1>2, <2>1
    <2>2. CASE n \notin 1 .. Len(s)
      <3>1. t = s
        BY <1>1, <2>2
      <3> QED BY <1>1, <3>1
    <2> QED BY <2>1, <2>2
  <1> HIDE DEF t
  <1>5. /\ flash' \in [Pages -> PageState] /\ SameFlags /\ flash'[p].items = t
        /\ \A q \in Pages \ {p} : flash'[q] = flash[q]
    BY <1>3, <1>4, OnePage
  <1>6. ASSUME NEW q \in Pages
        PROVE  /\ Len(Items(q)') = Len(Items(q))
               /\ \A i \in 1 .. Len(Items(q)) :
                    LET a == flash[q].items[i]
                        c == flash'[q].items[i]
                    IN  c.id = a.id /\ c.chk = a.chk /\ c.stat = a.stat
    <2>1. CASE q = p
      BY <1>4, <1>5, <2>1 DEF Items
    <2>2. CASE q # p
      BY <1>5, <2>2 DEF Items
    <2> QED BY <2>1, <2>2
  <1>7. SameSets
    BY <1>5, <1>6, SameCopies DEF SameSets, SameIds
  <1> QED BY <1>5, <1>6, <1>7

LEMMA ChkSets ==
  ASSUME flash \in [Pages -> PageState], NEW p \in Pages, NEW w, w = Last(p), w \in Live,
         flash' = LastChk(p)
  PROVE  /\ flash' \in [Pages -> PageState] /\ SameFlags /\ SameIds
         /\ Live' = Live /\ Done' = Done \cup {w} /\ Old' = Old
         /\ \A q \in Pages : Len(Items(q)') = Len(Items(q))
  <1> DEFINE s == flash[p].items
             n == Len(s)
             b == [s[n] EXCEPT !.chk = TRUE]
             t == [s EXCEPT ![n] = b]
  <1>1. s \in Seq(ItemState) /\ n \in Nat
    BY PageFields DEF Items
  <1>2. w = <<p, n>> /\ w[1] = p /\ w[2] = n /\ w \in Spots /\ w \in Places
    BY LiveSpots DEF Last, Items, Live
  <1>3. n \in 1 .. Len(s) /\ n \in Nat \ {0} /\ s[n] \in ItemState
    <2>1. n \in 1 .. Len(s)
      BY <1>2, PlaceIs DEF Items
    <2> QED BY <1>1, <2>1
  <1>4. b \in ItemState /\ b.id = s[n].id /\ b.chk = TRUE /\ b.stat = s[n].stat
    <2>1. ASSUME NEW a \in ItemState
          PROVE  LET c == [a EXCEPT !.chk = TRUE]
                 IN  c \in ItemState /\ c.id = a.id /\ c.chk = TRUE /\ c.stat = a.stat
      BY DEF ItemState
    <2> QED BY <1>3, <2>1, Zenon
  <1>5. flash' = [flash EXCEPT ![p].items = t]
    BY DEF LastChk
  <1> HIDE DEF b, n
  <1>6. /\ t \in Seq(ItemState) /\ Len(t) = Len(s) /\ t[n] = b
        /\ \A i \in (1 .. Len(s)) \ {n} : t[i] = s[i]
    BY <1>1, <1>3, <1>4
  <1> HIDE DEF t
  <1>7. /\ flash' \in [Pages -> PageState] /\ SameFlags /\ flash'[p].items = t
        /\ \A q \in Pages \ {p} : flash'[q] = flash[q]
    BY <1>5, <1>6, OnePage
  <1>8. \A m \in Spots \ {w} : /\ m \in Live' <=> m \in Live
                               /\ m \in Done' <=> m \in Done
                               /\ m \in Old' <=> m \in Old
                               /\ m \in Live => Id(m)' = Id(m)
    <2>1. \A i \in (Nat \ {0}) \ {n} :
            /\ i \in 1 .. Len(flash'[p].items) <=> i \in 1 .. Len(flash[p].items)
            /\ i \in 1 .. Len(flash[p].items) =>
                 LET a == flash[p].items[i]
                     c == flash'[p].items[i]
                 IN  c.id = a.id /\ c.chk = a.chk /\ c.stat = a.stat
      BY <1>6, <1>7
    <2>2. Spots \ {<<p, n>>} = Spots \ {w}
      BY <1>2
    <2> HIDE DEF s
    <2> QED BY <1>3, <1>7, <2>1, <2>2, OneSpot
  <1>9. w \in Live' /\ w \in Done' /\ (w \in Old' <=> w \in Old) /\ Id(w)' = Id(w)
    <2>1. w \in Places'
      BY <1>2, <1>3, <1>6, <1>7, PlaceIsNext DEF Items
    <2>2. /\ Item(w[1], w[2])'.id = s[n].id /\ Item(w[1], w[2])'.chk = TRUE
          /\ Item(w[1], w[2])'.stat = s[n].stat /\ Item(w[1], w[2]) = s[n]
      BY <1>2, <1>4, <1>6, <1>7 DEF Item
    <2> QED BY <1>2, <2>1, <2>2 DEF Live, Done, Old, Id
  <1>10. \A q \in Pages : Len(Items(q)') = Len(Items(q))
    BY <1>6, <1>7 DEF Items
  <1>12. /\ Live \subseteq Spots /\ Live' \subseteq Spots
         /\ Done \subseteq Live /\ Done' \subseteq Live'
         /\ Old \subseteq Live /\ Old' \subseteq Live'
    BY <1>7, LiveSpots, LiveSpotsNext
  <1>13. Live' = Live
    BY <1>8, <1>9, <1>12
  <1>14. Done' = Done \cup {w} /\ Old' = Old
    BY <1>2, <1>8, <1>9, <1>12
  <1>15. SameIds
    BY <1>8, <1>9, <1>12 DEF SameIds
  <1> QED BY <1>7, <1>10, <1>13, <1>14, <1>15

LEMMA ZeroSets ==
  ASSUME flash \in [Pages -> PageState], NEW l \in Live, flash' = ZeroItem(l[1], l[2])
  PROVE  /\ flash' \in [Pages -> PageState] /\ SameFlags
         /\ Live' = Live \ {l} /\ Done' = Done \ {l} /\ Old' = Old \ {l}
         /\ \A m \in Live \ {l} : Id(m)' = Id(m)
         /\ \A q \in Pages : Len(Items(q)') = Len(Items(q))
  <1>1. PICK p \in Pages, n \in Nat \ {0} : l = <<p, n>>
    BY LiveSpots DEF Spots
  <1>2. l[1] = p /\ l[2] = n /\ n \in 1 .. Len(Items(p)) /\ l \in Spots
    BY <1>1, LiveSpots DEF Live
  <1> DEFINE s == flash[p].items
             b == [id |-> Null, size |-> s[n].size, val |-> Null, chk |-> FALSE, stat |-> "new"]
             t == [s EXCEPT ![n] = b]
  <1>3. s \in Seq(ItemState) /\ n \in 1 .. Len(s) /\ s[n].size \in 1 .. PageCap
    BY <1>2, PageFields, ItemFields DEF Items
  <1>4. b \in ItemState /\ b.id = Null
    BY <1>3 DEF ItemState
  <1>5. flash' = [flash EXCEPT ![p].items = t]
    BY <1>2 DEF ZeroItem
  <1> HIDE DEF b
  <1>6. /\ t \in Seq(ItemState) /\ Len(t) = Len(s) /\ t[n] = b
        /\ \A i \in (1 .. Len(s)) \ {n} : t[i] = s[i]
    BY <1>3, <1>4
  <1> HIDE DEF t
  <1>7. /\ flash' \in [Pages -> PageState] /\ SameFlags /\ flash'[p].items = t
        /\ \A q \in Pages \ {p} : flash'[q] = flash[q]
    BY <1>5, <1>6, OnePage
  <1>8. \A m \in Spots \ {l} : /\ m \in Live' <=> m \in Live
                               /\ m \in Done' <=> m \in Done
                               /\ m \in Old' <=> m \in Old
                               /\ m \in Live => Id(m)' = Id(m)
    BY <1>1, <1>6, <1>7, OneSpot
  <1>9. l \notin Live'
    BY <1>2, <1>4, <1>6, <1>7 DEF Live, Id, Item
  <1>10. \A q \in Pages : Len(Items(q)') = Len(Items(q))
    BY <1>6, <1>7 DEF Items
  <1>12. /\ Live \subseteq Spots /\ Live' \subseteq Spots
         /\ Done \subseteq Live /\ Done' \subseteq Live'
         /\ Old \subseteq Live /\ Old' \subseteq Live'
    BY <1>7, LiveSpots, LiveSpotsNext
  <1>13. Live' = Live \ {l}
    BY <1>8, <1>9, <1>12
  <1>14. Done' = Done \ {l} /\ Old' = Old \ {l}
    BY <1>8, <1>9, <1>12
  <1>15. \A m \in Live \ {l} : Id(m)' = Id(m)
    BY <1>8, <1>12
  <1> QED BY <1>7, <1>10, <1>13, <1>14, <1>15

LEMMA EraseSets ==
  ASSUME flash \in [Pages -> PageState], NEW p \in Pages,
         flash' = [flash EXCEPT ![p] = ErasedPage]
  PROVE  /\ flash' \in [Pages -> PageState]
         /\ flash'[p].active = FALSE /\ flash'[p].xfer = FALSE
         /\ \A q \in Pages \ {p} : flash'[q] = flash[q]
         /\ Live' = Off(p) /\ Done' = Done \cap Off(p) /\ Old' = Old \cap Off(p)
         /\ \A m \in Off(p) : Id(m)' = Id(m)
  <1>1. /\ ErasedPage \in PageState /\ ErasedPage.active = FALSE /\ ErasedPage.xfer = FALSE
        /\ ErasedPage.items = <<>>
    BY DEF ErasedPage, PageState
  <1>2. /\ flash' \in [Pages -> PageState] /\ flash'[p] = ErasedPage
        /\ \A q \in Pages \ {p} : flash'[q] = flash[q]
    BY <1>1
  <1>3. ASSUME NEW m \in Spots
        PROVE  /\ m \in Live' <=> m \in Off(p)
               /\ m \in Done' <=> m \in Done \cap Off(p)
               /\ m \in Old' <=> m \in Old \cap Off(p)
               /\ m \in Off(p) => Id(m)' = Id(m)
    <2>1. PICK q \in Pages, i \in Nat \ {0} : m = <<q, i>>
      BY DEF Spots
    <2>2. m[1] = q /\ m[2] = i
      BY <2>1
    <2>3. m \in Places <=> i \in 1 .. Len(flash[q].items)
      BY <2>2, PlaceIs DEF Items
    <2>4. m \in Places' <=> i \in 1 .. Len(flash'[q].items)
      BY <1>2, <2>2, PlaceIsNext DEF Items
    <2>5. CASE q = p
      <3>1. m \notin Places'
        BY <1>1, <1>2, <2>4, <2>5
      <3>2. m \notin Live' /\ m \notin Done' /\ m \notin Old' /\ m \notin Off(p)
        BY <2>2, <2>5, <3>1 DEF Live, Done, Old, Off
      <3> QED BY <3>2
    <2>6. CASE q # p
      <3>1. flash'[q] = flash[q]
        BY <1>2, <2>6
      <3>2. /\ m \in Live' <=> m \in Live
            /\ m \in Done' <=> m \in Done
            /\ m \in Old' <=> m \in Old
            /\ m \in Live => Id(m)' = Id(m)
        BY <2>2, <2>3, <2>4, <3>1, SpotSame
      <3>3. m \in Off(p) <=> m \in Live
        BY <2>2, <2>6 DEF Off
      <3>4. m \in Done => m \in Live
        BY DEF Done
      <3>5. m \in Old => m \in Live
        BY DEF Old
      <3> QED BY <3>2, <3>3, <3>4, <3>5
    <2> QED BY <2>5, <2>6
  <1>4. /\ Live \subseteq Spots /\ Live' \subseteq Spots
        /\ Done \subseteq Live /\ Done' \subseteq Live'
        /\ Old \subseteq Live /\ Old' \subseteq Live' /\ Off(p) \subseteq Live
    BY <1>2, LiveSpots, LiveSpotsNext DEF Off
  <1>5. Live' = Off(p)
    BY <1>3, <1>4
  <1>6. Done' = Done \cap Off(p) /\ Old' = Old \cap Off(p)
    BY <1>3, <1>4
  <1> QED BY <1>1, <1>2, <1>3, <1>4, <1>5, <1>6

-----------------------------------------------------------------------------
(* What holds of the flash alone, from what holds at the steps.            *)

OneOff == \A p, q \in Pages : ~flash[p].active /\ ~flash[q].active => p = q

LEMMA PairFlash ==
  PendingIn({}) /\ Old \subseteq Done /\ Paired(Done) /\ OneOff => FlashOK
  BY DEF PendingIn, Paired, InUsed, OneOff, FlashOK

LEMMA StoredPairs ==
  flash \in [Pages -> PageState] /\ Stored(Live) => Old \subseteq Done /\ Paired(Done)
  BY LiveSpots DEF Stored, Alone, Paired

LEMMA ResOff ==
  OthersActive(pgRes) => OneOff
  BY DEF OthersActive, OneOff

\* What a compaction leaves alone until the reserve page is put in use.
CopySound == /\ PendingIn({job.pg}) /\ ~flash[pgRes].active
             /\ Off(pgRes) \subseteq Done /\ Alone(Off(pgRes)) /\ Old \subseteq Done

LEMMA CopyFlash ==
  pgRes \in Pages /\ OthersActive(pgRes) /\ job.pg # pgRes /\ CopySound => FlashOK
  <1> SUFFICES ASSUME pgRes \in Pages, OthersActive(pgRes), job.pg # pgRes, CopySound
               PROVE  FlashOK
    OBVIOUS
  <1>1. InUsed \subseteq Off(pgRes)
    BY DEF InUsed, Off, CopySound
  <1>2. OneOff
    BY ResOff
  <1>3. \A p \in Pages : flash[p].xfer => p = job.pg /\ flash[p].active
    BY DEF PendingIn, OthersActive, CopySound
  <1> QED BY <1>1, <1>2, <1>3 DEF FlashOK, OneOff, Paired, Alone, CopySound

LEMMA IdleFlash ==
  Shape /\ Idle2 /\ OthersActive(pgRes) => FlashOK
  <1> SUFFICES ASSUME Shape, Idle2, OthersActive(pgRes) PROVE FlashOK
    OBVIOUS
  <1>1. flash \in [Pages -> PageState]
    BY DEF Shape
  <1> QED BY <1>1, PairFlash, StoredPairs, ResOff DEF Idle2

-----------------------------------------------------------------------------
(* Between calls, and the start of one.                                    *)

LEMMA MarkPageSem ==
  ASSUME Inv, Inv', FlashOK, Control2, MarkPage
  PROVE  FlashOK' /\ Control2'
  <1>1. Shape /\ MarkOK /\ Mark2
    BY DEF Inv, Control, Control2, MarkPage
  <1>2. /\ flash' = [flash EXCEPT ![job.pg].xfer = TRUE] /\ pc' = "compact" /\ job' = job
        /\ pgRes' = pgRes /\ hot' = hot
    BY DEF MarkPage, Goto, ram
  <1>3. /\ job.pg \in Pages /\ job.pg # pgRes /\ pgRes \in Pages /\ job.ix = 1
        /\ flash \in [Pages -> PageState] /\ flash[pgRes] = ErasedPage /\ job.op # "boot"
    BY <1>1 DEF MarkOK, CallToCopy, Ready, InUse, Call_, Empty, Shape
  <1>4. /\ flash' \in [Pages -> PageState] /\ SameSets /\ flash'[job.pg].xfer = TRUE
        /\ \A q \in Pages \ {job.pg} : flash'[q] = flash[q]
    <2>1. PICK p \in Pages, b \in BOOLEAN : p = job.pg /\ b = flash[p].active
      BY <1>3, PageFields
    <2>2. flash' = [flash EXCEPT ![p] = [flash[p] EXCEPT !.active = b, !.xfer = TRUE]]
      BY <1>2, <1>3, <2>1, SetFlags
    <2>3. TRUE \in BOOLEAN
      OBVIOUS
    <2> QED BY <1>3, <2>1, <2>2, <2>3, FlagsSets
  <1>5. /\ Live \subseteq Done /\ Alone(Live) /\ HotIn(Live) /\ PendingIn({})
        /\ SourceDone /\ Only(Live)
    BY <1>1 DEF Mark2, Idle2, Stored
  <1>6. OnReserve = {}
    BY <1>3, LiveSpots DEF OnReserve, Items, ErasedPage
  <1>7. CopyState(1, {})'
    <2>1. (PendingIn({job.pg}) /\ flash[job.pg].xfer /\ ~flash[pgRes].active)'
      BY <1>2, <1>3, <1>4, <1>5 DEF PendingIn, ErasedPage
    <2>2. (Off(pgRes) \subseteq Done /\ Alone(Off(pgRes)) /\ Only(Off(pgRes)) /\ SourceDone)'
      BY <1>2, <1>4, <1>5 DEF SameSets, SameIds, Off, Alone, Only, SourceDone
    <2>3. Moved(OnReserve \ {}, 1)'
      BY <1>2, <1>4, <1>6 DEF SameSets, OnReserve, Moved, Alone
    <2>4. HotIn(Live \ {})'
      BY <1>2, <1>4, <1>5 DEF SameSets, SameIds, HotIn
    <2>5. (\A x \in HotIds : hot[x] # Null /\ hot[x][1] = job.pg => x = job.id \/ hot[x][2] >= 1)'
      <3>1. ASSUME NEW x \in HotIds, hot[x] # Null PROVE hot[x][2] >= 1
        <4>1. hot[x] \in Spots
          BY <1>3, <1>5, <3>1, LiveSpots DEF HotIn
        <4> QED BY <4>1 DEF Spots
      <3> QED BY <1>2, <3>1
    <2> QED BY <1>2, <1>3, <2>1, <2>2, <2>3, <2>4, <2>5 DEF CopyState
  <1>8. Compact2'
    BY <1>2, <1>3, <1>7 DEF Compact2
  <1>9. FlashOK'
    <2>1. (pgRes \in Pages /\ OthersActive(pgRes) /\ job.pg # pgRes)'
      BY <1>2 DEF Inv, Control, CompactOK, Copying
    <2>2. (Old \subseteq Done)'
      BY <1>4, <1>5 DEF SameSets, Old
    <2>3. CopySound'
      BY <1>7, <2>2 DEF CopyState, CopySound
    <2> QED BY <2>1, <2>3, CopyFlash, PTL
  <1>10. (job.op # "write" => job.src = Null)'
    BY <1>2 DEF Control2
  <1> QED BY <1>2, <1>8, <1>9, <1>10 DEF Control2

LEMMA FindLive ==
  ASSUME Shape, NEW id \in Ids, NEW l, l = findItem(id)
  PROVE  /\ l # Null => l \in Live /\ Id(l) = id
         /\ l = Null => \A m \in Live : Id(m) # id
  <1>1. id # Null
    BY NvAssumption
  <1>2. ASSUME l # Null PROVE l \in Live /\ Id(l) = id
    <2>1. l \in Spots /\ l[2] \in 1 .. Len(Items(l[1])) /\ Item(l[1], l[2]).id = id
      BY <1>2, FoundItem DEF Spots
    <2>2. l \in Places
      BY <2>1, PlaceIs DEF Shape
    <2> QED BY <1>1, <2>1, <2>2 DEF Live, Id
  <1>3. ASSUME l = Null, NEW m \in Live PROVE Id(m) # id
    <2>1. \A st : Copies(id, st) = {}
      <3>1. ASSUME NEW st \in {"new", "xfer"}, Copies(id, st) # {} PROVE FALSE
        <4>1. Copies(id, "new") # {} \/ Copies(id, "xfer") # {}
          BY <3>1
        <4>2. \E s : Copies(id, s) # {} /\ l = FirstOf(Copies(id, s))
          BY <4>1, Zenon DEF findItem
        <4>3. Null \in Pages \X (Nat \ {0})
          BY <1>3, <4>2, FirstCopy
        <4> QED BY <4>3, NvAssumption
      <3>2. ASSUME NEW st, st \notin {"new", "xfer"} PROVE Copies(id, st) = {}
        <4>1. ASSUME NEW k \in Places PROVE Item(k[1], k[2]).stat \in {"new", "xfer"}
          <5>1. k[1] \in Pages /\ k[2] \in 1 .. Len(Items(k[1])) /\ Items(k[1]) \in Seq(ItemState)
            BY PlacesAre, PageFields DEF Shape
          <5> QED BY <5>1, ItemFields DEF Item, Items
        <4> QED BY <3>2, <4>1 DEF Copies
      <3> QED BY <3>1, <3>2
    <2> QED BY <2>1 DEF Live, Copies, Id
  <1> QED BY <1>2, <1>3

LEMMA StartSem ==
  ASSUME Inv, Inv', FlashOK, Control2, pc = "idle", NEW j \in JobState, StartInitItem(j),
         j.op \in {"create", "write"}, j.com = Null, j.op # "write" => j.src = Null,
         j.op = "write" => j.src \in Live,
         \A l \in Live : Id(l) = j.id => l = j.src
  PROVE  FlashOK' /\ Control2'
  <1>1. Shape /\ Idle2
    BY DEF Inv, Control, Control2
  <1>2. PICK p : p = PageFor(j.id)
    OBVIOUS
  <1>3. /\ p # Null /\ flash' = flash /\ pgRes' = pgRes /\ hot' = hot
        /\ job' = [j EXCEPT !.pg = p]
        /\ pc' = IF ItemSize[j.id] <= PageCap - pgOff[p] THEN "header"
                 ELSE IF flash[p].xfer THEN "compact" ELSE "mark"
    BY <1>2 DEF StartInitItem, Goto, ram
  <1>4. p \in Pages
    BY <1>1, <1>2, <1>3, PageFound DEF Inv, Control, IdleOK, Ready, InUse
  <1>5. ~flash[p].xfer
    BY <1>1, <1>4 DEF Idle2, PendingIn
  <1>6. pc' \in {"header", "mark"}
    BY <1>3, <1>5
  <1>7. job'.op = j.op /\ job'.id = j.id /\ job'.src = j.src /\ job'.com = Null
    BY <1>3, <1>4, SetPage
  <1>8. /\ SameSets /\ SameFlags
        /\ Live \subseteq Done /\ Alone(Live) /\ HotIn(Live) /\ PendingIn({})
    BY <1>1, <1>3, SameFlash DEF Idle2, Stored, Shape
  <1>9. (Stored(Live) /\ PendingIn({}) /\ SourceDone /\ Only(Live))'
    <2>1. (Live \subseteq Done)'
      BY <1>8 DEF SameSets
    <2>2. Alone(Live)'
      BY <1>8 DEF SameSets, SameIds, Alone
    <2>3. HotIn(Live)'
      BY <1>3, <1>8 DEF SameSets, SameIds, HotIn
    <2>4. PendingIn({})'
      BY <1>8 DEF SameFlags, PendingIn
    <2>5. SourceDone' /\ Only(Live)'
      BY <1>7, <1>8 DEF SameSets, SameIds, Only, SourceDone
    <2> QED BY <2>1, <2>2, <2>3, <2>4, <2>5 DEF Stored
  <1>10. Mark2' /\ Header2'
    <2>1. (Live \ {} = Live)'
      OBVIOUS
    <2> QED BY <1>7, <1>9, <2>1 DEF Mark2, Header2, Idle2, WriteState
  <1>11. FlashOK'
    BY <1>3, <1>8 DEF FlashOK, SameSets, SameIds, SameFlags, Paired, Alone, InUsed
  <1> QED BY <1>6, <1>7, <1>10, <1>11 DEF Control2

LEMMA CreateSem ==
  ASSUME Inv, Inv', FlashOK, Control2, NEW id \in Ids, NEW v \in Values,
         osal_nv_item_init(id, v)
  PROVE  FlashOK' /\ Control2'
  <1>0. PICK j : j = Creating(NoJob, id, v)
    OBVIOUS
  <1>1. /\ j \in JobState /\ j.op = "create" /\ j.id = id /\ j.com = Null /\ j.src = Null
    BY <1>0, NoJobIs, SetCreate
  <1>2. pc = "idle" /\ findItem(id) = Null /\ StartInitItem(j)
    BY <1>0 DEF osal_nv_item_init, Creating
  <1>3. \A l \in Live : Id(l) # id
    BY <1>2, FindLive DEF Inv
  <1> QED BY <1>1, <1>2, <1>3, StartSem

LEMMA WriteSem ==
  ASSUME Inv, Inv', FlashOK, Control2, NEW id \in Ids, NEW v \in Values, osal_nv_write(id, v)
  PROVE  FlashOK' /\ Control2'
  <1>1. PICK l : l = findItem(id)
    OBVIOUS
  <1>0. PICK j : j = Rewriting(NoJob, id, v, l)
    OBVIOUS
  <1>2. pc = "idle" /\ l # Null /\ StartInitItem(j)
    BY <1>0, <1>1 DEF osal_nv_write, Rewriting
  <1>3. l \in Live /\ Id(l) = id /\ l \in Pages \X (Nat \ {0})
    BY <1>1, <1>2, FindLive, LiveSpots DEF Inv, Shape, Spots
  <1>4. /\ j \in JobState /\ j.op = "write" /\ j.id = id /\ j.com = Null /\ j.src = l
    BY <1>0, <1>3, NoJobIs, SetWrite
  <1>5. \A m \in Live : Id(m) = id => m = l
    BY <1>2, <1>3 DEF Control2, Idle2, Stored, Alone
  <1> QED BY <1>2, <1>3, <1>4, <1>5, StartSem

\* Between calls: the flash of a step that leads there.
LEMMA ToIdle ==
  Inv /\ pc = "idle" /\ Idle2 => FlashOK /\ Control2
  <1> SUFFICES ASSUME Inv, pc = "idle", Idle2 PROVE FlashOK /\ Control2
    OBVIOUS
  <1>1. Shape /\ IdleOK
    BY DEF Inv, Control
  <1>2. OthersActive(pgRes) /\ job.src = Null
    BY <1>1 DEF IdleOK, Ready, InUse, NoJob
  <1>3. FlashOK
    BY <1>1, <1>2, IdleFlash
  <1> QED BY <1>2, <1>3 DEF Control2

LEMMA ReopenSem ==
  ASSUME Inv, Inv', FlashOK, Control2, NEW id \in Ids, Reopen(id)
  PROVE  FlashOK' /\ Control2'
  <1>1. PICK l : l = findItem(id)
    OBVIOUS
  <1>2. /\ Shape /\ Idle2 /\ l # Null /\ flash' = flash /\ pc' = "idle" /\ DOMAIN hot = HotIds
        /\ hot' = IF id \in HotIds THEN [hot EXCEPT ![id] = l] ELSE hot
    BY <1>1 DEF Inv, Shape, Control2, Reopen, hotItemUpdate
  <1>3. l \in Live /\ Id(l) = id
    BY <1>1, <1>2, FindLive
  <1>4. /\ SameSets /\ SameFlags
        /\ Live \subseteq Done /\ Alone(Live) /\ HotIn(Live) /\ PendingIn({})
    BY <1>2, SameFlash DEF Idle2, Stored, Shape
  <1>5. HotIn(Live)'
    <2>1. ASSUME NEW x \in HotIds, hot'[x] # Null PROVE hot'[x] \in Live /\ Id(hot'[x]) = x
      <3>1. hot'[x] = hot[x] \/ (hot'[x] = l /\ x = id)
        BY <1>2
      <3> QED BY <1>3, <1>4, <2>1, <3>1 DEF HotIn
    <2>2. ASSUME NEW x \in HotIds, hot'[x] # Null PROVE Id(hot[x])' = x
      <3>1. PICK m : m = hot'[x]
        OBVIOUS
      <3>2. m \in Live /\ Id(m) = x
        BY <2>1, <2>2, <3>1
      <3>3. Id(m)' = x
        BY <1>4, <3>2 DEF SameSets, SameIds
      <3> QED BY <3>1, <3>3 DEF Id
    <2> QED BY <1>4, <2>1, <2>2 DEF HotIn, SameSets
  <1>6. Idle2'
    BY <1>4, <1>5 DEF SameSets, SameIds, SameFlags, Alone, PendingIn, Idle2, Stored
  <1>7. (pc = "idle")'
    BY <1>2
  <1> QED BY <1>6, <1>7, ToIdle, PTL

LEMMA DeleteSem ==
  ASSUME Inv, Inv', FlashOK, Control2, NEW id \in Ids, osal_nv_delete(id)
  PROVE  FlashOK' /\ Control2'
  <1>1. PICK l : l = findItem(id)
    OBVIOUS
  <1>2. /\ Shape /\ Idle2 /\ l # Null /\ id \notin HotIds
        /\ flash' = ZeroItem(l[1], l[2]) /\ pc' = "idle" /\ hot' = hot
    BY <1>1 DEF Inv, Control2, osal_nv_delete, ZeroAt
  <1>3. l \in Live /\ Id(l) = id
    BY <1>1, <1>2, FindLive
  <1>4. /\ SameFlags /\ Live' = Live \ {l} /\ Done' = Done \ {l}
        /\ \A m \in Live \ {l} : Id(m)' = Id(m)
    BY <1>2, <1>3, ZeroSets DEF Shape
  <1>5. Live \subseteq Done /\ Alone(Live) /\ HotIn(Live) /\ PendingIn({})
    BY <1>2 DEF Idle2, Stored
  <1>6. HotIn(Live)'
    BY <1>2, <1>3, <1>4, <1>5 DEF HotIn
  <1>7. Idle2'
    BY <1>4, <1>5, <1>6 DEF SameFlags, Alone, PendingIn, Idle2, Stored
  <1>8. (pc = "idle")'
    BY <1>2
  <1> QED BY <1>7, <1>8, ToIdle, PTL

-----------------------------------------------------------------------------
(* A compaction.                                                           *)

LEMMA Took ==
  ASSUME Shape, NEW ok \in WriteTakes, NEW after, FlashWrite(ok, after), faults' = 0
  PROVE  ok = TRUE /\ flash' = after
  <1>1. ok \in BOOLEAN /\ faults \in Nat
    <2>1. ok \in BOOLEAN
      BY DEF WriteTakes
    <2>2. faults \in 0 .. MaxFaults
      BY DEF Shape
    <2> QED BY <2>1, <2>2
  <1>2. ok
    <2>1. faults + 1 # 0
      BY <1>1
    <2> QED BY <1>1, <2>1 DEF FlashWrite
  <1> QED BY <1>1, <1>2 DEF FlashWrite

\* The items of the compacted page that are left are those to be copied and the one being
\* written.
LEMMA LeftToCopy ==
  ASSUME Shape, job.pg \in Pages, job.pg # pgRes, Off(pgRes) \subseteq Done,
         NEW l \in Live, l[1] = job.pg, l[2] >= job.ix, Id(l) # job.id
  PROVE  l[2] \in ToCopy
  <1>1. l \in Done /\ l[2] \in 1 .. Len(Items(job.pg))
    BY LiveSpots DEF Off, Shape
  <1>2. DOMAIN flash[job.pg].items = 1 .. Len(Items(job.pg))
    BY PageFields DEF Items, Shape
  <1> QED BY <1>1, <1>2 DEF ToCopy, Live, Done, Id

LEMMA CompactItemSem ==
  ASSUME Inv, Inv', FlashOK, Control2, CompactItem
  PROVE  FlashOK' /\ Control2'
  <1>1. PICK i : i = CHOOSE k \in ToCopy : \A m \in ToCopy : k <= m
    OBVIOUS
  <1>2. /\ ToCopy # {} /\ flash' = XferItem(job.pg, i) /\ pc' = "copyHdr" /\ pc = "compact"
        /\ job' = [job EXCEPT !.ix = i] /\ pgRes' = pgRes /\ hot' = hot
    BY <1>1 DEF CompactItem, Goto, ram
  <1>3. Shape /\ Copying /\ CopyState(job.ix, {})
    BY <1>2 DEF Inv, Control, CompactOK, Control2, Compact2
  <1>4. /\ job.pg \in Pages /\ job.pg # pgRes /\ pgRes \in Pages /\ job.ix \in Nat
        /\ flash \in [Pages -> PageState] /\ job \in JobState
    BY <1>3, JobFields DEF Shape, Copying
  <1>5. /\ i \in 1 .. Len(Items(job.pg)) /\ i >= job.ix /\ Item(job.pg, i).id \in Ids \ {job.id}
        /\ \A m \in ToCopy : i <= m
    BY <1>1, <1>2, <1>3, <1>4, NextToCopy
  <1>6. i \in Nat \ {0}
    BY <1>4, <1>5, PageFields
  <1>7. PICK l : l = <<job.pg, i>>
    OBVIOUS
  <1>8. l[1] = job.pg /\ l[2] = i /\ l \in Live /\ Id(l) # job.id
    <2>1. l \in Places
      BY <1>4, <1>5, <1>6, <1>7, PlaceIs DEF Spots
    <2> QED BY <1>5, <1>7, <2>1, NvAssumption DEF Live, Id
  <1>9. /\ SameFlags /\ SameIds /\ Live' = Live /\ Done' = Done /\ Old' = Old \cup {l}
    BY <1>2, <1>4, <1>8, XferSets
  <1>10. /\ job'.ix = i /\ job'.op = job.op /\ job'.id = job.id /\ job'.src = job.src
         /\ job'.pg = job.pg
    BY <1>2, <1>4, <1>6, SetIx
  <1>11. /\ PendingIn({job.pg}) /\ flash[job.pg].xfer /\ ~flash[pgRes].active
         /\ Off(pgRes) \subseteq Done /\ Alone(Off(pgRes)) /\ Only(Off(pgRes)) /\ SourceDone
         /\ Moved(OnReserve \ {}, job.ix) /\ HotIn(Live \ {})
    BY <1>3 DEF CopyState
  <1>12. CopyState(i, {})'
    <2>1. (PendingIn({job.pg}) /\ flash[job.pg].xfer /\ ~flash[pgRes].active)'
      BY <1>2, <1>4, <1>9, <1>10, <1>11 DEF PendingIn, SameFlags
    <2>2. (Off(pgRes) \subseteq Done /\ Alone(Off(pgRes)) /\ Only(Off(pgRes)) /\ SourceDone)'
      BY <1>2, <1>9, <1>10, <1>11 DEF SameIds, Off, Alone, Only, SourceDone
    <2>3. Moved(OnReserve \ {}, i)'
      <3>1. OnReserve' = OnReserve /\ l \notin OnReserve /\ OnReserve \subseteq Live
        BY <1>2, <1>4, <1>8, <1>9 DEF OnReserve
      <3>2. (OnReserve \subseteq Done \ Old /\ Alone(OnReserve))'
        BY <1>9, <1>11, <3>1 DEF Moved, Alone, SameIds
      <3>3. ASSUME NEW k \in OnReserve
            PROVE  /\ Id(k)' # job'.id
                   /\ \E m \in Old' : m[1] = job'.pg /\ m[2] < i /\ Id(m)' = Id(k)'
        <4>1. PICK m \in Old : m[1] = job.pg /\ m[2] < job.ix /\ Id(m) = Id(k)
          BY <1>11 DEF Moved
        <4>2. m \in Live /\ k \in Live /\ m[2] \in Nat /\ Id(k) # job.id
          BY <1>4, <1>11, <3>1, LiveSpots DEF Moved, Spots
        <4>3. m[2] < i /\ Id(m)' = Id(m) /\ Id(k)' = Id(k)
          BY <1>4, <1>5, <1>6, <1>9, <4>1, <4>2 DEF SameIds
        <4> QED BY <1>9, <1>10, <4>1, <4>2, <4>3
      <3> QED BY <3>1, <3>2, <3>3 DEF Moved
    <2>4. HotIn(Live \ {})'
      BY <1>2, <1>9, <1>11 DEF SameIds, HotIn
    <2>5. ASSUME NEW x \in HotIds, hot[x] # Null, hot[x][1] = job.pg, x # job.id
          PROVE  hot[x][2] >= i
      <3>1. hot[x] \in Live /\ Id(hot[x]) = x
        BY <1>11, <2>5 DEF HotIn
      <3>2. hot[x][2] >= job.ix
        BY <1>3, <2>5 DEF CopyState
      <3>3. hot[x][2] \in ToCopy
        BY <1>3, <1>4, <1>11, <2>5, <3>1, <3>2, LeftToCopy
      <3>4. hot[x][2] \in Nat
        BY <1>4, <3>1, LiveSpots DEF Spots
      <3> QED BY <1>5, <1>6, <3>3, <3>4
    <2>6. (job.op = "boot" => \A x \in HotIds : hot[x] # Null => hot[x][1] = pgRes)'
      BY <1>2, <1>3, <1>10 DEF CopyState
    <2> QED BY <1>2, <1>10, <2>1, <2>2, <2>3, <2>4, <2>5, <2>6 DEF CopyState
  <1>13. CopyHdr2'
    BY <1>7, <1>9, <1>10, <1>12 DEF CopyHdr2
  <1>14. FlashOK'
    <2>1. (pgRes \in Pages /\ OthersActive(pgRes) /\ job.pg # pgRes)'
      BY <1>2 DEF Inv, Control, CopyHdrOK, Copying
    <2>2. (Old \subseteq Done)'
      BY <1>4, <1>8, <1>9, <1>11 DEF FlashOK, Off
    <2>3. CopySound'
      BY <1>12, <2>2 DEF CopyState, CopySound
    <2> QED BY <2>1, <2>3, CopyFlash, PTL
  <1>15. (job.op # "write" => job.src = Null)'
    BY <1>10 DEF Control2
  <1> QED BY <1>2, <1>13, <1>14, <1>15 DEF Control2

\* What the steps of a copy keep: the other pages, and what was copied before.
CopyBase(n, new) ==
  /\ PendingIn({job.pg}) /\ flash[job.pg].xfer /\ ~flash[pgRes].active
  /\ Off(pgRes) \subseteq Done /\ Alone(Off(pgRes)) /\ Only(Off(pgRes)) /\ SourceDone
  /\ Moved(OnReserve \ new, n)
  /\ HotIn(Live \ new)

\* The item being written is added to the reserve page, or gets its data.
LEMMA BaseKept ==
  ASSUME Shape, pgRes \in Pages, NEW n, NEW new, NEW new2, CopyBase(n, new), pgRes' = pgRes,
         hot' = hot, SameFlags, SameIds, job'.op = job.op, job'.id = job.id,
         job'.src = job.src, job'.pg = job.pg, job.pg \in Pages,
         Live \subseteq Live', Done' = Done,
         Old \subseteq Old', \A l \in Old' \ Old : l[1] # pgRes,
         Live' \ new2 = Live \ new, \A l \in Live' \ Live : l[1] = pgRes
  PROVE  CopyBase(n, new2)'
  <1>1. /\ PendingIn({job.pg}) /\ flash[job.pg].xfer /\ ~flash[pgRes].active
        /\ Off(pgRes) \subseteq Done /\ Alone(Off(pgRes)) /\ Only(Off(pgRes)) /\ SourceDone
        /\ Moved(OnReserve \ new, n) /\ HotIn(Live \ new)
    BY DEF CopyBase
  <1>2. (PendingIn({job.pg}) /\ flash[job.pg].xfer /\ ~flash[pgRes].active)'
    BY <1>1 DEF PendingIn, SameFlags
  <1>3. Off(pgRes)' = Off(pgRes) /\ Off(pgRes) \subseteq Live
    BY DEF Off
  <1>4. (Off(pgRes) \subseteq Done /\ Alone(Off(pgRes)) /\ Only(Off(pgRes)) /\ SourceDone)'
    BY <1>1, <1>3 DEF SameIds, Alone, Only, SourceDone
  <1>5. OnReserve' \ new2 = OnReserve \ new /\ OnReserve \ new \subseteq Live
    BY DEF OnReserve
  <1>6. (OnReserve \ new2 \subseteq Done \ Old /\ Alone(OnReserve \ new2))'
    <2>1. \A l \in OnReserve : l[1] = pgRes
      BY DEF OnReserve
    <2> QED BY <1>1, <1>5, <2>1 DEF Moved, Alone, SameIds
  <1>7. ASSUME NEW k \in OnReserve \ new
        PROVE  /\ Id(k)' # job'.id
               /\ \E m \in Old' : m[1] = job'.pg /\ m[2] < n /\ Id(m)' = Id(k)'
    <2>1. PICK m \in Old : m[1] = job.pg /\ m[2] < n /\ Id(m) = Id(k)
      BY <1>1 DEF Moved
    <2>2. m \in Live /\ k \in Live /\ Id(k) # job.id
      BY <1>1, <1>5 DEF Moved, Old
    <2>3. Id(m)' = Id(m) /\ Id(k)' = Id(k)
      BY <2>2 DEF SameIds
    <2> QED BY <2>1, <2>2, <2>3
  <1>8. Moved(OnReserve \ new2, n)'
    BY <1>5, <1>6, <1>7 DEF Moved
  <1>9. HotIn(Live \ new2)'
    <2>1. ASSUME NEW x \in HotIds, hot[x] # Null PROVE hot[x] \in Live \ new /\ Id(hot[x])' = x
      BY <1>1, <2>1 DEF HotIn, SameIds
    <2> QED BY <2>1 DEF HotIn
  <1> QED BY <1>2, <1>4, <1>8, <1>9 DEF CopyBase

\* The place of a hot item that is on the compacted page is still to be copied.
HotLeft(n) == \A x \in HotIds : hot[x] # Null /\ hot[x][1] = job.pg => x = job.id \/ hot[x][2] >= n
HotMoved   == job.op = "boot" => \A x \in HotIds : hot[x] # Null => hot[x][1] = pgRes

LEMMA CopyParts ==
  \A n, new : CopyState(n, new) <=> CopyBase(n, new) /\ HotLeft(n) /\ HotMoved
  BY DEF CopyState, CopyBase, HotLeft, HotMoved

LEMMA CopyHeaderSem ==
  ASSUME Inv, Inv', FlashOK, Control2, CopyHeader, faults' = 0
  PROVE  FlashOK' /\ Control2'
  <1>1. PICK ok \in WriteTakes :
          /\ pc = "copyHdr"
          /\ WriteHeader(pgRes, Item(job.pg, job.ix).id, ok)
          /\ IF ok THEN Goto("copyData", job) ELSE CompactFail
          /\ UNCHANGED <<pgRes, hot>>
    BY DEF CopyHeader
  <1>2. Shape /\ Copying /\ AtItem /\ CopyState(job.ix, {}) /\ <<job.pg, job.ix>> \in Old
    BY <1>1 DEF Inv, Control, CopyHdrOK, Control2, CopyHdr2
  <1>3. PICK id : id = Item(job.pg, job.ix).id
    OBVIOUS
  <1>4. /\ job.pg \in Pages /\ job.pg # pgRes /\ pgRes \in Pages /\ id \in Ids
        /\ flash \in [Pages -> PageState]
    BY <1>2, <1>3 DEF Shape, Copying, AtItem
  <1>5. ok = TRUE /\ flash' = NewHeader(pgRes, id)
    BY <1>1, <1>2, <1>3, Took DEF WriteHeader
  <1>6. pc' = "copyData" /\ job' = job /\ pgRes' = pgRes /\ hot' = hot
    BY <1>1, <1>5 DEF Goto
  <1>7. PICK w : w = Last(pgRes)'
    OBVIOUS
  <1>8. /\ SameFlags /\ SameIds /\ w \notin Live /\ w \in Spots
        /\ w = <<pgRes, Len(Items(pgRes)) + 1>>
        /\ Live' = Live \cup {w} /\ Done' = Done /\ Old' = Old /\ Id(w)' = id
        /\ \A q \in Pages \ {pgRes} : Items(q)' = Items(q)
    <2>1. PICK r : r = pgRes
      OBVIOUS
    <2>2. w = Last(r)' /\ ItemSize[id] \in 1 .. PageCap
      BY <1>4, <1>6, <1>7, <2>1, NvAssumption DEF Last
    <2>3. r \in Pages /\ flash' = NewHeader(r, id)
      BY <1>4, <1>5, <2>1
    <2> QED BY <1>4, <2>1, <2>2, <2>3, HeaderSets
  <1>9. CopyBase(job.ix, {}) /\ HotLeft(job.ix) /\ HotMoved
    BY <1>2, CopyParts
  <1>10. CopyBase(job.ix, {w})'
    <2>1. Live' \ {w} = Live \ {} /\ \A l \in Live' \ Live : l[1] = pgRes
      BY <1>8
    <2>2. PICK k : k = job.ix
      OBVIOUS
    <2>3. CopyBase(k, {w})'
      BY <1>2, <1>4, <1>6, <1>8, <1>9, <2>1, <2>2, BaseKept
    <2> QED BY <1>6, <2>2, <2>3 DEF CopyBase, Moved
  <1>11. HotLeft(job.ix)' /\ HotMoved'
    BY <1>6, <1>9 DEF HotLeft, HotMoved
  <1>12. CopyState(job.ix, {Last(pgRes)})'
    BY <1>7, <1>10, <1>11 DEF CopyState, CopyBase, HotLeft, HotMoved
  <1>13. CopyItem2'
    <2>1. (<<job.pg, job.ix>> \in Old)'
      BY <1>2, <1>6, <1>8
    <2>2. Item(job.pg, job.ix)' = Item(job.pg, job.ix)
      BY <1>4, <1>6, <1>8 DEF Item, Items
    <2>3. Id(Last(pgRes))' = id
      BY <1>7, <1>8 DEF Id
    <2>4. (Last(pgRes) \in Live \ (Done \cup Old))'
      BY <1>7, <1>8 DEF Done, Old
    <2> QED BY <1>3, <1>12, <2>1, <2>2, <2>3, <2>4 DEF CopyItem2, InWriting
  <1>14. FlashOK'
    <2>1. (pgRes \in Pages /\ OthersActive(pgRes) /\ job.pg # pgRes)'
      BY <1>6 DEF Inv, Control, CopyItemOK, Copying
    <2>2. (Old \subseteq Done)'
      BY <1>8 DEF FlashOK
    <2>3. CopySound'
      BY <1>12, <2>2 DEF CopyState, CopySound
    <2> QED BY <2>1, <2>3, CopyFlash, PTL
  <1>15. (job.op # "write" => job.src = Null)'
    BY <1>6 DEF Control2
  <1> QED BY <1>6, <1>13, <1>14, <1>15 DEF Control2

LEMMA CopyDataSem ==
  ASSUME Inv, Inv', FlashOK, Control2, CopyData, faults' = 0
  PROVE  FlashOK' /\ Control2'
  <1>1. PICK ok \in WriteTakes :
          /\ pc = "copyData"
          /\ FlashWrite(ok, LastData(pgRes, Item(job.pg, job.ix).val))
          /\ IF ok THEN Goto("copyChk", job) ELSE CompactFail
          /\ UNCHANGED ram
    BY DEF CopyData
  <1>2. /\ Shape /\ Copying /\ AtItem /\ CopyState(job.ix, {Last(pgRes)})
        /\ <<job.pg, job.ix>> \in Old /\ InWriting(Last(pgRes), Item(job.pg, job.ix).id)
    BY <1>1 DEF Inv, Control, CopyItemOK, Control2, CopyItem2
  <1>3. PICK v : v = Item(job.pg, job.ix).val
    OBVIOUS
  <1>4. /\ job.pg \in Pages /\ job.pg # pgRes /\ pgRes \in Pages
        /\ flash \in [Pages -> PageState] /\ job \in JobState
    BY <1>2 DEF Shape, Copying
  <1>5. ok = TRUE /\ flash' = LastData(pgRes, v)
    BY <1>1, <1>2, <1>3, Took
  <1>6. pc' = "copyChk" /\ job' = job /\ pgRes' = pgRes /\ hot' = hot
    BY <1>1, <1>5 DEF Goto, ram
  <1>7. v \in Values \cup {Null}
    <2>1. Items(job.pg) \in Seq(ItemState) /\ job.ix \in 1 .. Len(Items(job.pg))
      BY <1>2, <1>4, JobFields, PageFields DEF AtItem
    <2> QED BY <1>3, <2>1, ItemFields DEF Item, Items
  <1>8. SameFlags /\ SameSets /\ \A q \in Pages : Len(Items(q)') = Len(Items(q))
    BY <1>4, <1>5, <1>7, DataSets
  <1>9. CopyBase(job.ix, {Last(pgRes)}) /\ HotLeft(job.ix) /\ HotMoved
    BY <1>2, CopyParts
  <1>10. PICK w : w = Last(pgRes)
    OBVIOUS
  <1>11. Last(pgRes)' = w
    BY <1>4, <1>6, <1>8, <1>10 DEF Last
  <1>12. CopyBase(job.ix, {w})'
    <2>1. PICK k : k = job.ix
      OBVIOUS
    <2>2. CopyBase(k, {w})'
      BY <1>2, <1>4, <1>6, <1>8, <1>9, <1>10, <2>1, BaseKept DEF SameSets
    <2> QED BY <1>6, <2>1, <2>2 DEF CopyBase, Moved
  <1>13. HotLeft(job.ix)' /\ HotMoved'
    BY <1>6, <1>9 DEF HotLeft, HotMoved
  <1>14. CopyState(job.ix, {Last(pgRes)})'
    BY <1>11, <1>12, <1>13 DEF CopyState, CopyBase, HotLeft, HotMoved
  <1>15. CopyItem2'
    <2>1. (<<job.pg, job.ix>> \in Old)'
      BY <1>2, <1>6, <1>8 DEF SameSets
    <2>2. w \in Live \ (Done \cup Old) /\ Id(w) = Item(job.pg, job.ix).id
      BY <1>2, <1>10 DEF InWriting
    <2>3. Id(w)' = Id(w)
      BY <1>8, <2>2 DEF SameSets, SameIds
    <2>4. Item(job.pg, job.ix)'.id = Item(job.pg, job.ix).id
      <3>1. PICK m : m = <<job.pg, job.ix>>
        OBVIOUS
      <3>2. m \in Live /\ m[1] = job.pg /\ m[2] = job.ix
        BY <1>2, <3>1 DEF Old
      <3>3. Id(m)' = Id(m)
        BY <1>8, <3>2 DEF SameSets, SameIds
      <3> QED BY <1>6, <3>2, <3>3 DEF Id
    <2> QED BY <1>8, <1>11, <1>14, <2>1, <2>2, <2>3, <2>4 DEF CopyItem2, InWriting, SameSets, Id
  <1>16. FlashOK'
    <2>1. (pgRes \in Pages /\ OthersActive(pgRes) /\ job.pg # pgRes)'
      BY <1>6 DEF Inv, Control, CopyItemOK, Copying
    <2>2. (Old \subseteq Done)'
      BY <1>8 DEF FlashOK, SameSets
    <2>3. CopySound'
      BY <1>14, <2>2 DEF CopyState, CopySound
    <2> QED BY <2>1, <2>3, CopyFlash, PTL
  <1>17. (job.op # "write" => job.src = Null)'
    BY <1>6 DEF Control2
  <1> QED BY <1>6, <1>15, <1>16, <1>17 DEF Control2

LEMMA CopyChkSem ==
  ASSUME Inv, Inv', FlashOK, Control2, CopyChk, faults' = 0
  PROVE  FlashOK' /\ Control2'
  <1>1. PICK ok \in WriteTakes :
          /\ pc = "copyChk"
          /\ FlashWrite(ok, LastChk(pgRes))
          /\ IF ok THEN /\ Goto("compact", [job EXCEPT !.ix = @ + 1])
                        /\ hot' = hotItemUpdate(Item(job.pg, job.ix).id,
                                                <<pgRes, Len(flash[pgRes].items)>>)
                   ELSE CompactFail /\ UNCHANGED hot
          /\ UNCHANGED <<pgOff, pgLost, pgRes>>
    BY DEF CopyChk
  <1>2. /\ Shape /\ Copying /\ AtItem /\ CopyState(job.ix, {Last(pgRes)})
        /\ <<job.pg, job.ix>> \in Old /\ InWriting(Last(pgRes), Item(job.pg, job.ix).id)
    BY <1>1 DEF Inv, Control, CopyItemOK, Control2, CopyItem2
  <1>3. PICK id : id = Item(job.pg, job.ix).id
    OBVIOUS
  <1>4. /\ job.pg \in Pages /\ job.pg # pgRes /\ pgRes \in Pages /\ id \in Ids \ {job.id}
        /\ flash \in [Pages -> PageState] /\ job \in JobState /\ DOMAIN hot = HotIds
        /\ job.ix \in Nat /\ job.ix + 1 \in Nat \ {0}
    <2>1. job.ix \in Nat
      BY <1>2, JobFields DEF Shape
    <2> QED BY <1>2, <1>3, <2>1 DEF Shape, Copying, AtItem
  <1>5. ok = TRUE /\ flash' = LastChk(pgRes)
    BY <1>1, <1>2, Took
  <1>6. PICK w : w = Last(pgRes)
    OBVIOUS
  <1>7. /\ pc' = "compact" /\ job' = [job EXCEPT !.ix = job.ix + 1] /\ pgRes' = pgRes
        /\ hot' = IF id \in HotIds THEN [hot EXCEPT ![id] = w] ELSE hot
    BY <1>1, <1>3, <1>5, <1>6 DEF Goto, hotItemUpdate, Last, Items
  <1>8. /\ job'.ix = job.ix + 1 /\ job'.op = job.op /\ job'.id = job.id
        /\ job'.src = job.src /\ job'.pg = job.pg
    BY <1>4, <1>7, SetIx
  <1>9. w \in Live \ (Done \cup Old) /\ Id(w) = id /\ w[1] = pgRes
    BY <1>2, <1>3, <1>6 DEF InWriting, Last
  <1>10. SameFlags /\ SameIds /\ Live' = Live /\ Done' = Done \cup {w} /\ Old' = Old
    BY <1>4, <1>5, <1>6, <1>9, ChkSets
  <1>11. /\ PendingIn({job.pg}) /\ flash[job.pg].xfer /\ ~flash[pgRes].active
         /\ Off(pgRes) \subseteq Done /\ Alone(Off(pgRes)) /\ Only(Off(pgRes)) /\ SourceDone
         /\ Moved(OnReserve \ {w}, job.ix) /\ HotIn(Live \ {w})
         /\ HotLeft(job.ix) /\ HotMoved
    BY <1>2, <1>6 DEF CopyState, HotLeft, HotMoved
  <1>12. PICK c : c = <<job.pg, job.ix>>
    OBVIOUS
  <1>13. c \in Old /\ c \in Off(pgRes) /\ Id(c) = id /\ c[1] = job.pg /\ c[2] = job.ix
    BY <1>2, <1>3, <1>4, <1>12 DEF Old, Off, Id
  <1>14. CopyBase(job.ix, {})'
    <2>1. (PendingIn({job.pg}) /\ flash[job.pg].xfer /\ ~flash[pgRes].active)'
      BY <1>4, <1>7, <1>8, <1>10, <1>11 DEF PendingIn, SameFlags
    <2>2. (Off(pgRes) \subseteq Done /\ Alone(Off(pgRes)) /\ Only(Off(pgRes)) /\ SourceDone)'
      BY <1>7, <1>8, <1>10, <1>11 DEF SameIds, Off, Alone, Only, SourceDone
    <2>3. OnReserve' = OnReserve /\ OnReserve \subseteq Live /\ Old \subseteq Live
      BY <1>7, <1>10 DEF OnReserve, Old
    <2>4. ASSUME NEW k \in OnReserve
          PROVE  /\ k \in Done' \ Old' /\ Id(k) # job.id
                 /\ \E m \in Old : m[1] = job.pg /\ m[2] < job.ix + 1 /\ Id(m) = Id(k)
                 /\ k # w => Id(k) # Id(w)
      <3>1. CASE k = w
        <4>1. c[2] < job.ix + 1
          BY <1>4, <1>13
        <4> QED BY <1>4, <1>9, <1>10, <1>13, <3>1, <4>1
      <3>2. CASE k # w
        <4>1. PICK m \in Old : m[1] = job.pg /\ m[2] < job.ix /\ Id(m) = Id(k)
          BY <1>11, <3>2 DEF Moved
        <4>2. m[2] \in Nat
          BY <1>4, <2>3, LiveSpots DEF Spots
        <4>3. m[2] < job.ix + 1 /\ m[2] # job.ix
          BY <1>4, <4>1, <4>2
        <4>4. m \in Off(pgRes) /\ m # c
          BY <1>4, <1>13, <2>3, <4>1, <4>3 DEF Off
        <4>5. Id(k) # Id(w)
          BY <1>9, <1>11, <1>13, <4>1, <4>4 DEF Alone
        <4> QED BY <1>10, <1>11, <3>2, <4>1, <4>3, <4>5 DEF Moved
      <3> QED BY <3>1, <3>2
    <2>5. Alone(OnReserve)
      BY <1>11, <2>4 DEF Alone, Moved
    <2>6. ASSUME NEW k \in OnReserve
          PROVE  /\ Id(k)' # job'.id
                 /\ \E m \in Old' : m[1] = job'.pg /\ m[2] < job'.ix /\ Id(m)' = Id(k)'
      <3>1. PICK m \in Old : m[1] = job.pg /\ m[2] < job.ix + 1 /\ Id(m) = Id(k)
        BY <2>4
      <3>2. Id(m)' = Id(m) /\ Id(k)' = Id(k) /\ Id(k) # job.id
        BY <1>10, <2>3, <2>4 DEF SameIds
      <3> QED BY <1>8, <1>10, <3>1, <3>2
    <2>7. Alone(OnReserve)'
      BY <1>10, <2>3, <2>5 DEF Alone, SameIds
    <2>8. Moved(OnReserve \ {}, job.ix)'
      BY <2>3, <2>4, <2>6, <2>7 DEF Moved, Alone
    <2>9. ASSUME NEW x \in HotIds, hot'[x] # Null PROVE hot'[x] \in Live /\ Id(hot'[x]) = x
      BY <1>4, <1>7, <1>9, <1>11, <2>9 DEF HotIn
    <2>10. ASSUME NEW x \in HotIds, hot'[x] # Null PROVE Id(hot[x])' = x
      <3>1. PICK m : m = hot'[x]
        OBVIOUS
      <3>2. m \in Live /\ Id(m) = x
        BY <2>9, <2>10, <3>1
      <3>3. Id(m)' = x
        BY <1>10, <3>2 DEF SameIds
      <3> QED BY <3>1, <3>3 DEF Id
    <2>11. HotIn(Live \ {})'
      BY <1>10, <2>9, <2>10 DEF HotIn
    <2> QED BY <2>1, <2>2, <2>8, <2>11 DEF CopyBase
  <1>15. HotLeft(job.ix)'
    <2>1. ASSUME NEW x \in HotIds, hot'[x] # Null, hot'[x][1] = job.pg, x # job.id
          PROVE  hot'[x][2] >= job.ix + 1
      <3>1. hot'[x] = hot[x] /\ x # id
        BY <1>4, <1>7, <1>9, <2>1
      <3>2. hot[x] \in Live /\ Id(hot[x]) = x /\ hot[x][2] >= job.ix
        BY <1>11, <2>1, <3>1 DEF HotIn, HotLeft
      <3>3. hot[x] \in Spots
        BY <1>4, <3>2, LiveSpots
      <3>4. hot[x] = <<job.pg, hot[x][2]>> /\ hot[x][2] \in Nat
        BY <2>1, <3>1, <3>3 DEF Spots
      <3>5. hot[x][2] # job.ix
        BY <1>12, <1>13, <3>1, <3>2, <3>4
      <3> QED BY <1>4, <3>1, <3>2, <3>4, <3>5
    <2> QED BY <1>8, <2>1 DEF HotLeft
  <1>16. HotMoved'
    BY <1>4, <1>7, <1>8, <1>9, <1>11 DEF HotMoved
  <1>17. Compact2'
    BY <1>14, <1>15, <1>16 DEF Compact2, CopyState, CopyBase, HotLeft, HotMoved
  <1>18. FlashOK'
    <2>1. (pgRes \in Pages /\ OthersActive(pgRes) /\ job.pg # pgRes)'
      BY <1>7 DEF Inv, Control, CompactOK, Copying
    <2>2. (Old \subseteq Done)'
      BY <1>10 DEF FlashOK
    <2>3. CopySound'
      BY <1>14, <2>2 DEF CopyBase, CopySound
    <2> QED BY <2>1, <2>3, CopyFlash, PTL
  <1>19. (job.op # "write" => job.src = Null)'
    BY <1>8 DEF Control2
  <1> QED BY <1>7, <1>17, <1>18, <1>19 DEF Control2

\* Once everything is copied, the copies on the reserve page take the place of those of the
\* compacted page.
LEMMA AfterCopy ==
  ASSUME flash \in [Pages -> PageState], pgRes \in Pages, NEW n, NEW X, NEW p, p = job.pg,
         p # pgRes, Off(pgRes) \subseteq Done, Alone(Off(pgRes)), X \subseteq OnReserve,
         Moved(X, n)
  PROVE  /\ Off(pgRes) \cup X \subseteq Done
         /\ Paired(Off(pgRes) \cup X)
         /\ Alone((Off(pgRes) \cup X) \cap Off(p))
  <1>1. Old \subseteq Live /\ \A l \in X : l[1] = pgRes
    BY DEF Old, OnReserve
  <1>2. \A l \in X : l \in Done \ Old /\ \E m \in Old : m[1] = p /\ Id(m) = Id(l)
    BY DEF Moved
  <1>3. Alone(X)
    BY DEF Moved
  <1>4. ASSUME NEW l \in X, NEW m \in Off(pgRes), Id(l) = Id(m) PROVE m \in Old /\ m[1] = p
    <2>1. PICK k \in Old : k[1] = p /\ Id(k) = Id(l)
      BY <1>2
    <2>2. k \in Off(pgRes)
      BY <1>1, <2>1 DEF Off
    <2>3. k = m
      BY <1>4, <2>1, <2>2 DEF Alone
    <2> QED BY <2>1, <2>3
  <1>5. Paired(Off(pgRes) \cup X)
    BY <1>2, <1>3, <1>4 DEF Alone, Paired
  <1>6. \A m \in Off(p) : m[1] # p
    BY DEF Off
  <1>7. Alone((Off(pgRes) \cup X) \cap Off(p))
    BY <1>3, <1>4, <1>6 DEF Alone
  <1> QED BY <1>2, <1>5, <1>7

LEMMA CompactDoneSem ==
  ASSUME Inv, Inv', FlashOK, Control2, CompactDone
  PROVE  FlashOK' /\ Control2'
  <1>1. /\ pc = "compact" /\ ToCopy = {} /\ job' = [job EXCEPT !.com = job.pg]
        /\ pc' = IF job.op = "boot" THEN "use" ELSE "header"
        /\ flash' = flash /\ pgRes' = pgRes /\ hot' = hot
    BY DEF CompactDone, Goto, ram
  <1>2. Shape /\ Copying /\ CopyState(job.ix, {})
    BY <1>1 DEF Inv, Control, CompactOK, Control2, Compact2
  <1>3. /\ job.pg \in Pages /\ job.pg # pgRes /\ pgRes \in Pages
        /\ flash \in [Pages -> PageState] /\ job \in JobState /\ job.pg # Null
    BY <1>2, NvAssumption DEF Shape, Copying
  <1>4. /\ job'.com = job.pg /\ job'.op = job.op /\ job'.id = job.id
        /\ job'.src = job.src /\ job'.pg = job.pg
    BY <1>1, <1>3, SetCom
  <1>5. SameFlags /\ SameSets
    BY <1>1, <1>3, SameFlash
  <1>6. /\ PendingIn({job.pg}) /\ flash[job.pg].xfer /\ ~flash[pgRes].active
        /\ Off(pgRes) \subseteq Done /\ Alone(Off(pgRes)) /\ Only(Off(pgRes)) /\ SourceDone
        /\ Moved(OnReserve \ {}, job.ix) /\ HotIn(Live \ {})
    BY <1>2 DEF CopyState
  <1>7. ASSUME NEW x \in HotIds, hot[x] # Null, hot[x][1] = job.pg PROVE x = job.id
    <2>1. hot[x] \in Live /\ Id(hot[x]) = x
      BY <1>6, <1>7 DEF HotIn
    <2>2. x # job.id => hot[x][2] >= job.ix
      BY <1>2, <1>7 DEF CopyState
    <2> QED BY <1>1, <1>2, <1>3, <1>6, <1>7, <2>1, <2>2, LeftToCopy
  <1>8. OnReserve \ {} = OnReserve /\ Live \ {} = Live /\ Live = Off(pgRes) \cup OnReserve
    BY DEF OnReserve, Off
  <1>9. ASSUME job.op # "boot" PROVE Header2'
    <2>1. SourceDone' /\ PendingIn({job.pg})' /\ flash'[job'.pg].xfer /\ ~flash'[pgRes'].active
      BY <1>1, <1>3, <1>4, <1>5, <1>6 DEF SameSets, SameFlags, SourceDone, PendingIn
    <2>2. (Off(pgRes) \subseteq Done /\ Alone(Off(pgRes)) /\ Only(Off(pgRes)))'
      BY <1>1, <1>4, <1>5, <1>6 DEF SameSets, SameIds, Off, Alone, Only
    <2>3. Moved(OnReserve \ {}, Len(Items(job.pg)) + 1)'
      <3>1. Items(job.pg)' = Items(job.pg) /\ OnReserve' = OnReserve
        BY <1>1, <1>4, <1>5 DEF Items, SameSets, OnReserve
      <3>2. PICK n : n = Len(Items(job.pg)) + 1
        OBVIOUS
      <3>3. ASSUME NEW k \in OnReserve
            PROVE  /\ Id(k)' # job'.id
                   /\ \E m \in Old' : m[1] = job'.pg /\ m[2] < n /\ Id(m)' = Id(k)'
        <4>1. PICK m \in Old : m[1] = job.pg /\ m[2] < job.ix /\ Id(m) = Id(k)
          BY <1>6, <1>8 DEF Moved
        <4>2. m \in Live /\ k \in Live /\ Id(k) # job.id
          BY <1>6, <1>8 DEF Moved, Old
        <4>3. m[2] < n
          BY <1>3, <3>2, <4>1, <4>2, LiveSpots, PageFields
        <4>4. Id(m)' = Id(m) /\ Id(k)' = Id(k)
          BY <1>5, <4>2 DEF SameSets, SameIds
        <4> QED BY <1>4, <1>5, <4>1, <4>2, <4>3, <4>4 DEF SameSets
      <3>4. (OnReserve \subseteq Done \ Old /\ Alone(OnReserve))'
        BY <1>5, <1>6, <1>8, <3>1 DEF Moved, Alone, SameSets, SameIds
      <3>5. n = (Len(Items(job.pg)) + 1)'
        BY <3>1, <3>2
      <3> QED BY <3>1, <3>3, <3>4, <3>5 DEF Moved, Alone
    <2>4. HotIn(Live \ {})'
      BY <1>1, <1>5, <1>6 DEF SameSets, SameIds, HotIn
    <2>5. (\A x \in HotIds : hot[x] # Null /\ hot[x][1] = job.pg => x = job.id)'
      BY <1>1, <1>4, <1>7
    <2> QED BY <1>3, <1>4, <2>1, <2>2, <2>3, <2>4, <2>5 DEF Header2, WriteState
  <1>10. ASSUME job.op = "boot" PROVE Use2'
    <2>1. /\ Live \subseteq Done /\ Paired(Live) /\ Alone(Off(job.pg))
          /\ OnReserve \subseteq Done \ Old
      <3>1. PICK p : p = job.pg
        OBVIOUS
      <3>2. Moved(OnReserve, job.ix) /\ OnReserve \subseteq OnReserve
        BY <1>6, <1>8
      <3>3. PICK n : n = job.ix
        OBVIOUS
      <3>4. Moved(OnReserve, n)
        BY <3>2, <3>3
      <3>5. /\ Off(pgRes) \cup OnReserve \subseteq Done
            /\ Paired(Off(pgRes) \cup OnReserve)
            /\ Alone((Off(pgRes) \cup OnReserve) \cap Off(p))
        BY <1>3, <1>6, <3>1, <3>2, <3>4, AfterCopy
      <3>6. Live \cap Off(p) = Off(p)
        BY DEF Off
      <3> QED BY <1>8, <3>1, <3>2, <3>5, <3>6 DEF Moved
    <2>2. job.src = Null
      BY <1>10 DEF Control2
    <2>3. ASSUME NEW x \in HotIds, hot[x] # Null
          PROVE  /\ hot[x] \in Off(job.pg) /\ hot[x] \in Done \ Old
                 /\ Id(hot[x]) = x /\ Id(hot[x])' = x
      <3>1. hot[x][1] = pgRes /\ hot[x] \in Live /\ Id(hot[x]) = x
        BY <1>2, <1>6, <1>10, <2>3 DEF CopyState, HotIn
      <3>2. hot[x] \in Off(job.pg) /\ hot[x] \in OnReserve
        BY <1>3, <3>1 DEF Off, OnReserve
      <3>3. PICK m : m = hot[x]
        OBVIOUS
      <3>4. Id(m)' = x
        BY <1>5, <3>1, <3>3 DEF SameSets, SameIds
      <3>5. Id(hot[x])' = x
        BY <1>1, <3>3, <3>4 DEF Id
      <3> QED BY <2>1, <3>1, <3>2, <3>5
    <2>4. Off(job.com)' = Off(job.pg) /\ Off(job.pg) \subseteq Live
      BY <1>4, <1>5 DEF SameSets, Off
    <2>5. PendingIn({job.com})'
      BY <1>4, <1>5, <1>6 DEF SameFlags, PendingIn
    <2>6. (Live \subseteq Done /\ Paired(Live))'
      BY <1>5, <2>1 DEF SameSets, SameIds, Paired
    <2>7. HotIn(Done \ Old)'
      BY <1>1, <1>5, <2>3 DEF SameSets, HotIn
    <2>8. Stored(Off(job.com) \ {job.src})'
      <3>1. (Off(job.com) \ {job.src} \subseteq Done)'
        BY <1>5, <2>1, <2>4 DEF SameSets
      <3>2. Alone(Off(job.com) \ {job.src})'
        BY <1>5, <2>1, <2>4 DEF SameSets, SameIds, Alone
      <3>3. HotIn(Off(job.com) \ {job.src})'
        BY <1>1, <1>4, <2>2, <2>3, <2>4 DEF HotIn
      <3> QED BY <3>1, <3>2, <3>3 DEF Stored
    <2> QED BY <1>4, <1>10, <2>5, <2>6, <2>7, <2>8 DEF Use2
  <1>11. FlashOK'
    BY <1>1, <1>5 DEF FlashOK, SameSets, SameIds, SameFlags, Paired, Alone, InUsed
  <1>12. (job.op # "write" => job.src = Null)'
    BY <1>4 DEF Control2
  <1> QED BY <1>1, <1>9, <1>10, <1>11, <1>12 DEF Control2

-----------------------------------------------------------------------------
(* The rest of a call.                                                     *)

HotGone  == \A x \in HotIds : hot[x] # Null /\ hot[x][1] = job.pg => x = job.id
CopyEnd  == Len(Items(job.pg)) + 1
InPlace(new) == PendingIn({}) /\ Stored(Live \ new) /\ Only(Live \ new)

LEMMA WriteParts ==
  \A new : WriteState(new) <=> /\ SourceDone
                               /\ job.com = Null => InPlace(new)
                               /\ job.com # Null => CopyBase(CopyEnd, new) /\ HotGone
  BY DEF WriteState, CopyBase, HotGone, CopyEnd, InPlace

LEMMA WriteKept ==
  ASSUME Shape, Writing, NEW new, NEW new2, WriteState(new), pgRes' = pgRes, hot' = hot,
         SameFlags, SameIds, job'.op = job.op, job'.id = job.id, job'.src = job.src,
         job'.pg = job.pg, job'.com = job.com,
         Live \subseteq Live', Done' = Done,
         Old \subseteq Old', \A l \in Old' \ Old : l[1] # pgRes,
         Live' \ new2 = Live \ new,
         job.com # Null => (\A l \in Live' \ Live : l[1] = pgRes) /\ CopyEnd' = CopyEnd
  PROVE  WriteState(new2)'
  <1>1. pgRes \in Pages /\ job.pg \in Pages
    BY DEF Writing, Call_, InUse
  <1>2. /\ SourceDone /\ (job.com = Null => InPlace(new))
        /\ (job.com # Null => CopyBase(CopyEnd, new) /\ HotGone)
    BY WriteParts
  <1>3. SourceDone'
    BY <1>2 DEF SourceDone
  <1>4. ASSUME job.com = Null PROVE (PendingIn({}) /\ Stored(Live \ new2) /\ Only(Live \ new2))'
    <2>1. /\ PendingIn({}) /\ Live \ new \subseteq Done /\ Alone(Live \ new) /\ HotIn(Live \ new)
          /\ Only(Live \ new)
      BY <1>2, <1>4 DEF InPlace, Stored
    <2>2. PendingIn({})'
      BY <2>1 DEF SameFlags, PendingIn
    <2>3. (Live \ new2 \subseteq Done)' /\ Alone(Live \ new2)' /\ Only(Live \ new2)'
      BY <2>1 DEF SameIds, Alone, Only
    <2>4. HotIn(Live \ new2)'
      <3>1. ASSUME NEW x \in HotIds, hot[x] # Null
            PROVE  hot[x] \in Live \ new /\ Id(hot[x])' = x
        BY <2>1, <3>1 DEF HotIn, SameIds
      <3> QED BY <3>1 DEF HotIn
    <2> QED BY <2>2, <2>3, <2>4 DEF Stored
  <1>5. ASSUME job.com # Null PROVE CopyBase(CopyEnd, new2)' /\ HotGone'
    <2>1. PICK n : n = CopyEnd
      OBVIOUS
    <2>2. CopyBase(n, new2)'
      BY <1>1, <1>2, <1>5, <2>1, BaseKept
    <2>3. n = CopyEnd'
      BY <1>5, <2>1
    <2> QED BY <1>2, <1>5, <2>2, <2>3 DEF CopyBase, Moved, HotGone
  <1>6. (job.com = Null \/ job.com # Null)' /\ job'.com = job.com
    OBVIOUS
  <1> QED BY <1>3, <1>4, <1>5, <1>6 DEF WriteState, CopyBase, CopyEnd, HotGone

LEMMA WriteFlash ==
  Inv /\ pc \in {"markSrc", "data", "chk"} /\ Body2 => FlashOK
  <1> SUFFICES ASSUME Inv, pc \in {"markSrc", "data", "chk"}, Body2 PROVE FlashOK
    OBVIOUS
  <1>1. /\ Shape /\ Writing /\ WriteState({Last(job.dst)}) /\ InWriting(Last(job.dst), job.id)
    BY DEF Inv, Control, BodyOK, Body2
  <1>2. /\ flash \in [Pages -> PageState] /\ pgRes \in Pages /\ OthersActive(pgRes)
        /\ job.pg # pgRes /\ Done \subseteq Live /\ Old \subseteq Live
    BY <1>1, LiveSpots DEF Shape, Writing, Call_, InUse
  <1>3. PICK w : w = Last(job.dst)
    OBVIOUS
  <1>4. w \notin Done /\ w \notin Old
    BY <1>1, <1>3 DEF InWriting
  <1>5. CASE job.com = Null
    <2>1. PendingIn({}) /\ Live \ {w} \subseteq Done /\ Alone(Live \ {w})
      BY <1>1, <1>3, <1>5 DEF WriteState, Stored
    <2>2. Old \subseteq Done /\ Paired(Done)
      BY <1>2, <1>4, <2>1 DEF Alone, Paired
    <2> QED BY <1>2, <2>1, <2>2, PairFlash, ResOff
  <1>6. CASE job.com # Null
    <2>1. /\ PendingIn({job.pg}) /\ ~flash[pgRes].active
          /\ Off(pgRes) \subseteq Done /\ Alone(Off(pgRes))
          /\ OnReserve \ {w} \subseteq Done
      BY <1>1, <1>3, <1>6 DEF WriteState, Moved
    <2>2. Live \subseteq Off(pgRes) \cup OnReserve
      BY DEF Off, OnReserve
    <2>3. CopySound
      BY <1>2, <1>4, <2>1, <2>2 DEF CopySound
    <2> QED BY <1>2, <2>3, CopyFlash
  <1> QED BY <1>5, <1>6

LEMMA HeaderSem ==
  ASSUME Inv, Inv', FlashOK, Control2, Header, faults' = 0
  PROVE  FlashOK' /\ Control2'
  <1>1. PICK p : p = Target
    OBVIOUS
  <1>2. PICK ok \in WriteTakes :
          /\ pc = "header"
          /\ WriteHeader(p, job.id, ok)
          /\ IF ~ok THEN Finish(FALSE)
             ELSE Goto(IF job.op = "write" /\ Item(job.src[1], job.src[2]).stat = "new"
                       THEN "markSrc" ELSE "data", [job EXCEPT !.dst = p])
          /\ UNCHANGED <<pgRes, hot>>
    BY <1>1 DEF Header, Target
  <1>3. Shape /\ Writing /\ WriteState({})
    BY <1>2 DEF Inv, Control, HeaderOK, Control2, Header2
  <1>4. /\ job.pg \in Pages /\ job.pg # pgRes /\ pgRes \in Pages /\ job.id \in Ids
        /\ flash \in [Pages -> PageState] /\ job \in JobState /\ p \in Pages
        /\ (job.com = Null => p = job.pg) /\ (job.com # Null => p = pgRes)
    BY <1>1, <1>3 DEF Shape, Writing, Call_, InUse, Target
  <1>5. ok = TRUE /\ flash' = NewHeader(p, job.id)
    BY <1>2, <1>3, Took DEF WriteHeader
  <1>6. /\ pc' \in {"markSrc", "data"} /\ job' = [job EXCEPT !.dst = p]
        /\ pgRes' = pgRes /\ hot' = hot
        /\ pc' = "data" /\ job.op = "write" => Item(job.src[1], job.src[2]).stat # "new"
    BY <1>2, <1>5 DEF Goto
  <1>7. /\ job'.dst = p /\ job'.op = job.op /\ job'.id = job.id /\ job'.src = job.src
        /\ job'.pg = job.pg /\ job'.com = job.com
    BY <1>4, <1>6, SetDst
  <1>8. PICK w : w = Last(p)'
    OBVIOUS
  <1>9. /\ SameFlags /\ SameIds /\ w = <<p, Len(Items(p)) + 1>> /\ w \notin Live
        /\ Live' = Live \cup {w} /\ Done' = Done /\ Old' = Old /\ Id(w)' = job.id
        /\ \A q \in Pages \ {p} : Items(q)' = Items(q)
    <2>1. ItemSize[job.id] \in 1 .. PageCap
      BY <1>4, NvAssumption
    <2>2. PICK i \in Ids : i = job.id
      BY <1>4
    <2>3. flash' = NewHeader(p, i) /\ ItemSize[i] \in 1 .. PageCap
      BY <1>5, <2>1, <2>2
    <2> QED BY <1>4, <1>8, <2>2, <2>3, HeaderSets
  <1>10. WriteState({w})'
    <2>1. Live' \ {w} = Live \ {} /\ \A l \in Live' \ Live : l[1] = p
      BY <1>9
    <2>2. job.com # Null => CopyEnd' = CopyEnd
      BY <1>4, <1>7, <1>9 DEF CopyEnd, Items
    <2> QED BY <1>3, <1>4, <1>6, <1>7, <1>9, <2>1, <2>2, WriteKept
  <1>11. Last(job.dst)' = w
    BY <1>7, <1>8 DEF Last, Items
  <1>12. InWriting(w, job.id)'
    BY <1>7, <1>9 DEF InWriting, Done, Old
  <1>13. pc' = "data" /\ job'.op = "write" => job'.src \in Old'
    <2> SUFFICES ASSUME pc' = "data", job.op = "write" PROVE job.src \in Old
      BY <1>7, <1>9
    <2>1. job.src \in Done /\ Item(job.src[1], job.src[2]).stat # "new"
      BY <1>3, <1>6 DEF WriteState, SourceDone
    <2>2. Item(job.src[1], job.src[2]).stat \in {"new", "xfer"}
      <3>1. PICK l : l = job.src
        OBVIOUS
      <3>2. l[1] \in Pages /\ l[2] \in 1 .. Len(Items(l[1])) /\ Items(l[1]) \in Seq(ItemState)
        BY <1>4, <2>1, <3>1, LiveSpots, PageFields
      <3> QED BY <3>1, <3>2, ItemFields DEF Item, Items
    <2> QED BY <2>1, <2>2 DEF Old, Done
  <1>14. Body2'
    <2>1. WriteState({Last(job.dst)})'
      BY <1>10, <1>11 DEF WriteState, Moved
    <2>2. InWriting(Last(job.dst), job.id)'
      BY <1>11, <1>12 DEF InWriting, Id
    <2> QED BY <1>6, <1>13, <2>1, <2>2 DEF Body2
  <1>15. FlashOK'
    <2>1. (pc \in {"markSrc", "data", "chk"})'
      BY <1>6
    <2> QED BY <1>14, <2>1, WriteFlash, PTL
  <1>16. (job.op # "write" => job.src = Null)'
    BY <1>7 DEF Control2
  <1> QED BY <1>6, <1>14, <1>15, <1>16 DEF Control2

\* The next step of a body, with w the item it writes.
LEMMA BodySem ==
  ASSUME Inv, Inv', Control2, NEW w, w = Last(job.dst), Last(job.dst)' = w,
         Shape, Writing, WriteState({w}), InWriting(w, job.id),
         pc' \in {"markSrc", "data", "chk"}, pgRes' = pgRes, hot' = hot,
         job' = job, SameFlags, SameIds, Live' = Live, Done' = Done,
         Old \subseteq Old', \A l \in Old' \ Old : l[1] # pgRes /\ l \in Done,
         Len(Items(job.pg))' = Len(Items(job.pg)),
         pc' \in {"data", "chk"} /\ job.op = "write" => job.src \in Old'
  PROVE  FlashOK' /\ Control2'
  <1>1. WriteState({w})'
    BY WriteKept DEF CopyEnd
  <1>2. InWriting(w, job.id)'
    <2>1. w \in Live \ (Done \cup Old) /\ Id(w) = job.id
      BY DEF InWriting
    <2>2. w \notin Old' /\ Id(w)' = job'.id
      BY <2>1 DEF SameIds
    <2> QED BY <2>1, <2>2 DEF InWriting
  <1>3. Body2'
    <2>1. WriteState({Last(job.dst)})'
      BY <1>1 DEF WriteState, Moved
    <2>2. InWriting(Last(job.dst), job.id)'
      BY <1>2 DEF InWriting, Id
    <2> QED BY <2>1, <2>2 DEF Body2
  <1>4. FlashOK'
    <2>1. (pc \in {"markSrc", "data", "chk"})'
      OBVIOUS
    <2> QED BY <1>3, <2>1, WriteFlash, PTL
  <1>5. (job.op # "write" => job.src = Null)'
    BY DEF Control2
  <1> QED BY <1>3, <1>4, <1>5 DEF Control2

LEMMA MarkSourceSem ==
  ASSUME Inv, Inv', FlashOK, Control2, MarkSource
  PROVE  FlashOK' /\ Control2'
  <1>1. /\ pc = "markSrc" /\ flash' = XferItem(job.src[1], job.src[2]) /\ pc' = "data"
        /\ job' = job /\ pgRes' = pgRes /\ hot' = hot
    BY DEF MarkSource, Goto, ram
  <1>2. PICK w : w = Last(job.dst)
    OBVIOUS
  <1>3. /\ Shape /\ Writing /\ job.op = "write" /\ WriteState({w}) /\ InWriting(w, job.id)
    BY <1>1, <1>2 DEF Inv, Control, BodyOK, Control2, Body2
  <1>4. /\ flash \in [Pages -> PageState] /\ job.src[1] # pgRes /\ job.pg \in Pages
        /\ job.dst \in Pages
    BY <1>1, <1>3 DEF Shape, Writing, Call_, Source, InUse, Inv, Control, BodyOK, Target
  <1>5. PICK l : l = job.src
    OBVIOUS
  <1>6. l \in Done /\ l \in Live /\ l[1] # pgRes
    BY <1>3, <1>4, <1>5 DEF WriteState, SourceDone, Done
  <1>7. /\ SameFlags /\ SameIds
        /\ Live' = Live /\ Done' = Done /\ Old' = Old \cup {l}
        /\ \A q \in Pages : Len(Items(q)') = Len(Items(q))
    BY <1>1, <1>4, <1>5, <1>6, XferSets
  <1>8. Last(job.dst)' = w /\ Len(Items(job.pg))' = Len(Items(job.pg))
    BY <1>1, <1>2, <1>4, <1>7 DEF Last, Items
  <1> QED BY <1>1, <1>2, <1>3, <1>5, <1>6, <1>7, <1>8, BodySem

LEMMA DataSem ==
  ASSUME Inv, Inv', FlashOK, Control2, Data, faults' = 0
  PROVE  FlashOK' /\ Control2'
  <1>1. PICK ok \in WriteTakes :
          /\ pc = "data"
          /\ FlashWrite(ok, LastData(job.dst, job.val))
          /\ IF ok /\ (job.op = "create" \/ Item(job.src[1], job.src[2]).chk)
             THEN Goto("chk", job) ELSE Finish(FALSE)
          /\ UNCHANGED ram
    BY DEF Data
  <1>2. PICK w : w = Last(job.dst)
    OBVIOUS
  <1>3. /\ Shape /\ Writing /\ WriteState({w}) /\ InWriting(w, job.id)
        /\ job.op = "write" => job.src \in Old
    BY <1>1, <1>2 DEF Inv, Control, BodyOK, Control2, Body2
  <1>4. /\ flash \in [Pages -> PageState] /\ job.pg \in Pages /\ job.dst \in Pages
        /\ job.op \in {"create", "write"} /\ job.val \in Values
    BY <1>1, <1>3 DEF Shape, Writing, Call_, InUse, Inv, Control, BodyOK, Target
  <1>5. job.op = "create" \/ Item(job.src[1], job.src[2]).chk
    BY <1>3, <1>4 DEF WriteState, SourceDone, Done
  <1>6. ok = TRUE /\ flash' = LastData(job.dst, job.val)
    BY <1>1, <1>3, Took
  <1>7. pc' = "chk" /\ job' = job /\ pgRes' = pgRes /\ hot' = hot
    BY <1>1, <1>5, <1>6 DEF Goto, ram
  <1>8. SameFlags /\ SameSets /\ \A q \in Pages : Len(Items(q)') = Len(Items(q))
    BY <1>4, <1>6, DataSets
  <1>9. Last(job.dst)' = w /\ Len(Items(job.pg))' = Len(Items(job.pg))
    BY <1>2, <1>4, <1>7, <1>8 DEF Last, Items
  <1> QED BY <1>2, <1>3, <1>7, <1>8, <1>9, BodySem DEF SameSets

\* The new copy has its checksum: it and the old one, marked, are the copies of the item.
LEMMA ChecksumSem ==
  ASSUME Inv, Inv', FlashOK, Control2, Checksum, faults' = 0
  PROVE  FlashOK' /\ Control2'
  <1>1. PICK ok \in WriteTakes :
          /\ pc = "chk"
          /\ FlashWrite(ok, LastChk(job.dst))
          /\ hot' = IF ok THEN hotItemUpdate(job.id, <<job.dst, Len(flash[job.dst].items)>>)
                    ELSE hot
          /\ Finish(ok)
          /\ UNCHANGED <<pgOff, pgLost, pgRes>>
    BY DEF Checksum
  <1>2. PICK w : w = Last(job.dst)
    OBVIOUS
  <1>3. /\ Shape /\ Writing /\ job.dst = Target /\ WriteState({w}) /\ InWriting(w, job.id)
        /\ job.op = "write" => job.src \in Old
    BY <1>1, <1>2 DEF Inv, Control, BodyOK, Control2, Body2
  <1>4. /\ flash \in [Pages -> PageState] /\ job.pg \in Pages /\ job.dst \in Pages
        /\ pgRes \in Pages /\ OthersActive(pgRes) /\ job.pg # pgRes /\ job \in JobState
        /\ job.op \in {"create", "write"} /\ job.id \in Ids /\ DOMAIN hot = HotIds
        /\ job.com \in {Null, job.pg} /\ (job.com # Null => job.dst = pgRes)
        /\ (job.op = "write" => Source(pgRes))
    BY <1>3 DEF Shape, Writing, Call_, InUse, Target
  <1>5. ok = TRUE /\ flash' = LastChk(job.dst)
    BY <1>1, <1>3, Took
  <1>6. /\ pgRes' = pgRes /\ Finish(TRUE)
        /\ hot' = IF job.id \in HotIds THEN [hot EXCEPT ![job.id] = w] ELSE hot
    BY <1>1, <1>2, <1>5 DEF hotItemUpdate, Last, Items
  <1>7. w \in Live \ (Done \cup Old) /\ Id(w) = job.id /\ w[1] = job.dst
    BY <1>2, <1>3 DEF InWriting, Last
  <1>8. SameFlags /\ SameIds /\ Live' = Live /\ Done' = Done \cup {w} /\ Old' = Old
    <2>1. PICK p \in Pages : p = job.dst
      BY <1>4
    <2>2. w = Last(p) /\ w \in Live /\ flash' = LastChk(p)
      BY <1>2, <1>5, <1>7, <2>1
    <2> QED BY <1>4, <2>2, ChkSets
  <1>9. PICK j : j = [job EXCEPT !.ok = TRUE]
    OBVIOUS
  <1>10. /\ j.ok = TRUE /\ j.op = job.op /\ j.id = job.id /\ j.src = job.src
         /\ j.com = job.com
    BY <1>4, <1>9, SetOk
  <1>11. SourceDone /\ (job.op = "write" => job.src \in Done /\ job.src \in Old)
         /\ (job.op # "write" => job.src = Null)
    BY <1>3 DEF WriteState, SourceDone, Control2
  <1>12. Null \notin Live /\ w # job.src
    <2>1. Null \notin Spots
      BY NvAssumption DEF Spots
    <2>2. w \in Spots /\ Null \notin Live
      BY <1>4, <1>7, <2>1, LiveSpots
    <2> QED BY <1>7, <1>11, <2>1, <2>2
  <1>13. CASE job.com = Null
    <2>1. /\ PendingIn({}) /\ Live \ {w} \subseteq Done /\ Alone(Live \ {w})
          /\ HotIn(Live \ {w}) /\ Only(Live \ {w})
      BY <1>3, <1>13 DEF WriteState, Stored
    <2>2. PendingIn({})'
      BY <1>8, <2>1 DEF SameFlags, PendingIn
    <2>3. Live' \subseteq Done'
      BY <1>8, <2>1
    <2>4. Alone(Live \ {job.src})
      BY <1>7, <2>1 DEF Alone, Only
    <2>5. Paired(Live)
      BY <1>7, <1>11, <1>12, <2>1 DEF Alone, Only, Paired
    <2>6. ASSUME NEW x \in HotIds, hot'[x] # Null
          PROVE  hot'[x] \in Live \ {job.src} /\ Id(hot'[x]) = x
      <3>1. CASE x = job.id
        BY <1>4, <1>6, <1>7, <1>12, <3>1
      <3>2. CASE x # job.id
        <4>1. hot'[x] = hot[x]
          BY <1>4, <1>6, <3>2
        <4>2. hot[x] \in Live /\ Id(hot[x]) = x
          BY <2>1, <2>6, <4>1 DEF HotIn
        <4>3. hot[x] # job.src
          BY <1>4, <1>11, <2>6, <3>2, <4>1, <4>2 DEF Source, Id
        <4> QED BY <4>1, <4>2, <4>3
      <3> QED BY <3>1, <3>2
    <2>7. ASSUME NEW x \in HotIds, hot'[x] # Null PROVE Id(hot[x])' = x
      <3>1. PICK m : m = hot'[x]
        OBVIOUS
      <3>2. m \in Live /\ Id(m) = x
        BY <2>6, <2>7, <3>1
      <3>3. Id(m)' = x
        BY <1>8, <3>2 DEF SameIds
      <3> QED BY <3>1, <3>3 DEF Id
    <2>8. CASE job.op = "write"
      <3>1. pc' = "zero" /\ job' = j
        BY <1>6, <1>9, <1>10, <1>13, <2>8 DEF Finish, Goto
      <3>2. Stored(Live \ {job.src})'
        <4>1. job'.src = job.src
          BY <1>10, <3>1
        <4>2. (Live \ {job.src} \subseteq Done)'
          BY <2>3
        <4>3. Alone(Live \ {job.src})'
          BY <1>8, <2>4, <4>1 DEF Alone, SameIds
        <4>4. HotIn(Live \ {job.src})'
          BY <1>8, <2>6, <2>7, <4>1 DEF HotIn
        <4> QED BY <4>2, <4>3, <4>4 DEF Stored
      <3>3. Zero2'
        BY <2>2, <2>3, <3>2 DEF Zero2
      <3>4. FlashOK'
        <4>1. (Old \subseteq Done)'
          BY <1>8 DEF FlashOK
        <4>2. Paired(Done)'
          BY <1>8, <2>3, <2>5 DEF Paired, SameIds, Done
        <4>3. OthersActive(pgRes)'
          BY <1>4, <1>6, <1>8 DEF OthersActive, SameFlags
        <4>4. OneOff'
          BY <4>3, ResOff, PTL
        <4> QED BY <2>2, <4>1, <4>2, <4>4, PairFlash, PTL
      <3>5. (job.op # "write" => job.src = Null)'
        BY <1>10, <2>8, <3>1
      <3> QED BY <3>1, <3>3, <3>4, <3>5 DEF Control2
    <2>9. CASE job.op # "write"
      <3>1. (pc = "idle")'
        BY <1>6, <1>9, <1>10, <1>13, <2>9 DEF Finish, Return
      <3>2. Live \ {job.src} = Live
        BY <1>11, <1>12, <2>9
      <3>3. Alone(Live)' /\ HotIn(Live)'
        BY <1>8, <2>4, <2>6, <2>7, <3>2 DEF Alone, SameIds, HotIn
      <3>4. Idle2'
        BY <2>2, <2>3, <3>3 DEF Idle2, Stored
      <3> QED BY <3>1, <3>4, ToIdle, PTL
    <2> QED BY <2>8, <2>9
  <1>14. CASE job.com # Null
    <2>1. /\ PendingIn({job.pg}) /\ ~flash[pgRes].active
          /\ Off(pgRes) \subseteq Done /\ Alone(Off(pgRes)) /\ Only(Off(pgRes))
          /\ Moved(OnReserve \ {w}, CopyEnd) /\ HotIn(Live \ {w}) /\ HotGone
      BY <1>3, <1>14 DEF WriteState, HotGone, CopyEnd
    <2>2. job.com = job.pg /\ w[1] = pgRes
      BY <1>4, <1>7, <1>14
    <2>3. PICK p : p = job.pg
      OBVIOUS
    <2> DEFINE X == OnReserve \ {w}
    <2>4. /\ Off(pgRes) \cup X \subseteq Done
          /\ Paired(Off(pgRes) \cup X)
          /\ Alone((Off(pgRes) \cup X) \cap Off(p))
      <3>1. PICK n : n = CopyEnd
        OBVIOUS
      <3>2. Moved(X, n) /\ X \subseteq OnReserve
        BY <2>1, <3>1
      <3> HIDE DEF X
      <3> QED BY <1>4, <2>1, <2>3, <3>2, AfterCopy
    <2>5. Live = (Off(pgRes) \cup X) \cup {w} /\ w \notin Off(pgRes) \cup X
      BY <1>7, <2>2 DEF Off, OnReserve
    <2>6. ASSUME NEW l \in Off(pgRes) \cup X, Id(l) = job.id PROVE l = job.src
      BY <2>1, <2>6 DEF Only, Moved
    <2> HIDE DEF X
    <2>7. Paired(Live)
      BY <1>7, <1>11, <1>12, <2>4, <2>5, <2>6 DEF Paired
    <2>8. Alone(Off(p) \ {job.src})
      <3>1. Off(p) \subseteq Live
        BY DEF Off
      <3> QED BY <1>7, <2>4, <2>5, <2>6, <3>1 DEF Alone
    <2>9. Live' \subseteq Done'
      BY <1>8, <2>4, <2>5
    <2>10. /\ pc' = "use" /\ job' = j
      BY <1>6, <1>9, <1>10, <1>14 DEF Finish, Goto
    <2>11. job'.ok = TRUE /\ job'.op = job.op /\ job'.com = p /\ job'.src = job.src
      BY <1>10, <2>2, <2>3, <2>10
    <2>12. ASSUME NEW x \in HotIds, hot'[x] # Null
          PROVE  hot'[x] \in Off(p) \ {job.src} /\ Id(hot'[x]) = x
      <3>1. CASE x = job.id
        BY <1>4, <1>6, <1>7, <1>12, <2>2, <2>3, <3>1 DEF Off
      <3>2. CASE x # job.id
        <4>1. hot'[x] = hot[x]
          BY <1>4, <1>6, <3>2
        <4>2. hot[x] \in Live /\ Id(hot[x]) = x /\ hot[x][1] # p
          BY <2>1, <2>3, <2>12, <3>2, <4>1 DEF HotIn, HotGone
        <4>3. hot[x] # job.src
          BY <1>4, <1>11, <2>12, <3>2, <4>1, <4>2 DEF Source, Id
        <4> QED BY <4>1, <4>2, <4>3 DEF Off
      <3> QED BY <3>1, <3>2
    <2>13. ASSUME NEW x \in HotIds, hot'[x] # Null PROVE Id(hot[x])' = x
      <3>1. PICK m : m = hot'[x]
        OBVIOUS
      <3>2. m \in Live /\ Id(m) = x
        BY <2>12, <2>13, <3>1 DEF Off
      <3>3. Id(m)' = x
        BY <1>8, <3>2 DEF SameIds
      <3> QED BY <3>1, <3>3 DEF Id
    <2>14. Off(job.com)' = Off(p) /\ Off(p) \subseteq Live
      BY <1>8, <2>11 DEF Off
    <2>15. Stored(Off(job.com) \ {job.src})'
      <3>1. (Off(job.com) \ {job.src} \subseteq Done)'
        BY <1>8, <2>9, <2>14
      <3>2. Alone(Off(job.com) \ {job.src})'
        BY <1>8, <2>8, <2>11, <2>14 DEF Alone, SameIds
      <3>3. HotIn(Off(job.com) \ {job.src})'
        BY <2>11, <2>12, <2>13, <2>14 DEF HotIn
      <3> QED BY <3>1, <3>2, <3>3 DEF Stored
    <2>16. PendingIn({job.com})'
      BY <1>8, <2>1, <2>3, <2>11 DEF SameFlags, PendingIn
    <2>17. Paired(Live)'
      BY <1>8, <2>7 DEF Paired, SameIds
    <2>18. job'.op # "boot"
      BY <1>4, <2>11
    <2>19. Use2'
      BY <2>9, <2>11, <2>15, <2>16, <2>17, <2>18 DEF Use2
    <2>20. FlashOK'
      <3>1. (pgRes \in Pages /\ OthersActive(pgRes) /\ job.pg # pgRes)'
        <4>1. job'.pg = job.pg
          BY <1>4, <1>9, <2>10, SetOk
        <4> QED BY <1>4, <1>6, <1>8, <4>1 DEF OthersActive, SameFlags
      <3>2. CopySound'
        <4>1. Off(pgRes)' = Off(pgRes) /\ Off(pgRes) \subseteq Live
          BY <1>6, <1>8 DEF Off
        <4>2. job'.pg = job.pg
          BY <1>4, <1>9, <2>10, SetOk
        <4>3. PendingIn({job.pg})' /\ ~flash'[pgRes'].active
          BY <1>4, <1>6, <1>8, <2>1, <4>2 DEF SameFlags, PendingIn
        <4>4. Alone(Off(pgRes))' /\ (Off(pgRes) \subseteq Done)' /\ (Old \subseteq Done)'
          BY <1>8, <2>1, <4>1 DEF Alone, SameIds, FlashOK
        <4> QED BY <4>3, <4>4 DEF CopySound
      <3> QED BY <3>1, <3>2, CopyFlash, PTL
    <2>21. (job.op # "write" => job.src = Null)'
      BY <1>11, <2>11
    <2> QED BY <2>10, <2>19, <2>20, <2>21 DEF Control2
  <1> QED BY <1>13, <1>14

LEMMA UseReserveSem ==
  ASSUME Inv, Inv', FlashOK, Control2, UseReserve
  PROVE  FlashOK' /\ Control2'
  <1>1. PICK r : r = IF job.op = "boot" THEN "initPages"
                     ELSE IF job.op = "write" /\ job.ok /\ job.src[1] # job.com THEN "zero"
                     ELSE "idle"
    OBVIOUS
  <1>2. /\ pc = "use" /\ flash' = setPageUse(pgRes) /\ pc' = "erase"
        /\ job' = ErasingAt(job, job.com, r) /\ pgRes' = pgRes /\ hot' = hot
    BY <1>1 DEF UseReserve, ThenErase, Goto, ram, ErasingAt
  <1>3. Shape /\ UseOK /\ Use2
    BY <1>2 DEF Inv, Control, Control2
  <1>4. /\ flash \in [Pages -> PageState] /\ pgRes \in Pages /\ OthersActive(pgRes)
        /\ job \in JobState /\ job.com \in Pages /\ job.com # pgRes /\ r \in Returns
        /\ job.op \in {"create", "write", "boot"}
    BY <1>1, <1>3 DEF Shape, UseOK, Returns, Call_, Boot_
  <1>5. job'.er = job.com /\ job'.ret = r /\ job'.op = job.op /\ job'.src = job.src
    BY <1>2, <1>4, SetErase
  <1>6. /\ flash' \in [Pages -> PageState] /\ SameSets /\ flash'[pgRes].active = TRUE
        /\ flash'[pgRes].xfer = flash[pgRes].xfer
        /\ \A q \in Pages \ {pgRes} : flash'[q] = flash[q]
    <2>1. PICK p \in Pages : p = pgRes
      BY <1>4
    <2>2. flash[p].xfer \in BOOLEAN /\ TRUE \in BOOLEAN
      BY <1>4, PageFields
    <2>3. flash' = [flash EXCEPT ![p] = [flash[p] EXCEPT !.active = TRUE, !.xfer = flash[p].xfer]]
      BY <1>2, <1>4, <2>1, SetFlags
    <2>4. /\ flash' \in [Pages -> PageState] /\ SameSets /\ flash'[p].active = TRUE
          /\ flash'[p].xfer = flash[p].xfer
          /\ \A q \in Pages \ {p} : flash'[q] = flash[q]
      BY <1>4, <2>2, <2>3, FlagsSets
    <2> QED BY <2>1, <2>4
  <1>7. \A q \in Pages : flash'[q].active /\ flash'[q].xfer = flash[q].xfer
    BY <1>4, <1>6 DEF OthersActive
  <1>8. PICK p : p = job.com
    OBVIOUS
  <1>9. /\ job.ok \/ job.op = "boot"
        /\ PendingIn({p}) /\ Live \subseteq Done /\ Paired(Live)
        /\ Off(p) \ {job.src} \subseteq Done /\ Alone(Off(p) \ {job.src})
        /\ HotIn(Off(p) \ {job.src})
        /\ job.op = "boot" => HotIn(Done \ Old)
    BY <1>3, <1>8 DEF Use2, Stored
  <1>10. PendingIn({p})' /\ (Live \subseteq Done)' /\ Paired(Live)' /\ Off(p)' = Off(p)
         /\ Off(p) \subseteq Live
    BY <1>6, <1>7, <1>9 DEF PendingIn, SameSets, SameIds, Paired, Off
  <1>11. \A x \in HotIds : hot[x] # Null => hot[x] \in Off(p) \ {job.src} /\ Id(hot[x])' = x
    <2>1. ASSUME NEW x \in HotIds, hot[x] # Null
          PROVE  hot[x] \in Off(p) \ {job.src} /\ Id(hot[x])' = x
      <3>1. PICK m : m = hot[x]
        OBVIOUS
      <3>2. m \in Off(p) \ {job.src} /\ Id(m) = x
        BY <1>9, <2>1, <3>1 DEF HotIn
      <3>3. Id(m)' = x
        BY <1>6, <1>10, <3>2 DEF SameSets, SameIds
      <3>4. Id(hot[x])' = x
        BY <1>2, <3>1, <3>3 DEF Id
      <3> QED BY <3>1, <3>2, <3>4
    <2> QED BY <2>1
  <1>12. Stored(Off(p) \ {job.src})'
    <2>1. (Off(p) \ {job.src} \subseteq Done)'
      BY <1>5, <1>6, <1>9, <1>10 DEF SameSets
    <2>2. Alone(Off(p) \ {job.src})'
      BY <1>5, <1>6, <1>9, <1>10 DEF SameSets, SameIds, Alone
    <2>3. HotIn(Off(p) \ {job.src})'
      BY <1>2, <1>5, <1>10, <1>11 DEF HotIn
    <2> QED BY <2>1, <2>2, <2>3 DEF Stored
  <1>13. ASSUME r = "idle" PROVE Stored(Off(p))'
    <2>1. job.src[1] = p \/ job.src = Null
      BY <1>1, <1>4, <1>8, <1>9, <1>13 DEF Control2
    <2>2. Null \notin Live
      <3>1. Null \notin Spots
        BY NvAssumption DEF Spots
      <3> QED BY <1>4, <3>1, LiveSpots
    <2>3. (Off(p) \ {job.src} = Off(p))'
      BY <1>5, <1>10, <2>1, <2>2 DEF Off
    <2> QED BY <1>12, <2>3
  <1>14. ASSUME r = "initPages"
         PROVE  Paired(Off(p) \cap Done)' /\ HotIn(Off(p) \cap (Done \ Old))'
    <2>1. HotIn(Done \ Old)
      BY <1>1, <1>9, <1>14
    <2>2. Paired(Off(p) \cap Done)'
      <3>1. Off(p)' \subseteq Live'
        BY DEF Off
      <3> QED BY <1>10, <3>1 DEF Paired
    <2>3. \A x \in HotIds : hot[x] # Null => hot[x] \in Done \ Old
      BY <2>1 DEF HotIn
    <2>4. HotIn(Off(p) \cap (Done \ Old))'
      BY <1>2, <1>6, <1>10, <1>11, <2>3 DEF HotIn, SameSets
    <2> QED BY <2>2, <2>4
  <1>15. r # "compact"
    BY <1>1
  <1>16. Erase2'
    <2>1. job'.ret = "idle" => PendingIn({job.er})' /\ Stored(Off(job.er))'
      BY <1>5, <1>8, <1>10, <1>13 DEF PendingIn, Stored, Off, Alone, HotIn
    <2>2. job'.ret = "zero" => /\ PendingIn({job.er})' /\ Stored(Off(job.er) \ {job.src})'
                               /\ (Off(job.er) \subseteq Done)'
      BY <1>5, <1>8, <1>10, <1>12 DEF PendingIn, Stored, Off, Alone, HotIn
    <2>3. job'.ret = "initPages" => /\ PendingIn({job.er})' /\ Paired(Off(job.er) \cap Done)'
                                    /\ HotIn(Off(job.er) \cap (Done \ Old))'
      BY <1>5, <1>8, <1>10, <1>14 DEF PendingIn, Paired, Off, HotIn
    <2> QED BY <1>5, <1>15, <2>1, <2>2, <2>3 DEF Erase2
  <1>17. FlashOK'
    <2>1. \A a, b \in Pages : flash'[a].xfer /\ flash'[b].xfer => a = b
      BY <1>7, <1>9 DEF PendingIn
    <2>2. Paired(InUsed \cap Done)'
      BY <1>10 DEF Paired, InUsed
    <2>3. (Old \subseteq Done)'
      BY <1>6 DEF FlashOK, SameSets
    <2> QED BY <1>7, <2>1, <2>2, <2>3 DEF FlashOK
  <1>18. (job.op # "write" => job.src = Null)'
    BY <1>5 DEF Control2
  <1> QED BY <1>2, <1>16, <1>17, <1>18 DEF Control2

LEMMA ZeroOldSem ==
  ASSUME Inv, Inv', FlashOK, Control2, ZeroOld
  PROVE  FlashOK' /\ Control2'
  <1>1. /\ pc = "zero" /\ flash' = ZeroItem(job.src[1], job.src[2]) /\ hot' = hot
        /\ pc' = "idle" /\ job' = NoJob
    BY DEF ZeroOld, ZeroAt, Return
  <1>2. /\ Shape /\ Source(pgRes) /\ job.id \in Ids /\ Live \subseteq Done
        /\ Live \ {job.src} \subseteq Done /\ Alone(Live \ {job.src})
        /\ HotIn(Live \ {job.src}) /\ PendingIn({})
    BY <1>1 DEF Inv, Control, ZeroOK, Control2, Zero2, Stored
  <1>3. PICK l : l = job.src
    OBVIOUS
  <1>4. l \in Live
    <2>1. l \in Spots
      BY <1>2, <1>3, JobFields DEF Shape, Source, Spots
    <2>2. l \in Places
      BY <1>2, <1>3, <2>1, PlaceIs DEF Shape, Source
    <2> QED BY <1>2, <1>3, <2>2, NvAssumption DEF Source, Live, Id
  <1>5. /\ SameFlags /\ Live' = Live \ {l} /\ Done' = Done \ {l}
        /\ \A m \in Live \ {l} : Id(m)' = Id(m)
    BY <1>1, <1>2, <1>3, <1>4, ZeroSets DEF Shape
  <1>6. HotIn(Live)'
    BY <1>1, <1>2, <1>3, <1>5 DEF HotIn
  <1>7. Idle2'
    BY <1>2, <1>3, <1>5, <1>6 DEF SameFlags, Alone, PendingIn, Idle2, Stored
  <1>8. (pc = "idle")'
    BY <1>1
  <1> QED BY <1>7, <1>8, ToIdle, PTL

LEMMA EraseSem ==
  ASSUME Inv, Inv', FlashOK, Control2, Erase
  PROVE  FlashOK' /\ Control2'
  <1>1. PICK p : p = job.er
    OBVIOUS
  <1>2. /\ pc = "erase" /\ flash' = [flash EXCEPT ![p] = ErasedPage] /\ pgRes' = p /\ hot' = hot
        /\ IF job.ret = "idle" THEN pc' = "idle" /\ job' = NoJob
           ELSE pc' = job.ret /\ job' = Erased(job)
    BY <1>1 DEF Erase, Return, Goto, Erased
  <1>3. Shape /\ EraseOK /\ Erase2
    BY <1>2 DEF Inv, Control, Control2
  <1>4. /\ flash \in [Pages -> PageState] /\ p \in Pages /\ OthersActive(p)
        /\ job \in JobState /\ job.ret \in Returns
    BY <1>1, <1>3, JobFields DEF Shape, EraseOK
  <1>5. /\ flash'[p].active = FALSE /\ flash'[p].xfer = FALSE
        /\ \A q \in Pages \ {p} : flash'[q] = flash[q]
        /\ Live' = Off(p) /\ Done' = Done \cap Off(p) /\ Old' = Old \cap Off(p)
        /\ \A m \in Off(p) : Id(m)' = Id(m)
    BY <1>2, <1>4, EraseSets
  <1>6. (OthersActive(pgRes) /\ OneOff /\ Old \subseteq Done)'
    <2>1. OthersActive(pgRes)'
      BY <1>2, <1>4, <1>5 DEF OthersActive
    <2>2. OneOff'
      BY <2>1, ResOff, PTL
    <2> QED BY <1>5, <2>1, <2>2 DEF FlashOK
  <1>7. Paired(Off(p) \cap Done)
    <2>1. Off(p) \subseteq InUsed
      BY <1>4, LiveSpots DEF Off, InUsed, OthersActive
    <2> QED BY <2>1 DEF FlashOK, Paired
  <1>8. Paired(Done)'
    BY <1>5, <1>7 DEF Paired
  <1>9. ASSUME NEW X, X \subseteq Off(p), HotIn(X) PROVE \A x \in HotIds : hot[x] # Null =>
                 hot[x] \in X /\ Id(hot[x])' = x
    <2>1. ASSUME NEW x \in HotIds, hot[x] # Null PROVE hot[x] \in X /\ Id(hot[x])' = x
      <3>1. PICK m : m = hot[x]
        OBVIOUS
      <3>2. m \in X /\ Id(m) = x
        BY <1>9, <2>1, <3>1 DEF HotIn
      <3>3. Id(m)' = x
        BY <1>5, <1>9, <3>2
      <3>4. Id(hot[x])' = x
        BY <1>2, <3>1, <3>3 DEF Id
      <3> QED BY <3>1, <3>2, <3>4
    <2> QED BY <2>1
  <1>10. CASE job.ret = "idle"
    <2>1. /\ PendingIn({p}) /\ Off(p) \subseteq Done /\ Alone(Off(p)) /\ HotIn(Off(p))
      BY <1>1, <1>3, <1>10 DEF Erase2, Stored
    <2>2. HotIn(Live)'
      <3>1. \A x \in HotIds : hot[x] # Null => hot[x] \in Off(p) /\ Id(hot[x])' = x
        BY <1>9, <2>1
      <3> QED BY <1>2, <1>5, <3>1 DEF HotIn
    <2>3. Idle2'
      BY <1>2, <1>4, <1>5, <2>1, <2>2 DEF Idle2, Stored, PendingIn, Alone
    <2>4. (pc = "idle")'
      BY <1>2, <1>10
    <2> QED BY <2>3, <2>4, ToIdle, PTL
  <1>11. ASSUME job.ret # "idle"
         PROVE  /\ pc' = job.ret /\ job'.op = job.op /\ job'.id = job.id /\ job'.src = job.src
                /\ job'.pg = job.pg /\ job'.ix = job.ix /\ job'.ip = job.ip /\ job'.ii = job.ii
                /\ job'.dups = job.dups /\ (job.op # "write" => job.src = Null)'
    BY <1>2, <1>4, <1>11, EndErase DEF Control2
  <1>12. CASE job.ret = "zero"
    <2>1. /\ PendingIn({p}) /\ Off(p) \subseteq Done
          /\ Alone(Off(p) \ {job.src}) /\ HotIn(Off(p) \ {job.src})
      BY <1>1, <1>3, <1>12 DEF Erase2, Stored
    <2>2. PendingIn({})' /\ (Live \subseteq Done)'
      BY <1>4, <1>5, <2>1 DEF PendingIn
    <2>3. Alone(Live \ {job.src})'
      BY <1>5, <1>11, <1>12, <2>1 DEF Alone
    <2>4. HotIn(Live \ {job.src})'
      <3>1. PICK l : l = job.src
        OBVIOUS
      <3>2. \A x \in HotIds : hot[x] # Null => hot[x] \in Off(p) \ {l} /\ Id(hot[x])' = x
        BY <1>9, <2>1, <3>1
      <3> QED BY <1>2, <1>5, <1>11, <1>12, <3>1, <3>2 DEF HotIn
    <2>5. Zero2'
      BY <2>2, <2>3, <2>4 DEF Zero2, Stored
    <2>6. FlashOK'
      BY <1>6, <1>8, <2>2, PairFlash, PTL
    <2> QED BY <1>11, <1>12, <2>5, <2>6 DEF Control2
  <1>13. CASE job.ret = "compact"
    <2>1. /\ HotCold /\ Off(p) \subseteq Done /\ Alone(Off(p))
          /\ PendingIn({job.pg}) /\ flash[job.pg].xfer
          /\ p = pgRes /\ job.op = "boot" /\ job.id = Null /\ job.ix = 1
          /\ job.pg \in Pages /\ job.pg # p
      BY <1>1, <1>3, <1>13 DEF Erase2, EraseOK, Boot_
    <2>2. PICK r \in Pages : r = job.pg
      BY <2>1
    <2>3. PendingIn({job.pg})' /\ flash'[job'.pg].xfer /\ ~flash'[pgRes'].active
      BY <1>2, <1>5, <1>11, <1>13, <2>1 DEF PendingIn
    <2>4. Off(pgRes)' = Off(p) /\ OnReserve' = {}
      BY <1>2, <1>5 DEF Off, OnReserve
    <2>5. (Off(pgRes) \subseteq Done)' /\ Alone(Off(pgRes))'
      BY <1>5, <2>1, <2>4 DEF Alone
    <2>6. Only(Off(pgRes))'
      <3>1. \A l \in Off(p) : Id(l) # Null
        BY DEF Off, Live
      <3> QED BY <1>5, <1>11, <1>13, <2>1, <2>4, <3>1 DEF Only
    <2>7. SourceDone' /\ Moved(OnReserve \ {}, job.ix)'
      BY <1>11, <1>13, <2>1, <2>4 DEF SourceDone, Moved, Alone
    <2>8. \A x \in HotIds : hot'[x] = Null
      BY <1>2, <2>1 DEF HotCold
    <2>9. Compact2'
      BY <2>3, <2>5, <2>6, <2>7, <2>8 DEF Compact2, CopyState, HotIn
    <2>10. FlashOK'
      <3>1. (pgRes \in Pages /\ OthersActive(pgRes) /\ job.pg # pgRes)'
        BY <1>2, <1>4, <1>6, <1>11, <1>13, <2>1
      <3>2. CopySound'
        BY <1>6, <2>3, <2>5 DEF CopySound
      <3> QED BY <3>1, <3>2, CopyFlash, PTL
    <2> QED BY <1>11, <1>13, <2>9, <2>10 DEF Control2
  <1>14. CASE job.ret = "initPages"
    <2>1. /\ PendingIn({p}) /\ HotIn(Off(p) \cap (Done \ Old))
          /\ job.ip = 1 /\ job.ii = 1 /\ job.dups = "no"
      BY <1>1, <1>3, <1>14 DEF Erase2, EraseOK
    <2>2. PendingIn({})'
      BY <1>4, <1>5, <2>1 DEF PendingIn
    <2>3. HotIn(Done \ Old)'
      <3>1. \A x \in HotIds : hot[x] # Null =>
              hot[x] \in Off(p) \cap (Done \ Old) /\ Id(hot[x])' = x
        BY <1>9, <2>1
      <3> QED BY <1>2, <1>5, <3>1 DEF HotIn
    <2>4. \A l \in Live' : ~(l[1] < job'.ip \/ (l[1] = job'.ip /\ l[2] < job'.ii))
      <3>1. \A l \in Live' : l \in Spots
        BY <1>4, <1>5, LiveSpots DEF Off
      <3>2. \A l \in Spots : l[1] \in Nat /\ l[1] >= 1 /\ l[2] \in Nat /\ l[2] >= 1
        BY DEF Spots, Pages
      <3> QED BY <1>11, <1>14, <2>1, <3>1, <3>2
    <2>5. pgRes' # Null
      BY <1>2, <1>4, NvAssumption
    <2>6. job'.dups = "no"
      BY <1>11, <1>14, <2>1
    <2>7. Scan2'
      BY <1>8, <2>2, <2>3, <2>4, <2>5, <2>6 DEF Scan2
    <2>8. FlashOK'
      BY <1>6, <1>8, <2>2, PairFlash, PTL
    <2> QED BY <1>11, <1>14, <2>7, <2>8 DEF Control2
  <1> QED BY <1>4, <1>10, <1>12, <1>13, <1>14 DEF Returns

-----------------------------------------------------------------------------
(* The recovery at power-up.                                               *)

LEMMA BootScanSem ==
  ASSUME Inv, Inv', FlashOK, Control2, BootScan
  PROVE  FlashOK' /\ Control2'
  <1>1. PICK p : p = job.ip
    OBVIOUS
  <1>2. PICK next : next = [job EXCEPT !.ip = p + 1]
    OBVIOUS
  <1>3. /\ pc = "boot" /\ p <= LastPage /\ pc' = "boot" /\ hot' = hot
        /\ \/ /\ ~flash[p].active /\ pgRes = Null /\ pgRes' = p /\ job' = next /\ flash' = flash
           \/ /\ ~flash[p].active /\ pgRes # Null /\ flash' = setPageUse(p) /\ job' = next
              /\ pgRes' = pgRes
           \/ /\ flash[p].active /\ flash' = flash /\ pgRes' = pgRes
              /\ job' = IF flash[p].xfer THEN [next EXCEPT !.pg = p] ELSE next
    BY <1>1, <1>2 DEF BootScan
  <1>4. Shape /\ BootOK /\ Boot2
    BY <1>3 DEF Inv, Control, Control2
  <1>5. /\ flash \in [Pages -> PageState] /\ job \in JobState /\ p \in Nat \ {0}
        /\ pgRes \in Pages \cup {Null}
    BY <1>1, <1>4, JobFields DEF Shape
  <1>6. p \in Pages
    BY <1>3, <1>5, NvAssumption DEF Pages
  <1>7. p + 1 \in Nat \ {0} /\ \A q \in Pages : q < p + 1 <=> q < p \/ q = p
    BY <1>6 DEF Pages
  <1>8. /\ next \in JobState /\ next.ip = p + 1 /\ next.op = job.op /\ next.src = job.src
        /\ next.pg = job.pg
    BY <1>2, <1>5, <1>7, SetIp
  <1>9. /\ HotCold /\ (pgRes # Null => ~flash[pgRes].active)
        /\ (job.pg # Null => flash[job.pg].xfer)
        /\ \A q \in Pages : q < p /\ flash[q].xfer => job.pg = q
    BY <1>1, <1>4 DEF Boot2
  <1>10. HotCold'
    BY <1>3, <1>9 DEF HotCold
  <1>11. job'.ip = p + 1 /\ job'.op = job.op /\ job'.src = job.src
    <2>1. PICK k : k = [next EXCEPT !.pg = p]
      OBVIOUS
    <2>2. k.ip = p + 1 /\ k.op = job.op /\ k.src = job.src
      BY <1>6, <1>8, <2>1, SetPage
    <2> QED BY <1>3, <1>8, <2>1, <2>2
  <1>12. (job.op # "write" => job.src = Null)'
    BY <1>11 DEF Control2
  <1>13. CASE ~flash[p].active /\ pgRes # Null /\ flash' = setPageUse(p) /\ job' = next
              /\ pgRes' = pgRes
    <2>1. pgRes \in Pages /\ pgRes # p
      <3>1. pgRes \in Pages /\ pgRes < p
        BY <1>1, <1>4, <1>5, <1>13 DEF BootOK
      <3> QED BY <1>5, <3>1 DEF Pages
    <2>2. Live = {}
      BY <1>6, <1>9, <1>13, <2>1 DEF FlashOK
    <2>3. /\ SameSets /\ flash'[p].active = TRUE /\ flash'[p].xfer = flash[p].xfer
          /\ \A q \in Pages \ {p} : flash'[q] = flash[q]
      <3>1. flash[p].xfer \in BOOLEAN /\ TRUE \in BOOLEAN
        BY <1>5, <1>6, PageFields
      <3> QED BY <1>5, <1>6, <1>13, <3>1, SetFlags, FlagsSets
    <2>4. Live' = {} /\ Old' = {} /\ InUsed' = {}
      BY <2>2, <2>3 DEF SameSets, Old, InUsed
    <2>5. \A q \in Pages : flash'[q].xfer = flash[q].xfer
      BY <2>3
    <2>6. FlashOK'
      <3>1. \A a, b \in Pages : flash'[a].xfer /\ flash'[b].xfer => a = b
        BY <2>5 DEF FlashOK
      <3>2. \A a \in Pages : flash'[a].xfer => flash'[a].active
        <4>1. ASSUME NEW a \in Pages, flash'[a].xfer PROVE flash'[a].active
          <5>1. flash[a].active
            BY <2>5, <4>1 DEF FlashOK
          <5> QED BY <1>13, <2>3, <5>1
        <4> QED BY <4>1
      <3> QED BY <2>4, <3>1, <3>2 DEF FlashOK, Paired, Alone
    <2>7. Boot2'
      <3>1. ~flash[p].xfer
        BY <1>6, <1>13 DEF FlashOK
      <3>2. job'.pg = job.pg
        BY <1>8, <1>13
      <3>3. job'.pg # Null => flash'[job'.pg].xfer
        <4> SUFFICES ASSUME job.pg # Null PROVE flash'[job.pg].xfer
          BY <3>2
        <4>1. job.pg \in Pages
          BY <1>5, JobFields
        <4> QED BY <1>9, <2>5, <4>1
      <3>4. pgRes' # Null => ~flash'[pgRes'].active
        BY <1>9, <1>13, <2>1, <2>3
      <3> QED BY <1>7, <1>9, <1>10, <1>11, <2>5, <3>1, <3>2, <3>3, <3>4 DEF Boot2
    <2> QED BY <1>3, <1>12, <2>6, <2>7 DEF Control2
  <1>14. ASSUME flash' = flash PROVE FlashOK'
    <2>1. SameSets /\ SameFlags
      BY <1>5, <1>14, SameFlash
    <2> QED BY <1>14, <2>1 DEF FlashOK, SameSets, SameIds, SameFlags, Paired, Alone, InUsed
  <1>15. CASE ~flash[p].active /\ pgRes = Null /\ pgRes' = p /\ job' = next /\ flash' = flash
    <2>1. ~flash[p].xfer
      BY <1>6, <1>15 DEF FlashOK
    <2>2. Boot2'
      BY <1>7, <1>8, <1>9, <1>10, <1>15, <2>1 DEF Boot2
    <2> QED BY <1>3, <1>12, <1>14, <1>15, <2>2 DEF Control2
  <1>16. CASE /\ flash[p].active /\ flash' = flash /\ pgRes' = pgRes
              /\ job' = IF flash[p].xfer THEN [next EXCEPT !.pg = p] ELSE next
    <2>1. job'.pg = IF flash[p].xfer THEN p ELSE job.pg
      BY <1>6, <1>8, <1>16, SetPage
    <2>2. ASSUME NEW q \in Pages, q < p + 1, flash[q].xfer PROVE job'.pg = q
      BY <1>6, <1>7, <1>9, <2>1, <2>2 DEF FlashOK
    <2>3. job'.pg # Null => flash[job'.pg].xfer
      BY <1>9, <2>1
    <2>4. Boot2'
      BY <1>9, <1>10, <1>11, <1>16, <2>2, <2>3 DEF Boot2
    <2> QED BY <1>3, <1>12, <1>14, <1>16, <2>4 DEF Control2
  <1> QED BY <1>3, <1>13, <1>15, <1>16

LEMMA BootSettleSem ==
  ASSUME Inv, Inv', FlashOK, Control2, BootSettle
  PROVE  FlashOK' /\ Control2'
  <1>1. PICK j : j = [job EXCEPT !.ip = 1]
    OBVIOUS
  <1>2. /\ pc = "boot" /\ job.ip > LastPage /\ flash' = flash /\ pgRes' = pgRes /\ hot' = hot
        /\ \/ pgRes # Null
              /\ ThenErase(j, pgRes, IF job.pg # Null THEN "compact" ELSE "initPages")
           \/ pgRes = Null /\ job.pg # Null /\ ThenErase(j, job.pg, "initPages")
           \/ pgRes = Null /\ job.pg = Null /\ Goto("initPages", j)
    BY <1>1 DEF BootSettle, ram
  <1>3. Shape /\ BootOK /\ Boot2
    BY <1>2 DEF Inv, Control, Control2
  <1>4. /\ flash \in [Pages -> PageState] /\ job \in JobState /\ job.ip \in Nat
        /\ pgRes \in Pages \cup {Null} /\ job.pg \in Pages \cup {Null}
    BY <1>3, JobFields DEF Shape
  <1>5. \A q \in Pages : q < job.ip
    BY <1>2, <1>4, NvAssumption DEF Pages
  <1>6. /\ HotCold /\ (pgRes # Null => ~flash[pgRes].active)
        /\ (job.pg # Null => flash[job.pg].xfer)
        /\ \A q \in Pages : flash[q].xfer => job.pg = q
        /\ \A q \in Pages \ {pgRes} : flash[q].active
    BY <1>3, <1>5 DEF Boot2, BootOK
  <1>7. /\ j \in JobState /\ j.ip = 1 /\ j.op = job.op /\ j.src = job.src /\ j.pg = job.pg
        /\ j.ii = 1 /\ j.dups = "no"
    <2>1. 1 \in Nat \ {0}
      OBVIOUS
    <2> QED BY <1>1, <1>3, <1>4, <2>1, SetIp DEF BootOK
  <1>8. SameSets /\ SameFlags
    BY <1>2, <1>4, SameFlash
  <1>9. FlashOK'
    BY <1>2, <1>8 DEF FlashOK, SameSets, SameIds, SameFlags, Paired, Alone, InUsed
  <1>10. \A x \in HotIds : hot'[x] = Null
    BY <1>2, <1>6 DEF HotCold
  <1>11. ASSUME NEW p \in Pages, NEW r \in {"compact", "initPages"}, ThenErase(j, p, r),
                OthersActive(p), r = "compact" => p = pgRes /\ job.pg # Null,
                r = "initPages" => PendingIn({p})
         PROVE  Control2'
    <2>1. pc' = "erase" /\ job' = ErasingAt(j, p, r)
      BY <1>11 DEF ThenErase, Goto, ErasingAt
    <2>2. job'.er = p /\ job'.ret = r /\ job'.op = job.op /\ job'.src = job.src /\ job'.pg = job.pg
      BY SMTT(30), <1>7, <2>1, SetErase DEF Returns
    <2>3. Off(p) \subseteq InUsed /\ Off(job.er)' = Off(p) /\ Off(p) \subseteq Live
      BY <1>4, <1>8, <1>11, <2>2, LiveSpots DEF Off, InUsed, OthersActive, SameSets
    <2>4. CASE r = "compact"
      <3>1. PICK q \in Pages : q = job.pg
        BY <1>4, <1>11, <2>4
      <3>2. flash[q].xfer /\ ~flash[p].active
        BY <1>4, <1>6, <1>11, <2>4, <3>1, NvAssumption
      <3>3. InUsed \subseteq Done /\ Alone(InUsed)
        BY <3>1, <3>2 DEF FlashOK
      <3>4. (Off(job.er) \subseteq Done)' /\ Alone(Off(job.er))'
        BY <1>8, <2>3, <3>3 DEF Alone, SameSets, SameIds
      <3>5. PendingIn({job.pg})' /\ flash'[job'.pg].xfer
        BY <1>2, <1>6, <2>2, <3>1, <3>2 DEF PendingIn
      <3>6. Erase2'
        BY <1>10, <2>2, <2>4, <3>4, <3>5 DEF Erase2, HotCold
      <3> QED BY <2>1, <2>2, <3>6 DEF Control2
    <2>5. CASE r = "initPages"
      <3>1. PendingIn({job.er})'
        BY <1>2, <1>11, <2>2, <2>5 DEF PendingIn
      <3>2. Paired(Off(job.er) \cap Done)'
        BY <1>8, <2>3 DEF FlashOK, Paired, SameSets, SameIds
      <3>3. HotIn(Off(job.er) \cap (Done \ Old))'
        BY <1>10 DEF HotIn
      <3>4. Erase2'
        BY <2>2, <2>5, <3>1, <3>2, <3>3 DEF Erase2
      <3> QED BY <2>1, <2>2, <3>4 DEF Control2
    <2> QED BY <2>4, <2>5
  <1>12. CASE pgRes # Null
    <2>1. PICK p \in Pages : p = pgRes
      BY <1>4, <1>12
    <2>2. OthersActive(p)
      BY <1>6, <2>1 DEF OthersActive
    <2>3. CASE job.pg # Null
      <3>1. ThenErase(j, p, "compact")
        BY <1>2, <1>12, <2>1, <2>3
      <3> QED BY <1>9, <1>11, <2>1, <2>2, <2>3, <3>1
    <2>4. CASE job.pg = Null
      <3>1. ThenErase(j, p, "initPages")
        BY <1>2, <1>12, <2>1, <2>4
      <3>2. PendingIn({p})
        BY <1>6, <2>4, NvAssumption DEF PendingIn
      <3> QED BY <1>9, <1>11, <2>1, <2>2, <3>1, <3>2
    <2> QED BY <2>3, <2>4
  <1>13. CASE pgRes = Null /\ job.pg # Null
    <2>1. PICK p \in Pages : p = job.pg
      BY <1>4, <1>13
    <2>2. OthersActive(p) /\ PendingIn({p}) /\ ThenErase(j, p, "initPages")
      BY <1>2, <1>6, <1>13, <2>1, NvAssumption DEF OthersActive, PendingIn
    <2> QED BY <1>9, <1>11, <2>1, <2>2
  <1>14. CASE pgRes = Null /\ job.pg = Null
    <2>1. pc' = "initPages" /\ job' = j
      BY <1>2, <1>14 DEF Goto
    <2>2. PendingIn({})'
      BY <1>2, <1>6, <1>14, NvAssumption DEF PendingIn
    <2>3. Paired(Done)'
      <3>1. Live \subseteq InUsed /\ Done \subseteq Live
        BY <1>4, <1>6, <1>14, LiveSpots, NvAssumption DEF InUsed
      <3> QED BY <1>8, <3>1 DEF FlashOK, Paired, SameSets, SameIds
    <2>4. HotIn(Done \ Old)' /\ HotCold'
      BY <1>10 DEF HotIn, HotCold
    <2>5. \A l \in Live' : ~(l[1] < job'.ip \/ (l[1] = job'.ip /\ l[2] < job'.ii))
      <3>1. \A l \in Live' : l \in Spots
        BY <1>4, <1>8, LiveSpots DEF SameSets
      <3>2. \A l \in Spots : l[1] \in Nat /\ l[1] >= 1 /\ l[2] \in Nat /\ l[2] >= 1
        BY DEF Spots, Pages
      <3> QED BY <1>7, <2>1, <3>1, <3>2
    <2>6. Scan2'
      BY <1>7, <2>1, <2>2, <2>3, <2>4, <2>5 DEF Scan2
    <2>7. (job.op # "write" => job.src = Null)'
      BY <1>7, <2>1 DEF Control2
    <2> QED BY <1>9, <2>1, <2>6, <2>7 DEF Control2
  <1> QED BY <1>12, <1>13, <1>14

\* initPage goes on behind an item, those at the places X having been zeroed.
LEMMA NextItemSem ==
  ASSUME Inv, Inv', Control2, pc = "initPages", pc' = "initPages", job'.ip = job.ip,
         job'.ii = job.ii + 1, job'.dups = job.dups, job'.op = job.op, job'.src = job.src,
         hot' = hot, pgRes' = pgRes, SameFlags,
         NEW X, X \cap (Done \ Old) = {}, Old \subseteq Done,
         Live' = Live \ X, Done' = Done \ X, Old' = Old \ X, \A m \in Live \ X : Id(m)' = Id(m),
         NEW l, l = <<job.ip, job.ii>>,
         l \in Live' => /\ l \in Done
                        /\ job.dups = "no" => l \notin Old
                        /\ job.dups = "yes" /\ l \notin Old => \A m \in Old' : Id(m) # Id(l)
  PROVE  FlashOK' /\ Control2'
  <1>1. Scan2 /\ ScanOK /\ flash \in [Pages -> PageState] /\ job.ii \in Nat
    BY JobFields DEF Inv, Shape, Control, Control2
  <1>2. Live' \subseteq Spots /\ Done \subseteq Live /\ Old \subseteq Live /\ Old' \subseteq Live'
    BY <1>1, LiveSpots
  <1>3. PendingIn({})'
    BY <1>1 DEF Scan2, PendingIn, SameFlags
  <1>4. Paired(Done)'
    BY <1>1, <1>2 DEF Scan2, Paired
  <1>5. HotIn(Done \ Old)'
    <2>1. ASSUME NEW x \in HotIds, hot[x] # Null PROVE hot[x] \in Done \ Old /\ Id(hot[x])' = x
      <3>1. PICK m : m = hot[x]
        OBVIOUS
      <3>2. m \in Done \ Old /\ Id(m) = x
        BY <1>1, <2>1, <3>1 DEF Scan2, HotIn
      <3>3. Id(m)' = x
        BY <1>2, <3>2
      <3>4. Id(hot[x])' = x
        BY <3>1, <3>3 DEF Id
      <3> QED BY <3>1, <3>2, <3>4
    <2> QED BY <2>1 DEF HotIn
  <1>6. pgRes' # Null \/ HotCold'
    BY <1>1 DEF Scan2, HotCold
  <1>7. ASSUME NEW m \in Live', m[1] < job'.ip \/ (m[1] = job'.ip /\ m[2] < job'.ii)
        PROVE  \/ m = l
               \/ m \in Live /\ (m[1] < job.ip \/ (m[1] = job.ip /\ m[2] < job.ii))
    <2>1. PICK q \in Pages, k \in Nat \ {0} : m = <<q, k>>
      BY <1>2 DEF Spots
    <2>2. m[1] = q /\ m[2] = k
      BY <2>1
    <2>3. k < job.ii + 1 => k < job.ii \/ k = job.ii
      BY <1>1
    <2> QED BY <1>7, <2>1, <2>2, <2>3
  <1>8. ASSUME NEW m \in Live', m[1] < job'.ip \/ (m[1] = job'.ip /\ m[2] < job'.ii)
        PROVE  /\ m \in Done'
               /\ job'.dups = "no" => m \notin Old'
               /\ job'.dups = "yes" /\ m \notin Old' => \A k \in Old' : Id(k)' # Id(m)'
    <2>1. m \in Live \ X /\ \A k \in Old' : k \in Old /\ k \in Live \ X
      BY <1>2
    <2>2. /\ m \in Done
          /\ job.dups = "no" => m \notin Old
          /\ job.dups = "yes" /\ m \notin Old => \A k \in Old' : Id(k) # Id(m)
      BY <1>1, <1>7, <1>8, <2>1 DEF Scan2
    <2> QED BY <2>1, <2>2
  <1>9. job'.dups = "final" => Live' \subseteq Done' /\ Alone(Live)'
    BY <1>1 DEF Scan2, Alone
  <1>10. Scan2'
    BY <1>3, <1>4, <1>5, <1>6, <1>8, <1>9 DEF Scan2
  <1>11. FlashOK'
    <2>1. (Old \subseteq Done)'
      OBVIOUS
    <2>2. OthersActive(pgRes)'
      BY DEF Inv, Control, ScanOK, Scanning
    <2>3. OneOff'
      BY <2>2, ResOff, PTL
    <2> QED BY <1>3, <1>4, <2>1, <2>3, PairFlash, PTL
  <1>12. (job.op # "write" => job.src = Null)'
    BY DEF Control2
  <1> QED BY <1>10, <1>11, <1>12 DEF Control2

\* initPage is done with a page: no copy on it is incomplete, or one too many.
LEMMA ToPageSem ==
  ASSUME Inv, FlashOK, Control2, pc = "initPages", flash' = flash, hot' = hot, pgRes' = pgRes,
         ToPage(job),
         \A l \in Live : l[1] = job.ip =>
           /\ l \in Done
           /\ job.dups = "no" => l \notin Old
           /\ job.dups = "yes" /\ l \notin Old => \A m \in Old : Id(m) # Id(l)
  PROVE  FlashOK' /\ Control2'
  <1>1. Shape /\ Scan2 /\ ScanOK /\ (job.op # "write" => job.src = Null)
    BY DEF Inv, Control, Control2
  <1>2. /\ flash \in [Pages -> PageState] /\ job \in JobState /\ job.ip \in Pages
        /\ job.dups \in {"no", "yes", "final"} /\ LastPage \in Nat /\ job.ip \in Nat \ {0}
    BY <1>1, JobFields, NvAssumption DEF Shape, ScanOK
  <1>3. SameSets /\ SameFlags
    BY <1>2, SameFlash
  <1>4. FlashOK'
    BY <1>3 DEF FlashOK, SameSets, SameIds, SameFlags, Paired, Alone, InUsed
  <1>5. /\ Done \subseteq Live /\ Old \subseteq Live
        /\ \A l \in Live : l[1] \in Pages /\ l[1] \in Nat /\ l[1] >= 1 /\ l[2] \in Nat /\ l[2] >= 1
    <2>1. \A l \in Live : l[1] \in Pages /\ l[2] \in Nat \ {0}
      BY <1>2, LiveSpots DEF Spots
    <2> QED BY <1>2, <2>1, LiveSpots DEF Pages
  <1>6. ASSUME NEW l \in Live, l[1] <= job.ip
        PROVE  /\ l \in Done
               /\ job.dups = "no" => l \notin Old
               /\ job.dups = "yes" /\ l \notin Old => \A m \in Old : Id(m) # Id(l)
    <2>1. l[1] < job.ip \/ l[1] = job.ip
      BY <1>2, <1>5, <1>6
    <2> QED BY <1>1, <2>1 DEF Scan2
  <1>7. /\ PendingIn({})' /\ Paired(Done)' /\ HotIn(Done \ Old)' /\ (pgRes' # Null \/ HotCold')
        /\ (Live \subseteq Done /\ Alone(Live) => (Live \subseteq Done)' /\ Alone(Live)')
    <2>1. PendingIn({}) /\ Paired(Done) /\ HotIn(Done \ Old) /\ (pgRes # Null \/ HotCold)
      BY <1>1 DEF Scan2
    <2>2. Live' = Live /\ Done' = Done /\ Old' = Old /\ \A l \in Live : Id(l)' = Id(l)
      BY <1>3 DEF SameSets, SameIds
    <2>3. PendingIn({})'
      BY <1>3, <2>1 DEF SameFlags, PendingIn
    <2>4. Paired(Done)'
      BY <1>5, <2>1, <2>2 DEF Paired
    <2>5. HotIn(Done \ Old)'
      <3>1. ASSUME NEW x \in HotIds, hot[x] # Null
            PROVE  hot[x] \in Done \ Old /\ Id(hot[x])' = x
        <4>1. PICK m : m = hot[x]
          OBVIOUS
        <4>2. m \in Done \ Old /\ Id(m) = x
          BY <2>1, <3>1, <4>1 DEF HotIn
        <4>3. Id(m)' = x
          BY <1>5, <2>2, <4>2
        <4>4. Id(hot[x])' = x
          BY <4>1, <4>3 DEF Id
        <4> QED BY <4>1, <4>2, <4>4
      <3> QED BY <2>2, <3>1 DEF HotIn
    <2>6. pgRes' # Null \/ HotCold'
      BY <2>1 DEF HotCold
    <2>7. Live \subseteq Done /\ Alone(Live) => (Live \subseteq Done)' /\ Alone(Live)'
      BY <2>2 DEF Alone
    <2> QED BY <2>3, <2>4, <2>5, <2>6, <2>7
  <1>8. CASE job.ip < LastPage
    <2>1. pc' = "initPages" /\ job' = ScanAt(job, job.ip + 1, 1, 0)
      BY <1>8 DEF ToPage, Goto, ScanAt
    <2>2. /\ job'.ip = job.ip + 1 /\ job'.ii = 1 /\ job'.dups = job.dups
          /\ job'.op = job.op /\ job'.src = job.src
      <3>1. PICK i \in Nat \ {0} : i = job.ip + 1
        BY <1>2
      <3>2. 1 \in Nat \ {0} /\ 0 \in Nat
        OBVIOUS
      <3> QED BY <1>2, <2>1, <3>1, <3>2, SetScan
    <2>3. ASSUME NEW l \in Live, l[1] < job'.ip \/ (l[1] = job'.ip /\ l[2] < job'.ii)
          PROVE  l[1] <= job.ip
      BY <1>2, <1>5, <2>2, <2>3
    <2>4. ASSUME NEW l \in Live', l[1] < job'.ip \/ (l[1] = job'.ip /\ l[2] < job'.ii)
          PROVE  /\ l \in Done'
                 /\ job'.dups = "no" => l \notin Old'
                 /\ job'.dups = "yes" /\ l \notin Old' => \A m \in Old' : Id(m)' # Id(l)'
      <3>1. l \in Live /\ Live' = Live /\ Done' = Done /\ Old' = Old /\ l[1] <= job.ip
        BY <1>3, <2>3, <2>4 DEF SameSets
      <3>2. \A m \in Live : Id(m)' = Id(m)
        BY <1>3 DEF SameSets, SameIds
      <3> QED BY <1>5, <1>6, <2>2, <3>1, <3>2
    <2>5. job'.dups = "final" => Live' \subseteq Done' /\ Alone(Live)'
      BY <1>1, <1>7, <2>2 DEF Scan2
    <2>6. Scan2'
      BY <1>7, <2>4, <2>5 DEF Scan2
    <2> QED BY <1>1, <1>4, <2>1, <2>2, <2>6 DEF Control2
  <1>9. ASSUME ~(job.ip < LastPage) PROVE Live \subseteq Done /\ Alone(Live)
    <2>1. \A l \in Live : l[1] <= job.ip
      BY <1>2, <1>5, <1>9 DEF Pages
    <2>2. Live \subseteq Done
      BY <1>6, <2>1
    <2>3. CASE job.dups = "no"
      <3>1. \A l \in Live : l \notin Old
        BY <1>6, <2>1, <2>3
      <3> QED BY <1>1, <2>2, <3>1 DEF Scan2, Paired, Alone
    <2>4. CASE job.dups = "yes"
      <3>1. \A l \in Live \ Old : \A m \in Old : Id(m) # Id(l)
        BY <1>6, <2>1, <2>4
      <3>2. \A l, m \in Live : Id(l) = Id(m) => (l \in Old <=> m \in Old)
        BY <3>1
      <3> QED BY <1>1, <2>2, <3>2 DEF Scan2, Paired, Alone
    <2>5. CASE job.dups = "final"
      BY <1>1, <2>5 DEF Scan2
    <2> QED BY <1>2, <2>3, <2>4, <2>5, <2>2
  <1>10. CASE ~(job.ip < LastPage) /\ job.dups = "yes"
    <2>1. pc' = "initPages" /\ job' = PassAt(job, 1, 1, 0, "final")
      BY <1>10 DEF ToPage, Goto, PassAt
    <2>2. /\ job'.ip = 1 /\ job'.ii = 1 /\ job'.dups = "final"
          /\ job'.op = job.op /\ job'.src = job.src
      <3>1. 1 \in Nat \ {0} /\ 0 \in Nat
        OBVIOUS
      <3> QED BY <1>2, <2>1, <3>1, SetPass
    <2>3. \A l \in Live' : ~(l[1] < job'.ip \/ (l[1] = job'.ip /\ l[2] < job'.ii))
      BY <1>3, <1>5, <2>2 DEF SameSets
    <2>4. Scan2'
      BY <1>7, <1>9, <1>10, <2>2, <2>3 DEF Scan2
    <2> QED BY <1>1, <1>4, <2>1, <2>2, <2>4 DEF Control2
  <1>11. CASE ~(job.ip < LastPage) /\ job.dups # "yes"
    <2>1. pc' = "pickRes" /\ job' = job
      BY <1>11 DEF ToPage, Goto
    <2>2. HotIn(Live)'
      <3>1. Done' \ Old' \subseteq Live'
        BY <1>3, <1>5 DEF SameSets
      <3> QED BY <1>7, <3>1 DEF HotIn
    <2>3. Pick2'
      BY <1>7, <1>9, <1>11, <2>2 DEF Pick2, Stored
    <2> QED BY <1>1, <1>4, <2>1, <2>3 DEF Control2
  <1> QED BY <1>8, <1>10, <1>11

LEMMA ScanEndSem ==
  ASSUME Inv, Inv', FlashOK, Control2, ScanEnd
  PROVE  FlashOK' /\ Control2'
  <1>1. /\ pc = "initPages" /\ job.ii > Len(flash[job.ip].items) /\ ToPage(job)
        /\ flash' = flash /\ hot' = hot /\ pgRes' = pgRes
    BY DEF ScanEnd
  <1>2. Scan2 /\ flash \in [Pages -> PageState] /\ job.ii \in Nat
    BY <1>1, JobFields DEF Inv, Shape, Control2
  <1>3. ASSUME NEW l \in Live, l[1] = job.ip PROVE l[2] < job.ii
    <2>1. l[2] \in 1 .. Len(Items(l[1])) /\ l[1] \in Pages
      BY <1>2, LiveSpots
    <2>2. Len(Items(l[1])) \in Nat
      BY <1>2, <2>1, PageFields DEF Items
    <2> QED BY <1>1, <1>2, <1>3, <2>1, <2>2 DEF Items
  <1>4. \A l \in Live : l[1] = job.ip =>
          /\ l \in Done
          /\ job.dups = "no" => l \notin Old
          /\ job.dups = "yes" /\ l \notin Old => \A m \in Old : Id(m) # Id(l)
    BY <1>2, <1>3 DEF Scan2
  <1> QED BY <1>1, <1>4, ToPageSem

LEMMA ScanItemSem ==
  ASSUME Inv, Inv', FlashOK, Control2, ScanItem
  PROVE  FlashOK' /\ Control2'
  <1>1. /\ pc = "initPages" /\ Scan2 /\ ScanOK /\ flash \in [Pages -> PageState]
        /\ job \in JobState /\ job.ii \in Nat \ {0} /\ job.lost \in Nat
        /\ job.dups \in {"no", "yes", "final"} /\ job.ip \in Pages
        /\ (job.op # "write" => job.src = Null)
    BY JobFields DEF ScanItem, Inv, Shape, Control, Control2, ScanOK
  <1>2. PICK p \in Pages, i \in Nat \ {0} : p = job.ip /\ i = job.ii
    BY <1>1
  <1>3. PICK l : l = <<job.ip, job.ii>>
    OBVIOUS
  <1>4. l = <<p, i>> /\ l[1] = p /\ l[2] = i /\ l \in Spots
    BY <1>2, <1>3 DEF Spots
  <1>5. PICK it : it = Item(p, i)
    OBVIOUS
  <1>6. i <= Len(Items(p))
    BY <1>2 DEF ScanItem, Items
  <1>7. Items(p) \in Seq(ItemState) /\ Len(Items(p)) \in Nat /\ i \in 1 .. Len(Items(p))
    <2>1. Items(p) \in Seq(ItemState) /\ Len(Items(p)) \in Nat
      BY <1>1, PageFields DEF Items
    <2> QED BY <1>6, <2>1
  <1>8. l \in Places
    BY <1>1, <1>4, <1>7, PlaceIs
  <1>9. /\ it.size \in 1 .. PageCap /\ it.stat \in {"new", "xfer"}
        /\ l \in Live <=> it.id # Null
        /\ l \in Done <=> it.id # Null /\ it.chk
        /\ l \in Old <=> it.id # Null /\ it.stat = "xfer"
        /\ Id(l) = it.id
    <2>1. it.size \in 1 .. PageCap /\ it.stat \in {"new", "xfer"}
      BY <1>5, <1>7, ItemFields DEF Item, Items
    <2> QED BY <1>4, <1>5, <1>8, <2>1 DEF Live, Done, Old, Id
  <1>10. PICK n : n = [job EXCEPT !.ii = @ + 1]
    OBVIOUS
  <1>11. PICK m : m = [n EXCEPT !.lost = @ + it.size]
    OBVIOUS
  <1>12. /\ n \in JobState /\ n.ip = job.ip /\ n.ii = job.ii + 1 /\ n.dups = job.dups
         /\ n.op = job.op /\ n.src = job.src /\ n.lost = job.lost
    <2>1. PICK k \in Nat \ {0} : k = job.ii + 1
      BY <1>1
    <2>2. n = [job EXCEPT !.ii = k]
      BY <1>10, <2>1
    <2> QED BY <1>1, <2>1, <2>2, SetIi
  <1>13. /\ m.ip = job.ip /\ m.ii = job.ii + 1 /\ m.dups = job.dups
         /\ m.op = job.op /\ m.src = job.src
    <2>1. PICK w \in Nat : w = n.lost + it.size
      BY <1>1, <1>9, <1>12, NvAssumption
    <2>2. m = [n EXCEPT !.lost = w]
      BY <1>11, <2>1
    <2> QED BY <1>12, <2>1, <2>2, SetLost
  <1>14. /\ pgRes' = pgRes /\ hot' = hot
         /\ \/ it.id = Null /\ pc' = pc /\ job' = m /\ flash' = flash
            \/ it.id # Null /\ ~it.chk /\ ZeroAt(l) /\ pc' = pc /\ job' = m
            \/ /\ it.id # Null /\ it.chk /\ job.dups = "yes" /\ it.stat = "new"
               /\ Copies(it.id, "xfer") # {} /\ ZeroAt(FirstOf(Copies(it.id, "xfer")))
               /\ pc' = pc /\ job' = n
            \/ /\ it.id # Null /\ it.chk /\ job.dups = "yes"
               /\ (it.stat = "new" => Copies(it.id, "xfer") = {})
               /\ pc' = pc /\ job' = n /\ flash' = flash
            \/ /\ it.id # Null /\ it.chk /\ job.dups # "yes" /\ it.stat = "new"
               /\ pc' = pc /\ job' = n /\ flash' = flash
            \/ /\ job.dups = "no" /\ pc' = pc /\ job' = PassAt(job, 1, 1, 0, "yes")
               /\ flash' = flash
            \/ it.id # Null /\ it.chk /\ job.dups = "final" /\ ToPage(job) /\ flash' = flash
    <2>1. it = Item(job.ip, job.ii)
      BY <1>2, <1>5
    <2>2. m = [[job EXCEPT !.ii = @ + 1] EXCEPT !.lost = @ + it.size]
      BY <1>10, <1>11
    <2> QED BY <1>1, <1>3, <1>10, <2>1, <2>2 DEF ScanItem, Goto, ram, PassAt, ZeroAt
  <1>15. Old \subseteq Done /\ Done \subseteq Live /\ Old \subseteq Live
    BY <1>1, LiveSpots DEF FlashOK
  <1>16. ASSUME flash' = flash, pc' = pc, job' = m \/ job' = n,
                l \in Live => /\ l \in Done
                              /\ job.dups = "no" => l \notin Old
                              /\ job.dups = "yes" /\ l \notin Old => \A k \in Old : Id(k) # Id(l)
         PROVE  FlashOK' /\ Control2'
    <2>1. SameFlags /\ Live' = Live /\ Done' = Done /\ Old' = Old /\ \A k \in Live : Id(k)' = Id(k)
      BY <1>1, <1>16, SameFlash DEF SameSets, SameIds
    <2>2. PICK X : X = {}
      OBVIOUS
    <2>3. /\ Live' = Live \ X /\ Done' = Done \ X /\ Old' = Old \ X /\ X \cap (Done \ Old) = {}
          /\ \A k \in Live \ X : Id(k)' = Id(k)
      BY <2>1, <2>2
    <2>4. /\ pc' = "initPages" /\ job'.ip = job.ip /\ job'.ii = job.ii + 1
          /\ job'.dups = job.dups /\ job'.op = job.op /\ job'.src = job.src
      BY <1>1, <1>12, <1>13, <1>16
    <2> QED BY <1>1, <1>3, <1>14, <1>15, <1>16, <2>1, <2>3, <2>4, NextItemSem
  <1>17. CASE it.id = Null /\ pc' = pc /\ job' = m /\ flash' = flash
    BY <1>9, <1>16, <1>17
  <1>18. CASE it.id # Null /\ ~it.chk /\ ZeroAt(l) /\ pc' = pc /\ job' = m
    <2>1. flash' = ZeroItem(l[1], l[2]) /\ l \in Live /\ l \notin Done
      BY <1>9, <1>18 DEF ZeroAt
    <2>2. /\ SameFlags /\ Live' = Live \ {l} /\ Done' = Done \ {l} /\ Old' = Old \ {l}
          /\ \A k \in Live \ {l} : Id(k)' = Id(k)
      BY <1>1, <2>1, ZeroSets
    <2>3. {l} \cap (Done \ Old) = {} /\ l \notin Live'
      BY <2>1, <2>2
    <2>4. /\ pc' = "initPages" /\ job'.ip = job.ip /\ job'.ii = job.ii + 1
          /\ job'.dups = job.dups /\ job'.op = job.op /\ job'.src = job.src
      BY <1>1, <1>13, <1>18
    <2> QED BY <1>1, <1>3, <1>14, <1>15, <2>2, <2>3, <2>4, NextItemSem
  <1>19. CASE /\ it.id # Null /\ it.chk /\ job.dups = "yes" /\ it.stat = "new"
              /\ Copies(it.id, "xfer") # {} /\ ZeroAt(FirstOf(Copies(it.id, "xfer")))
              /\ pc' = pc /\ job' = n
    <2>1. PICK o : o = FirstOf(Copies(it.id, "xfer"))
      OBVIOUS
    <2>2. o \in Copies(it.id, "xfer")
      <3>1. Copies(it.id, "xfer") \subseteq Pages \X (Nat \ {0})
        BY PlacesAre DEF Copies, Inv
      <3> QED BY <1>19, <2>1, <3>1, FirstIn
    <2>3. o \in Old /\ o \in Live /\ Id(o) = it.id
      BY <1>15, <1>19, <2>2 DEF Copies, Old, Live, Id
    <2>4. flash' = ZeroItem(o[1], o[2])
      BY <1>19, <2>1 DEF ZeroAt
    <2>5. /\ SameFlags /\ Live' = Live \ {o} /\ Done' = Done \ {o} /\ Old' = Old \ {o}
          /\ \A k \in Live \ {o} : Id(k)' = Id(k)
      BY <1>1, <2>3, <2>4, ZeroSets
    <2>6. {o} \cap (Done \ Old) = {}
      BY <2>3
    <2>7. l \in Done /\ l \notin Old
      BY <1>9, <1>19
    <2>8. ASSUME NEW k \in Old' PROVE Id(k) # Id(l)
      <3>1. k \in Old /\ k # o
        BY <2>5
      <3> QED BY <1>1, <1>9, <1>15, <2>3, <3>1 DEF Scan2, Paired
    <2>9. /\ pc' = "initPages" /\ job'.ip = job.ip /\ job'.ii = job.ii + 1
          /\ job'.dups = job.dups /\ job'.op = job.op /\ job'.src = job.src
      BY <1>1, <1>12, <1>19
    <2> QED BY <1>1, <1>3, <1>14, <1>15, <1>19, <2>5, <2>6, <2>7, <2>8, <2>9, NextItemSem
  <1>20. CASE /\ it.id # Null /\ it.chk /\ job.dups = "yes"
              /\ (it.stat = "new" => Copies(it.id, "xfer") = {})
              /\ pc' = pc /\ job' = n /\ flash' = flash
    <2>1. ASSUME l \notin Old, NEW k \in Old PROVE Id(k) # Id(l)
      <3>1. Copies(it.id, "xfer") = {}
        BY <1>9, <1>20, <2>1
      <3> QED BY <1>9, <3>1 DEF Old, Live, Copies, Id
    <2> QED BY <1>9, <1>16, <1>20, <2>1
  <1>21. CASE /\ it.id # Null /\ it.chk /\ job.dups # "yes" /\ it.stat = "new"
              /\ pc' = pc /\ job' = n /\ flash' = flash
    <2>1. l \in Done /\ l \notin Old
      BY <1>9, <1>21
    <2> QED BY <1>16, <1>21, <2>1
  <1>22. CASE /\ job.dups = "no" /\ pc' = pc /\ job' = PassAt(job, 1, 1, 0, "yes")
              /\ flash' = flash
    <2>1. /\ job'.ip = 1 /\ job'.ii = 1 /\ job'.dups = "yes"
          /\ job'.op = job.op /\ job'.src = job.src
      <3>1. 1 \in Nat \ {0} /\ 0 \in Nat
        OBVIOUS
      <3> QED BY <1>1, <1>22, <3>1, SetPass
    <2>2. SameSets /\ SameFlags
      BY <1>1, <1>22, SameFlash
    <2>3. \A k \in Live' : ~(k[1] < job'.ip \/ (k[1] = job'.ip /\ k[2] < job'.ii))
      <3>1. \A k \in Live' : k \in Spots
        BY <1>1, <2>2, LiveSpots DEF SameSets
      <3>2. \A k \in Spots : k[1] \in Nat /\ k[1] >= 1 /\ k[2] \in Nat /\ k[2] >= 1
        BY DEF Spots, Pages
      <3> QED BY <2>1, <3>1, <3>2
    <2>4. PendingIn({})' /\ (pgRes' # Null \/ HotCold')
      BY <1>1, <1>14, <2>2 DEF Scan2, SameFlags, PendingIn, HotCold
    <2>5. Paired(Done)'
      BY <1>1, <1>15, <2>2 DEF Scan2, SameSets, SameIds, Paired
    <2>6. HotIn(Done \ Old)'
      <3>1. ASSUME NEW x \in HotIds, hot[x] # Null
            PROVE  hot[x] \in Done \ Old /\ Id(hot[x])' = x
        <4>1. PICK k : k = hot[x]
          OBVIOUS
        <4>2. k \in Done \ Old /\ Id(k) = x
          BY <1>1, <3>1, <4>1 DEF Scan2, HotIn
        <4>3. Id(k)' = x
          BY <1>15, <2>2, <4>2 DEF SameSets, SameIds
        <4>4. Id(hot[x])' = x
          BY <1>14, <4>1, <4>3 DEF Id
        <4> QED BY <4>1, <4>2, <4>4
      <3> QED BY <1>14, <2>2, <3>1 DEF HotIn, SameSets
    <2>7. job'.dups # "final" /\ job'.dups # "no"
      BY <2>1
    <2>8. Scan2'
      BY <2>3, <2>4, <2>5, <2>6, <2>7 DEF Scan2
    <2>9. FlashOK'
      BY <1>22, <2>2 DEF FlashOK, SameSets, SameIds, SameFlags, Paired, Alone, InUsed
    <2> QED BY <1>1, <1>22, <2>1, <2>8, <2>9 DEF Control2
  <1>23. CASE /\ it.id # Null /\ it.chk /\ job.dups = "final" /\ ToPage(job) /\ flash' = flash
    <2>1. \A k \in Live : k \in Done
      BY <1>1, <1>23 DEF Scan2
    <2>2. \A k \in Live : k[1] = job.ip =>
            /\ k \in Done
            /\ job.dups = "no" => k \notin Old
            /\ job.dups = "yes" /\ k \notin Old => \A o \in Old : Id(o) # Id(k)
      BY <1>23, <2>1
    <2> QED BY <1>1, <1>14, <1>23, <2>2, ToPageSem
  <1> QED BY <1>14, <1>17, <1>18, <1>19, <1>20, <1>21, <1>22, <1>23

LEMMA PickReserveSem ==
  ASSUME Inv, Inv', FlashOK, Control2, PickReserve
  PROVE  FlashOK' /\ Control2'
  <1>1. /\ Shape /\ Pick2 /\ flash' = flash /\ pgRes' = pgRes /\ hot' = hot
        /\ IF pgRes = Null THEN ThenErase(job, MostLost, "idle") ELSE Return
        /\ (job.op # "write" => job.src = Null)
    BY DEF Inv, Control2, PickReserve, ram
  <1>2. /\ flash \in [Pages -> PageState] /\ job \in JobState
        /\ Live \subseteq Done /\ Alone(Live) /\ HotIn(Live) /\ PendingIn({})
        /\ (pgRes # Null \/ HotCold)
    BY <1>1 DEF Shape, Pick2, Stored
  <1>3. SameSets /\ SameFlags
    BY <1>1, <1>2, SameFlash
  <1>4. (Live \subseteq Done)' /\ Alone(Live)' /\ PendingIn({})'
    BY <1>2, <1>3 DEF SameSets, SameIds, SameFlags, Alone, PendingIn
  <1>5. CASE pgRes = Null
    <2>1. PICK p \in Pages : p = MostLost
      BY <1>1, MostLostIs
    <2>2. pc' = "erase" /\ job' = ErasingAt(job, p, "idle")
      BY <1>1, <1>5, <2>1 DEF ThenErase, Goto, ErasingAt
    <2>3. "idle" \in Returns
      BY DEF Returns
    <2>4. job'.er = p /\ job'.ret = "idle" /\ job'.op = job.op /\ job'.src = job.src
      BY <1>2, <2>2, <2>3, SetErase
    <2>5. \A x \in HotIds : hot'[x] = Null
      BY <1>1, <1>2, <1>5 DEF HotCold
    <2>6. PendingIn({job.er})'
      BY <1>4 DEF PendingIn
    <2>7. Stored(Off(job.er))'
      <3>1. (Off(job.er) \subseteq Live)'
        BY DEF Off
      <3> QED BY <1>4, <2>5, <3>1 DEF Stored, Alone, HotIn
    <2>8. Erase2'
      BY <2>4, <2>6, <2>7 DEF Erase2
    <2>9. FlashOK'
      BY <1>1, <1>3 DEF FlashOK, SameSets, SameIds, SameFlags, Paired, Alone, InUsed
    <2> QED BY <1>1, <2>2, <2>4, <2>8, <2>9 DEF Control2
  <1>6. CASE pgRes # Null
    <2>1. (pc = "idle")'
      BY <1>1, <1>6 DEF Return
    <2>2. HotIn(Live)'
      <3>1. ASSUME NEW x \in HotIds, hot[x] # Null PROVE hot[x] \in Live /\ Id(hot[x])' = x
        <4>1. PICK k : k = hot[x]
          OBVIOUS
        <4>2. k \in Live /\ Id(k) = x
          BY <1>2, <3>1, <4>1 DEF HotIn
        <4>3. Id(k)' = x
          BY <1>3, <4>2 DEF SameSets, SameIds
        <4>4. Id(hot[x])' = x
          BY <1>1, <4>1, <4>3 DEF Id
        <4> QED BY <4>1, <4>2, <4>4
      <3> QED BY <1>1, <1>3, <3>1 DEF HotIn, SameSets
    <2>3. Idle2'
      BY <1>4, <2>2 DEF Idle2, Stored
    <2> QED BY <2>1, <2>3, ToIdle, PTL
  <1> QED BY <1>5, <1>6

-----------------------------------------------------------------------------
(* Power is lost, and the first power-up.                                  *)

\* What an erase that was cut off leaves is in order for the recovery.
LEMMA HalfErasedSem ==
  ASSUME Inv, FlashOK, Control2, pc = "erase", flash' \in HalfErased(job.er)
  PROVE  FlashOK'
  <1>1. Shape /\ EraseOK /\ Erase2 /\ job.ret \in Returns
    BY JobFields DEF Inv, Shape, Control, Control2
  <1>2. PICK r \in Pages : r = job.er
    BY <1>1 DEF EraseOK
  <1>3. flash \in [Pages -> PageState] /\ OthersActive(r)
    BY <1>1, <1>2 DEF Shape, EraseOK
  <1>4. flash[r].active \in BOOLEAN /\ FALSE \in BOOLEAN
    BY <1>3, PageFields
  <1>5. PICK b \in BOOLEAN :
          /\ flash' = [flash EXCEPT ![r] = [flash[r] EXCEPT !.active = b, !.xfer = FALSE]]
          /\ b => flash[r].active
    <2>1. \/ flash' = [flash EXCEPT ![r].active = FALSE, ![r].xfer = FALSE]
          \/ flash' = [flash EXCEPT ![r].xfer = FALSE]
      BY <1>2 DEF HalfErased
    <2> QED BY <1>3, <1>4, <2>1, SetFlags
  <1>6. /\ SameSets /\ flash'[r].active = b /\ flash'[r].xfer = FALSE
        /\ \A q \in Pages \ {r} : flash'[q] = flash[q]
    BY <1>3, <1>4, <1>5, FlagsSets
  <1>7. ASSUME NEW q \in Pages
        PROVE  /\ flash'[q].xfer => q # r /\ flash[q].xfer
               /\ flash'[q].active => flash[q].active
               /\ ~flash'[q].active => q = r
    <2>1. CASE q = r
      BY <1>5, <1>6, <2>1
    <2>2. CASE q # r
      <3>1. flash'[q] = flash[q]
        BY <1>6, <2>2
      <3> QED BY <1>3, <2>2, <3>1 DEF OthersActive
    <2> QED BY <2>1, <2>2
  <1>8. (Old \subseteq Done)'
    BY <1>6 DEF FlashOK, SameSets
  <1>9. \A p, q \in Pages : flash'[p].xfer /\ flash'[q].xfer => p = q
    BY <1>7 DEF FlashOK
  <1>10. \A p \in Pages : flash'[p].xfer => flash'[p].active
    <2>1. ASSUME NEW p \in Pages, flash'[p].xfer PROVE flash'[p].active
      BY <1>7, <2>1
    <2> QED BY <2>1
  <1>11. \A p, q \in Pages : ~flash'[p].active /\ ~flash'[q].active => p = q
    BY <1>7
  <1>12. \A l \in Live : l[1] \in Pages
    BY <1>3, LiveSpots
  <1>13. InUsed' \subseteq InUsed
    BY <1>6, <1>7, <1>12 DEF InUsed, SameSets
  <1>14. Paired(InUsed \cap Done)'
    <2>1. \A l \in InUsed : l \in Live
      BY DEF InUsed
    <2> QED BY <1>6, <1>13, <2>1 DEF FlashOK, Paired, SameSets, SameIds
  <1>15. ASSUME NEW p \in Pages, flash'[p].xfer, NEW q \in Pages, ~flash'[q].active
         PROVE  InUsed' \subseteq Done' /\ Alone(InUsed)'
    <2>1. p # r /\ flash[p].xfer /\ q = r
      BY <1>7, <1>15
    <2>2. job.ret = "compact"
      BY <1>1, <1>2, <2>1 DEF Erase2, PendingIn, Returns
    <2>3. Off(r) \subseteq Done /\ Alone(Off(r)) /\ Off(r) \subseteq Live
      BY <1>1, <1>2, <2>2 DEF Erase2, Off
    <2>4. InUsed' \subseteq Off(r)
      BY <1>6, <1>15, <2>1 DEF InUsed, Off, SameSets
    <2> QED BY <1>6, <2>3, <2>4 DEF SameSets, SameIds, Alone
  <1> QED BY <1>8, <1>9, <1>10, <1>11, <1>14, <1>15 DEF FlashOK

LEMMA PowerLossSem ==
  ASSUME Inv, Inv', FlashOK, Control2, PowerLoss
  PROVE  FlashOK' /\ Control2'
  <1>1. flash \in [Pages -> PageState]
    BY DEF Inv, Shape
  <1>2. FlashOK'
    <2>1. CASE flash' = flash
      <3>1. SameSets /\ SameFlags
        BY <1>1, <2>1, SameFlash
      <3> QED BY <2>1, <3>1 DEF FlashOK, SameSets, SameIds, SameFlags, Paired, Alone, InUsed
    <2>2. CASE pc = "erase" /\ flash' \in HalfErased(job.er)
      BY <2>2, HalfErasedSem
    <2> QED BY <2>1, <2>2 DEF PowerLoss
  <1>3. /\ pgRes' = Null /\ \A x \in HotIds : hot'[x] = Null
        /\ pc' = "boot" /\ job' = [NoJob EXCEPT !.op = "boot"]
    BY DEF PowerLoss, ColdRam
  <1>4. job'.op = "boot" /\ job'.src = Null /\ job'.pg = Null /\ job'.ip = 1
    BY <1>3, BootJob
  <1>5. \A p \in Pages : ~(p < 1)
    BY DEF Pages
  <1>6. Boot2'
    BY <1>3, <1>4, <1>5 DEF Boot2, HotCold
  <1> QED BY <1>2, <1>3, <1>4, <1>6 DEF Control2

\* The memory as delivered holds nothing.
LEMMA InitSem ==
  ASSUME Init
  PROVE  FlashOK /\ Control2
  <1>1. /\ pgRes = Null /\ \A x \in HotIds : hot[x] = Null
        /\ pc = "boot" /\ job = [NoJob EXCEPT !.op = "boot"]
        /\ \A p \in Pages : flash[p] = ErasedPage
    BY DEF Init
  <1>2. job.op = "boot" /\ job.src = Null /\ job.pg = Null /\ job.ip = 1
    BY <1>1, BootJob
  <1>3. \A p \in Pages : ~(p < 1)
    BY DEF Pages
  <1>4. Boot2
    BY <1>1, <1>2, <1>3 DEF Boot2, HotCold
  <1>5. Live = {}
    <2>1. flash \in [Pages -> PageState]
      BY InitInv DEF Inv, Shape
    <2>2. \A p \in Pages : Len(Items(p)) = 0
      BY <1>1 DEF Items, ErasedPage
    <2> QED BY <2>1, <2>2, LiveSpots
  <1>6. \A p \in Pages : ~flash[p].xfer /\ ~flash[p].active
    BY <1>1 DEF ErasedPage
  <1>7. Old = {} /\ Done = {} /\ InUsed = {}
    BY <1>5 DEF Old, Done, InUsed
  <1>8. FlashOK
    BY <1>5, <1>6, <1>7 DEF FlashOK, Paired, Alone
  <1> QED BY <1>1, <1>2, <1>4, <1>8 DEF Control2

-----------------------------------------------------------------------------
(* What a read returns.                                                    *)

LEMMA StepSem ==
  ASSUME Inv, Inv', Sem, [Next]_vars
  PROVE  Sem'
  <1> SUFFICES ASSUME faults' = 0 PROVE FlashOK' /\ Control2'
    BY DEF Sem
  <1>1. faults = 0
    <2>1. faults \in Nat
      BY NvAssumption DEF Inv, Shape
    <2>2. faults' = faults \/ faults' = faults + 1
      BY DEF Next, vars, Call, Compact, Continue, Boot, ram, osal_nv_item_init, osal_nv_write,
         StartInitItem, Reopen, osal_nv_delete, ZeroAt, MarkPage, CompactItem, CopyHeader,
         WriteHeader, FlashWrite, CopyData, CopyChk, CompactDone, Header, MarkSource, Data,
         Checksum, UseReserve, Erase, ZeroOld, BootScan, BootSettle, ScanItem, ScanEnd,
         PickReserve, PowerLoss
    <2> QED BY <2>1, <2>2
  <1>2. FlashOK /\ Control2
    BY <1>1 DEF Sem
  <1>3. CASE Call
    BY <1>2, <1>3, CreateSem, WriteSem, ReopenSem, DeleteSem DEF Call
  <1>4. CASE Compact
    BY <1>2, <1>4, MarkPageSem, CompactItemSem, CopyHeaderSem, CopyDataSem, CopyChkSem,
       CompactDoneSem DEF Compact
  <1>5. CASE Continue
    BY <1>2, <1>5, HeaderSem, MarkSourceSem, DataSem, ChecksumSem, UseReserveSem, EraseSem,
       ZeroOldSem DEF Continue
  <1>6. CASE Boot
    BY <1>2, <1>6, BootScanSem, BootSettleSem, ScanItemSem, ScanEndSem, PickReserveSem DEF Boot
  <1>7. CASE PowerLoss
    BY <1>2, <1>7, PowerLossSem
  <1>8. CASE UNCHANGED vars
    <2>1. flash' = flash /\ pgRes' = pgRes /\ hot' = hot /\ pc' = pc /\ job' = job
      BY <1>8 DEF vars
    <2>2. FlashOK' = FlashOK
      BY <2>1 DEF FlashOK, Live, Done, Old, Id, Item, Places, InUsed, Paired, Alone
    <2>3. /\ Idle2' = Idle2 /\ Mark2' = Mark2 /\ Header2' = Header2 /\ Body2' = Body2
          /\ Use2' = Use2 /\ Zero2' = Zero2 /\ Pick2' = Pick2
      BY <2>1 DEF Idle2, Mark2, Header2, Body2, Use2, Zero2, Pick2, Live, Done, Old, Id, Item,
         Places, InUsed, Paired, Alone, Stored, HotIn, HotCold, PendingIn, Only, SourceDone,
         WriteState, Off, OnReserve, Moved, Last, InWriting, Items
    <2>4. Erase2' = Erase2 /\ Boot2' = Boot2 /\ Scan2' = Scan2
      BY <2>1 DEF Erase2, Boot2, Scan2, Live, Done, Old, Id, Item, Places, Paired, Alone,
         Stored, HotIn, HotCold, PendingIn, Off
    <2>5. Compact2' = Compact2 /\ CopyHdr2' = CopyHdr2 /\ CopyItem2' = CopyItem2
      BY <2>1 DEF Compact2, CopyHdr2, CopyItem2, CopyState, Live, Done, Old, Id, Item, Places,
         Alone, HotIn, PendingIn, Only, SourceDone, Off, OnReserve, Moved, Last, InWriting, Items
    <2> QED BY <1>2, <2>1, <2>2, <2>3, <2>4, <2>5 DEF Control2
  <1> QED BY <1>3, <1>4, <1>5, <1>6, <1>7, <1>8 DEF Next

\* Between calls, recovery would keep every copy there is.
LEMMA IdleKeeps ==
  ASSUME Inv, pc = "idle", Idle2, NEW id \in Ids, NEW st
  PROVE  Good(id, st) = Copies(id, st) /\ \A l \in Copies(id, st) : l \in Live /\ Id(l) = id
  <1>1. Shape /\ pgRes \in Pages /\ OthersActive(pgRes) /\ flash[pgRes] = ErasedPage
    BY DEF Inv, Control, IdleOK, Ready, InUse, Empty
  <1>2. FirstReserve = {pgRes}
    <2>1. \A q \in 1 .. (pgRes - 1) : q \in Pages \ {pgRes}
      BY <1>1, NvAssumption DEF Pages
    <2>2. ~flash[pgRes].active /\ \A q \in 1 .. (pgRes - 1) : flash[q].active
      BY <1>1, <2>1 DEF ErasedPage, OthersActive
    <2> QED BY <1>1, <2>2 DEF FirstReserve, OthersActive
  <1>3. Doomed = {pgRes}
    BY <1>2 DEF Doomed
  <1>4. ASSUME NEW l \in Copies(id, st)
        PROVE  l \in Live /\ Id(l) = id /\ l[1] # pgRes /\ Item(l[1], l[2]).chk
    <2>1. l \in Live /\ Id(l) = id
      BY NvAssumption DEF Copies, Live, Id
    <2>2. l[2] \in 1 .. Len(Items(l[1]))
      BY <1>1, <2>1, LiveSpots DEF Shape
    <2>3. l[1] # pgRes
      BY <1>1, <2>2 DEF Items, ErasedPage
    <2>4. l \in Done
      BY <2>1 DEF Idle2, Stored
    <2> QED BY <2>1, <2>3, <2>4 DEF Done
  <1> QED BY <1>3, <1>4 DEF Good

LEMMA IdleReads == Inv /\ Sem => ReadsStoredUntilFault
  <1> SUFFICES ASSUME Inv, Sem, faults = 0, pc = "idle", NEW id \in Ids,
                      id \in HotIds => hot[id] # Null
               PROVE  osal_nv_read(id) = Survivor(id)
    BY DEF ReadsStoredUntilFault, ReadsStored
  <1>1. Shape /\ Idle2 /\ flash \in [Pages -> PageState]
    BY DEF Inv, Shape, Sem, Control2
  <1>2. PICK new, old : new = Copies(id, "new") /\ old = Copies(id, "xfer")
    OBVIOUS
  <1>3. /\ Good(id, "new") = new /\ Good(id, "xfer") = old
        /\ \A l \in new \cup old : l \in Live /\ Id(l) = id
    BY <1>1, <1>2, IdleKeeps
  <1>4. Survivor(id) = IF new # {} THEN ReadFrom(FirstOf(new))
                       ELSE IF old # {} THEN ReadFrom(FirstOf(old)) ELSE Null
    BY <1>3 DEF Survivor
  <1>5. CASE id \notin HotIds
    <2>1. ReadFrom(Null) = Null
      <3>1. Null \notin Spots
        BY NvAssumption DEF Spots
      <3>2. Null \notin Places
        BY <1>1, <3>1, PlaceIs
      <3> QED BY <3>2 DEF ReadFrom
    <2>2. findItem(id) = IF new # {} THEN FirstOf(new) ELSE IF old # {} THEN FirstOf(old) ELSE Null
      BY <1>2 DEF findItem
    <2> QED BY <1>4, <1>5, <2>1, <2>2 DEF osal_nv_read
  <1>6. CASE id \in HotIds
    <2>1. PICK m : m = hot[id]
      OBVIOUS
    <2>2. m \in Live /\ Id(m) = id
      BY <1>1, <1>6, <2>1 DEF Idle2, Stored, HotIn
    <2>3. \A l \in new \cup old : l = m
      BY <1>1, <1>3, <2>2 DEF Idle2, Stored, Alone
    <2>4. m \in new \cup old
      <3>1. m \in Places /\ Item(m[1], m[2]).id = id
        BY <2>2 DEF Live, Id
      <3>2. Item(m[1], m[2]).stat \in {"new", "xfer"}
        <4>1. m[1] \in Pages /\ m[2] \in 1 .. Len(Items(m[1])) /\ Items(m[1]) \in Seq(ItemState)
          BY <1>1, <3>1, PlacesAre, PageFields
        <4> QED BY <4>1, ItemFields DEF Item, Items
      <3> QED BY <1>2, <3>1, <3>2 DEF Copies
    <2>5. ASSUME NEW Q, Q \in {new, old}, Q # {} PROVE FirstOf(Q) = m
      <3>1. Q \subseteq Pages \X (Nat \ {0})
        BY <1>1, <1>3, <2>5, LiveSpots DEF Spots
      <3> QED BY <2>3, <2>5, <3>1, FirstIn
    <2>6. osal_nv_read(id) = ReadFrom(m)
      BY <1>6, <2>1 DEF osal_nv_read
    <2>7. Survivor(id) = ReadFrom(m)
      BY <1>4, <2>4, <2>5
    <2> QED BY <2>6, <2>7
  <1> QED BY <1>5, <1>6

\* Until a flash write fails, a read between calls returns what a reset would bring back: a
\* cached place (hotPg, hotOff) never goes stale, findItem never meets an incomplete or a
\* second copy, and the copies of a compaction cut off at any point end up as one, whatever
\* calls are made and wherever power is lost, for any number of pages, items and sizes.
THEOREM ReadsAreStored == Spec => []ReadsStoredUntilFault
  <1>1. Init => Inv /\ Sem
    BY InitInv, InitSem DEF Sem
  <1>2. Inv /\ Sem /\ [Next]_vars => (Inv /\ Sem)'
    BY StepInv, StepSem
  <1>3. Inv /\ Sem => ReadsStoredUntilFault
    BY IdleReads
  <1> QED BY <1>1, <1>2, <1>3, PTL DEF Spec

=============================================================================
