-------------------------- MODULE UserEvents_proofs --------------------------
(***************************************************************************)
(* Proofs about UserEvents, for any number of blocks that is enough and    *)
(* any choice of boards: the list, the map and the heap of the events      *)
(* always agree and no periodic event dies, and on an end device           *)
(* process_event always comes back.                                        *)
(***************************************************************************)
EXTENDS UserEvents, SequenceTheorems, WellFoundedInduction, TLAPS

Status == {"boot", "ok", "wild", "stuck"}

Memory == [list : Seq(Block), map : [Event -> Block \cup {NULL}], heap : SUBSET Block,
           block : [Block -> ssaUserEvent_t], timers : SUBSET Event,
           raised : SUBSET Event, status : Status]

AppState == [role : Roles, isPermitJoining : BOOLEAN, isFirstState : BOOLEAN,
             isBee : BOOLEAN, bee : BOOLEAN]

LONGEST == 30000          \* ms: HeartBeat, Permit

\* The list holds the allocated blocks, each once; an event has one block, the map
\* points to it or nowhere; and what is to fire again is going to, but for the blocks of X.
\* Nothing takes longer than the heart beat, so that the walk for it meets every entry.
Once(list) == \A i, j \in 1 .. Len(list) : list[i] = list[j] => i = j

Good(u, X) ==
  /\ u \in Memory
  /\ Once(u.list) /\ Listed(u) = u.heap
  /\ \A b, c \in u.heap : u.block[b].event = u.block[c].event => b = c
  /\ \A ev \in Event : u.map[ev] # NULL =>
       u.map[ev] \in u.heap /\ u.block[u.map[ev]].event = ev
  /\ \A b \in u.heap \ X : u.block[b].count > 0 => u.block[b].event \in u.timers \cup u.raised
  /\ \A b \in u.heap : u.block[b].duration <= LONGEST

\* On an end device what is to be raised or served has an entry that process_event stops
\* at: every event but the counter's is resident, and the counter's has one timer or one
\* flag until it fires.
Counter == "POWERSETTING_COUNT_EVT"

Lasting(u) ==
  /\ \A ev \in u.timers \cup u.raised :
       \E b \in u.heap : u.block[b].event = ev /\ Alive(u.block[b])
  /\ \A b \in u.heap : u.block[b].resident \/ u.block[b].event = Counter
  /\ Counter \notin u.timers \cap u.raised

EndDevice ==
  app.role = "enddevice" =>
    /\ Lasting(ue) /\ ue.status \in {"boot", "ok"}
    /\ app.isFirstState => ue.heap = {} /\ ue.timers = {} /\ ue.raised = {}

IInv == Good(ue, {}) /\ app \in AppState /\ EndDevice

-----------------------------------------------------------------------------
(* The least of a set, and a list with a block less or more.               *)

Elems(s) == {s[i] : i \in 1 .. Len(s)}

LessNat == {ss \in Nat \X Nat : ss[1] < ss[2]}

LEMMA LeastIs ==
  ASSUME NEW S, S \subseteq Nat, S # {}
  PROVE  Least(S) \in S /\ \A j \in S : Least(S) <= j
  <1>1. IsWellFoundedOn(LessNat, Nat)
    BY NatLessThanWellFounded DEF OpToRel, LessNat
  <1>2. PICK m \in S : \A k \in S : ~(<<k, m>> \in LessNat)
    BY <1>1, WFMin
  <1>3. ASSUME NEW k \in S PROVE m <= k
    <2>1. k \in Nat /\ m \in Nat
      OBVIOUS
    <2>2. k < m => <<k, m>> \in LessNat
      BY <2>1 DEF LessNat
    <2> QED BY <1>2, <2>1, <2>2
  <1> QED BY <1>3 DEF Least

LEMMA SetInduction ==
  ASSUME NEW S, 0 \in S, \A n \in Nat : n \in S => n + 1 \in S
  PROVE  Nat \subseteq S
  <1>1. SUFFICES ASSUME Nat \ S # {} PROVE FALSE
    OBVIOUS
  <1> DEFINE m == Least(Nat \ S)
  <1>2. m \in Nat \ S /\ \A j \in Nat \ S : m <= j
    BY <1>1, LeastIs
  <1> HIDE DEF m
  <1>3. m - 1 \in Nat /\ m - 1 \in S /\ (m - 1) + 1 = m
    BY <1>2
  <1> QED BY <1>2, <1>3

LEMMA OneMore ==
  ASSUME NEW S, NEW s \in Seq(S), NEW x \in S
  PROVE  /\ Append(s, x) \in Seq(S) /\ Elems(Append(s, x)) = Elems(s) \cup {x}
         /\ Once(s) /\ x \notin Elems(s) => Once(Append(s, x))
  <1> DEFINE t == Append(s, x)
  <1>1. /\ t \in Seq(S) /\ Len(t) = Len(s) + 1 /\ t[Len(s) + 1] = x /\ Len(s) \in Nat
        /\ \A i \in 1 .. Len(s) : t[i] = s[i]
    OBVIOUS
  <1> HIDE DEF t
  <1>2. Elems(t) = Elems(s) \cup {x}
    BY <1>1 DEF Elems
  <1>3. Once(s) /\ x \notin Elems(s) => Once(t)
    BY <1>1 DEF Elems, Once
  <1> QED BY <1>1, <1>2, <1>3 DEF t

\* What is left of a list has each block once, and no other.
LEMMA WithoutIs ==
  ASSUME NEW S, NEW list \in Seq(S), Once(list), NEW D
  PROVE  /\ Without(list, D) \in Seq(S) /\ Once(Without(list, D))
         /\ Elems(Without(list, D)) = Elems(list) \ D
  <1> DEFINE L == Len(list)
             Eq(M, f) == f = [n \in 0 .. M |->
                           IF n = 0 THEN <<>>
                           ELSE IF list[n] \in D THEN f[n - 1] ELSE Append(f[n - 1], list[n])]
             F == CHOOSE f : Eq(L, f)
  <1>1. L \in Nat /\ \A i \in 1 .. L : list[i] \in S
    OBVIOUS
  <1>2. Without(list, D) = F[L]
    BY Zenon DEF Without
  <1> DEFINE N == {M \in Nat : \E f : Eq(M, f)}
  <1>3. 0 \in N
    <2>1. Eq(0, [n \in 0 .. 0 |-> <<>>])
      OBVIOUS
    <2> HIDE DEF Eq
    <2> QED BY <2>1
  <1>4. ASSUME NEW M \in Nat, M \in N
        PROVE  M + 1 \in N
    <2>1. PICK f : Eq(M, f)
      BY <1>4
    <2> DEFINE x == IF list[M + 1] \in D THEN f[M] ELSE Append(f[M], list[M + 1])
               g == [n \in 0 .. M + 1 |-> IF n <= M THEN f[n] ELSE x]
    <2>2. \A n \in 0 .. M + 1 :
            g[n] = IF n = 0 THEN <<>>
                   ELSE IF list[n] \in D THEN g[n - 1] ELSE Append(g[n - 1], list[n])
      <3>1. TAKE n \in 0 .. M + 1
      <3>2. CASE n = 0
        BY <2>1, <3>2
      <3>3. CASE n # 0 /\ n <= M
        <4>1. n \in 0 .. M /\ n - 1 \in 0 .. M + 1 /\ n - 1 <= M
          BY <3>3
        <4>2. f[n] = IF list[n] \in D THEN f[n - 1] ELSE Append(f[n - 1], list[n])
          BY <2>1, <3>3, <4>1
        <4>3. g[n] = f[n] /\ g[n - 1] = f[n - 1]
          BY <3>3, <4>1
        <4> QED BY <3>3, <4>2, <4>3
      <3>4. CASE n = M + 1
        <4>1. g[n] = x /\ g[n - 1] = f[M] /\ n # 0
          BY <3>4
        <4> QED BY <3>4, <4>1
      <3> QED BY <3>2, <3>3, <3>4
    <2>3. Eq(M + 1, g)
      BY <2>2
    <2>4. M + 1 \in Nat
      OBVIOUS
    <2> HIDE DEF Eq, g
    <2> QED BY <2>3, <2>4
  <1>5. L \in N
    <2> HIDE DEF N
    <2> QED BY <1>1, <1>3, <1>4, SetInduction
  <1>6. Eq(L, F)
    <2>1. \E f : Eq(L, f)
      BY <1>5
    <2> HIDE DEF Eq
    <2> QED BY <2>1
  <1> HIDE DEF F, N
  <1>7. F[0] = <<>>
    BY <1>1, <1>6
  <1>8. ASSUME NEW n \in 1 .. L
        PROVE  F[n] = IF list[n] \in D THEN F[n - 1] ELSE Append(F[n - 1], list[n])
    <2>1. n \in 0 .. L /\ n # 0
      BY <1>1
    <2> HIDE DEF L
    <2> QED BY <1>6, <2>1
  <1> HIDE DEF Eq
  <1> DEFINE Upto(n) == {list[i] : i \in 1 .. n} \ D
             K == {n \in Nat : n <= L =>
                     F[n] \in Seq(S) /\ Once(F[n]) /\ Elems(F[n]) = Upto(n)}
  <1>9. 0 \in K
    <2>1. Len(<<>>) = 0 /\ 1 .. 0 = {} /\ <<>> \in Seq(S)
      OBVIOUS
    <2>2. Upto(0) = {} /\ Elems(<<>>) = {} /\ Once(<<>>)
      BY <2>1 DEF Once, Elems
    <2> HIDE DEF Upto
    <2> QED BY <1>7, <2>1, <2>2
  <1>10. ASSUME NEW n \in Nat, n \in K
         PROVE  n + 1 \in K
    <2> SUFFICES ASSUME n + 1 <= L
                 PROVE  /\ F[n + 1] \in Seq(S) /\ Once(F[n + 1])
                        /\ Elems(F[n + 1]) = Upto(n + 1)
      OBVIOUS
    <2> DEFINE x == list[n + 1]
    <2>1. /\ F[n] \in Seq(S) /\ Once(F[n]) /\ Elems(F[n]) = Upto(n)
          /\ n + 1 \in 1 .. L /\ (n + 1) - 1 = n /\ x \in S
      BY <1>1, <1>10
    <2>2. F[n + 1] = IF x \in D THEN F[n] ELSE Append(F[n], x)
      BY <1>8, <2>1
    <2>3. {list[i] : i \in 1 .. n + 1} = {list[i] : i \in 1 .. n} \cup {x}
      OBVIOUS
    <2>4. x \notin {list[i] : i \in 1 .. n}
      BY <2>1 DEF Once
    <2> HIDE DEF x
    <2>5. CASE x \in D
      BY <2>1, <2>2, <2>3, <2>5
    <2>6. CASE x \notin D
      <3>1. x \notin Elems(F[n])
        BY <2>1, <2>4
      <3>2. /\ F[n + 1] \in Seq(S) /\ Once(F[n + 1])
            /\ Elems(F[n + 1]) = Elems(F[n]) \cup {x}
        BY <2>1, <2>2, <2>6, <3>1, OneMore
      <3> QED BY <2>1, <2>3, <2>6, <3>2
    <2> QED BY <2>5, <2>6
  <1>11. Nat \subseteq K
    <2> HIDE DEF K
    <2> QED BY <1>9, <1>10, SetInduction
  <1>12. /\ F[L] \in Seq(S) /\ Once(F[L]) /\ Elems(F[L]) = Upto(L)
    <2>1. L \in K
      BY <1>1, <1>11
    <2>2. L <= L
      BY <1>1
    <2> HIDE DEF L, Upto
    <2> QED BY <2>1, <2>2
  <1> QED BY <1>2, <1>12 DEF Elems

\* A block put in at p.
LEMMA PutIn ==
  ASSUME NEW S, NEW list \in Seq(S), NEW b \in S, b \notin Elems(list), Once(list),
         NEW p \in 1 .. Len(list) + 1
  PROVE  LET t == SubSeq(list, 1, p - 1) \o <<b>> \o SubSeq(list, p, Len(list))
         IN  t \in Seq(S) /\ Once(t) /\ Elems(t) = Elems(list) \cup {b}
  <1> DEFINE L == Len(list)
             l == SubSeq(list, 1, p - 1)
             r == SubSeq(list, p, L)
             o == <<b>>
             t == l \o o \o r
  <1>1. L \in Nat /\ p - 1 \in 0 .. L /\ p \in Nat
    OBVIOUS
  <1>2. l \in Seq(S) /\ Len(l) = p - 1 /\ \A i \in 1 .. p - 1 : l[i] = list[i]
    OBVIOUS
  <1>3. r \in Seq(S) /\ Len(r) = L - p + 1 /\ \A i \in 1 .. L - p + 1 : r[i] = list[p + i - 1]
    OBVIOUS
  <1>4. o \in Seq(S) /\ Len(o) = 1 /\ o[1] = b
    OBVIOUS
  <1>5. t = (l \o o) \o r
    OBVIOUS
  <1>6. Once(list) /\ \A i \in 1 .. L : list[i] # b
    BY DEF Elems
  <1>7. Elems(list) = {list[i] : i \in 1 .. L}
    BY DEF Elems
  <1>8. \A i, j \in 1 .. L : list[i] = list[j] => i = j
    BY DEF Once
  <1> HIDE DEF l, r, o, L
  <1> DEFINE q == l \o o
  <1>10. /\ q \in Seq(S) /\ Len(q) = p
        /\ \A i \in 1 .. p : q[i] = IF i <= p - 1 THEN list[i] ELSE b
    <2>1. /\ q \in Seq(S) /\ Len(q) = Len(l) + Len(o)
          /\ \A i \in 1 .. Len(l) + Len(o) :
               q[i] = IF i <= Len(l) THEN l[i] ELSE o[i - Len(l)]
      BY <1>2, <1>4, ConcatProperties, Zenon
    <2> HIDE DEF q
    <2> QED BY <1>1, <1>2, <1>4, <2>1
  <1>11. t = q \o r
    BY <1>5
  <1> HIDE DEF q, t
  <1>12. /\ t \in Seq(S) /\ Len(t) = L + 1
        /\ \A i \in 1 .. L + 1 :
             t[i] = IF i <= p - 1 THEN list[i] ELSE IF i = p THEN b ELSE list[i - 1]
    <2> DEFINE w == q \o r
    <2>1. /\ w \in Seq(S) /\ Len(w) = Len(q) + Len(r)
          /\ \A i \in 1 .. Len(q) + Len(r) :
               w[i] = IF i <= Len(q) THEN q[i] ELSE r[i - Len(q)]
      BY <1>3, <1>10, ConcatProperties, Zenon
    <2>2. t = w
      BY <1>11
    <2> HIDE DEF w
    <2>3. /\ t \in Seq(S) /\ Len(t) = Len(q) + Len(r)
          /\ \A i \in 1 .. Len(q) + Len(r) :
               t[i] = IF i <= Len(q) THEN q[i] ELSE r[i - Len(q)]
      BY <2>1, <2>2
    <2>4. Len(t) = L + 1
      BY <1>1, <1>3, <1>10, <2>3
    <2>5. ASSUME NEW i \in 1 .. L + 1
          PROVE  t[i] = IF i <= p - 1 THEN list[i] ELSE IF i = p THEN b ELSE list[i - 1]
      <3>1. t[i] = IF i <= p THEN q[i] ELSE r[i - p]
        BY <1>1, <1>3, <1>10, <2>3
      <3>2. CASE i <= p
        BY <1>1, <1>10, <3>1, <3>2
      <3>3. CASE i > p
        <4>1. i - p \in 1 .. L - p + 1 /\ p + (i - p) - 1 = i - 1
          BY <1>1, <3>3
        <4> QED BY <1>1, <1>3, <3>1, <3>3, <4>1
      <3> QED BY <1>1, <3>2, <3>3
    <2> QED BY <2>3, <2>4, <2>5
  <1>13. \A i \in 1 .. L : list[i] # b
    BY <1>6
  <1>14. Once(t)
    <2> SUFFICES ASSUME NEW i \in 1 .. L + 1, NEW j \in 1 .. L + 1, t[i] = t[j], i < j
                 PROVE  FALSE
      BY <1>1, <1>12 DEF Once
    <2>1. CASE i = p \/ j = p
      BY <1>1, <1>12, <1>13, <2>1
    <2>2. CASE i # p /\ j # p
      <3> DEFINE x == IF i <= p - 1 THEN i ELSE i - 1
                 y == IF j <= p - 1 THEN j ELSE j - 1
      <3>1. x \in 1 .. L /\ y \in 1 .. L /\ x # y
        BY <1>1, <2>2
      <3>2. t[i] = list[x] /\ t[j] = list[y]
        BY <1>1, <1>12, <2>2
      <3> QED BY <1>8, <3>1, <3>2
    <2> QED BY <2>1, <2>2
  <1>15. Elems(t) = Elems(list) \cup {b}
    <2>1. Elems(t) \subseteq Elems(list) \cup {b}
      <3> SUFFICES ASSUME NEW i \in 1 .. L + 1 PROVE t[i] \in Elems(list) \cup {b}
        BY <1>12 DEF Elems
      <3>1. CASE i <= p - 1
        BY <1>1, <1>12, <1>7, <3>1
      <3>2. CASE i > p - 1 /\ i # p
        <4>1. i - 1 \in 1 .. L /\ t[i] = list[i - 1]
          BY <1>1, <1>12, <3>2
        <4> QED BY <1>7, <4>1
      <3>3. CASE i = p
        BY <1>1, <1>12, <3>3
      <3> QED BY <1>1, <3>1, <3>2, <3>3
    <2>2. b \in Elems(t)
      <3>1. p \in 1 .. L + 1 /\ t[p] = b
        BY <1>1, <1>12
      <3> QED BY <1>12, <3>1 DEF Elems
    <2>3. ASSUME NEW i \in 1 .. L PROVE list[i] \in Elems(t)
      <3>1. CASE i <= p - 1
        <4>1. i \in 1 .. L + 1 /\ t[i] = list[i]
          BY <1>1, <1>12, <3>1
        <4> QED BY <1>12, <4>1 DEF Elems
      <3>2. CASE i > p - 1
        <4>1. i + 1 \in 1 .. L + 1 /\ t[i + 1] = list[i]
          BY <1>1, <1>12, <3>2
        <4> QED BY <1>12, <4>1 DEF Elems
      <3> QED BY <1>1, <3>1, <3>2
    <2> QED BY <1>7, <2>1, <2>2, <2>3
  <1> QED BY <1>12, <1>14, <1>15 DEF t, l, r, o, L

-----------------------------------------------------------------------------
(* Starting, adding, deleting: what a function of the memory leaves.       *)

LEMMA EventOf ==
  ASSUME NEW e \in ssaUserEvent_t
  PROVE  /\ e.event \in Event /\ e.duration \in Nat /\ e.count \in 0 .. 127
         /\ e.resident \in BOOLEAN
  <1>1. /\ e.event \in Event /\ e.duration \in 0 .. MAX_UINT16
        /\ e.count \in 0 .. TIMER_LOOP_EXECUTION /\ e.resident \in BOOLEAN
    BY DEF ssaUserEvent_t
  <1>2. \A n : /\ n \in 0 .. MAX_UINT16 => n \in Nat
              /\ n \in 0 .. TIMER_LOOP_EXECUTION => n \in 0 .. 127
    BY DEF TIMER_LOOP_EXECUTION, MAX_UINT16
  <1>3. e.duration \in Nat
    BY <1>1, <1>2
  <1>4. e.count \in 0 .. 127
    BY <1>1, <1>2
  <1> QED BY <1>1, <1>3, <1>4

\* The fields of a record of memory.
LEMMA Fields ==
  ASSUME NEW u \in Memory
  PROVE  /\ u.list \in Seq(Block) /\ u.map \in [Event -> Block \cup {NULL}]
         /\ u.heap \subseteq Block /\ u.block \in [Block -> ssaUserEvent_t]
         /\ u.timers \subseteq Event /\ u.raised \subseteq Event /\ u.status \in Status
         /\ Listed(u) = Elems(u.list) /\ Len(u.list) \in Nat
         /\ \A i \in 1 .. Len(u.list) : u.list[i] \in Block
  <1>1. /\ u.list \in Seq(Block) /\ u.map \in [Event -> Block \cup {NULL}]
        /\ u.heap \subseteq Block /\ u.block \in [Block -> ssaUserEvent_t]
        /\ u.timers \subseteq Event /\ u.raised \subseteq Event /\ u.status \in Status
    BY DEF Memory
  <1> DEFINE s == u.list
  <1>2. s \in Seq(Block)
    BY <1>1
  <1> HIDE DEF s
  <1>3. Len(s) \in Nat /\ \A i \in 1 .. Len(s) : s[i] \in Block
    BY <1>2
  <1>4. Listed(u) = Elems(s)
    BY Zenon DEF Listed, Elems, s
  <1> QED BY <1>1, <1>3, <1>4 DEF s

\* The event of block b is started, or counts no further.
Started(u, v, b) ==
  LET ev == u.block[b].event
  IN  /\ v \in Memory /\ v.list = u.list /\ v.map = u.map /\ v.heap = u.heap
      /\ v.block = u.block /\ v.status = u.status
      /\ u.timers \subseteq v.timers /\ v.timers \subseteq u.timers \cup {ev}
      /\ u.raised \subseteq v.raised /\ v.raised \subseteq u.raised \cup {ev}
      /\ v.timers = u.timers \/ v.raised = u.raised
      /\ u.block[b].count > 0 => ev \in v.timers \cup v.raised
      /\ u.block[b].count = 0 => v.timers = u.timers /\ v.raised = u.raised
      /\ u.block[b].duration > TIMER_LOWER_LIMIT => v.raised = u.raised

LEMMA StartedIs ==
  ASSUME NEW u \in Memory, NEW b \in Block
  PROVE  Started(u, set_app_event(u, b), b)
  <1> DEFINE e == u.block[b]
             T == [u EXCEPT !.timers = @ \cup {e.event}]
             R == [u EXCEPT !.raised = @ \cup {e.event}]
  <1>1. e \in ssaUserEvent_t
    BY Fields
  <1>2. e.event \in Event /\ e.duration \in Nat /\ e.count \in 0 .. 127
    BY <1>1, EventOf
  <1>3. /\ T \in Memory /\ T.list = u.list /\ T.map = u.map /\ T.heap = u.heap
        /\ T.block = u.block /\ T.status = u.status /\ T.raised = u.raised
        /\ T.timers = u.timers \cup {e.event}
    BY <1>2 DEF Memory
  <1>4. /\ R \in Memory /\ R.list = u.list /\ R.map = u.map /\ R.heap = u.heap
        /\ R.block = u.block /\ R.status = u.status /\ R.timers = u.timers
        /\ R.raised = u.raised \cup {e.event}
    BY <1>2 DEF Memory
  <1>5. set_app_event(u, b) = IF e.count = 0 THEN u
                              ELSE IF e.duration > TIMER_LOWER_LIMIT THEN T ELSE R
    BY <1>2 DEF set_app_event
  <1> DEFINE v == set_app_event(u, b)
  <1>6. CASE e.count = 0
    BY <1>2, <1>5, <1>6 DEF Started
  <1>7. CASE e.count # 0 /\ e.duration > TIMER_LOWER_LIMIT
    <2>1. v = T
      BY <1>5, <1>7
    <2> HIDE DEF T, v
    <2> QED BY <1>3, <1>7, <2>1 DEF Started, v
  <1>8. CASE e.count # 0 /\ ~(e.duration > TIMER_LOWER_LIMIT)
    <2>1. v = R
      BY <1>5, <1>8
    <2> HIDE DEF R, v
    <2> QED BY <1>4, <1>8, <2>1 DEF Started, v
  <1> QED BY <1>6, <1>7, <1>8

\* There is a block for an event that has none.
LEMMA FreshIs ==
  ASSUME NEW u, NEW X, Good(u, X), NEW ev \in Event,
         \A b \in u.heap : u.block[b].event # ev
  PROVE  Fresh(u) \in Block \ u.heap
  <1>1. u \in Memory /\ \A b, c \in u.heap : u.block[b].event = u.block[c].event => b = c
    BY DEF Good
  <1>2. PICK own \in [Event -> Block] : \A e, f \in Event : own[e] = own[f] => e = f
    BY EnoughBlocks
  <1>3. Block \ u.heap # {}
    <2> SUFFICES ASSUME Block \subseteq u.heap PROVE FALSE
      OBVIOUS
    <2> DEFINE h == [e \in Event |-> u.block[own[e]].event]
    <2>1. \A e \in Event : own[e] \in u.heap /\ u.block[own[e]] \in ssaUserEvent_t
      BY <1>1, <1>2, Fields
    <2>2. \A e \in Event : h[e] \in Event \ {ev}
      BY <2>1, EventOf
    <2>3. \A e, f \in Event : h[e] = h[f] => e = f
      BY <1>1, <1>2, <2>1
    <2> HIDE DEF h
    <2> QED BY <2>2, <2>3 DEF Event
  <1>4. Block \ u.heap \subseteq Nat
    BY ParametersAssumption
  <1> QED BY <1>3, <1>4, LeastIs DEF Fresh

\* The event e is the one of a new or of its old block.
Entered(u, v, e) ==
  \E b \in Block :
    /\ v.heap = u.heap \cup {b} /\ v.block = [u.block EXCEPT ![b] = e]
    /\ b \in u.heap => u.block[b].event = e.event
    /\ v.list # <<>>
    /\ u.timers \subseteq v.timers /\ v.timers \subseteq u.timers \cup {e.event}
    /\ u.raised \subseteq v.raised /\ v.raised \subseteq u.raised \cup {e.event}
    /\ e.duration > TIMER_LOWER_LIMIT => v.raised = u.raised
    /\ v.status = u.status

\* A record with a changed list.
LEMMA Changed ==
  ASSUME NEW a \in Memory, NEW l \in Seq(Block), NEW hp \in SUBSET Block,
         NEW bl \in [Block -> ssaUserEvent_t], NEW mp \in [Event -> Block \cup {NULL}]
  PROVE  [a EXCEPT !.list = l, !.block = bl, !.heap = hp, !.map = mp] \in Memory
  BY DEF Memory

LEMMA PlaceIs ==
  ASSUME NEW u \in Memory, NEW d
  PROVE  Place(u, d) \in 1 .. Len(u.list) + 1
  <1> DEFINE S == {i \in 1 .. Len(u.list) : d < Entry(u, i).duration} \cup {Len(u.list) + 1}
  <1>1. Len(u.list) \in Nat
    BY Fields
  <1>2. S \subseteq 1 .. Len(u.list) + 1 /\ S # {} /\ S \subseteq Nat
    BY <1>1
  <1>3. Place(u, d) = Least(S)
    BY DEF Place
  <1> HIDE DEF S
  <1> QED BY <1>2, <1>3, LeastIs

\* A new event.
LEMMA SetKeeps ==
  ASSUME NEW u, NEW X, Good(u, X), NEW e \in ssaUserEvent_t, e.duration <= LONGEST,
         \A b \in u.heap : u.block[b].event # e.event
  PROVE  Good(set_user_event(u, e), X) /\ Entered(u, set_user_event(u, e), e)
  <1> DEFINE b == Fresh(u)
             p == Place(u, e.duration)
             t == SubSeq(u.list, 1, p - 1) \o <<b>> \o SubSeq(u.list, p, Len(u.list))
             w == Add_User_Event(u, b, e)
             v == set_app_event(w, b)
             L == Len(u.list)
  <1>1. /\ u \in Memory /\ Once(u.list) /\ Listed(u) = u.heap
        /\ \A c, d \in u.heap : u.block[c].event = u.block[d].event => c = d
        /\ \A ev \in Event : u.map[ev] # NULL =>
             u.map[ev] \in u.heap /\ u.block[u.map[ev]].event = ev
        /\ \A c \in u.heap \ X : u.block[c].count > 0 => u.block[c].event \in u.timers \cup u.raised
        /\ \A c \in u.heap : u.block[c].duration <= LONGEST
    BY DEF Good
  <1>2. /\ u.list \in Seq(Block) /\ u.map \in [Event -> Block \cup {NULL}]
        /\ u.heap \subseteq Block /\ u.block \in [Block -> ssaUserEvent_t]
        /\ Elems(u.list) = u.heap /\ L \in Nat
    BY <1>1, Fields
  <1>3. e.event \in Event /\ e.duration \in Nat /\ e.count \in 0 .. 127
    BY EventOf
  <1>4. b \in Block \ u.heap
    BY <1>3, FreshIs
  <1>5. p \in 1 .. L + 1
    BY <1>1, PlaceIs
  <1>6. set_user_event(u, e) = v
    <2>1. ~Refused(u, e)
      <3>1. \A i \in 1 .. L : u.list[i] \in u.heap
        BY <1>2 DEF Elems
      <3> QED BY <3>1 DEF Refused, Entry
    <2> QED BY <2>1 DEF set_user_event
  <1>7. t \in Seq(Block) /\ Once(t) /\ Elems(t) = u.heap \cup {b}
    BY <1>1, <1>2, <1>4, <1>5, PutIn
  <1> HIDE DEF t, p, b
  <1> DEFINE m == IF p = 1 \/ p <= L THEN [u.map EXCEPT ![e.event] = b] ELSE u.map
             k == [u.block EXCEPT ![b] = e]
  <1>8. w = [u EXCEPT !.list = t, !.block = k, !.heap = @ \cup {b}, !.map = m]
    BY DEF Add_User_Event, t, p
  <1>9. /\ m \in [Event -> Block \cup {NULL}] /\ k \in [Block -> ssaUserEvent_t]
        /\ \A ev \in Event : m[ev] = u.map[ev] \/ (ev = e.event /\ m[ev] = b)
        /\ k[b] = e /\ \A c \in Block \ {b} : k[c] = u.block[c]
    BY <1>2, <1>3, <1>4
  <1> HIDE DEF m, w, k, v, L
  <1>10. /\ w \in Memory /\ w.list = t /\ w.block = k /\ w.heap = u.heap \cup {b}
         /\ w.map = m /\ w.timers = u.timers /\ w.raised = u.raised /\ w.status = u.status
    <2> DEFINE h == u.heap \cup {b}
               r == [u EXCEPT !.list = t, !.block = k, !.heap = h, !.map = m]
    <2>1. /\ u \in Memory /\ t \in Seq(Block) /\ k \in [Block -> ssaUserEvent_t]
          /\ m \in [Event -> Block \cup {NULL}] /\ h \in SUBSET Block
      BY <1>1, <1>2, <1>4, <1>7, <1>9
    <2>2. w = r
      BY <1>8
    <2> HIDE DEF h
    <2>3. /\ r.list = t /\ r.block = k /\ r.heap = h /\ r.map = m
          /\ r.timers = u.timers /\ r.raised = u.raised /\ r.status = u.status
      BY <2>1 DEF Memory
    <2>4. r \in Memory
      BY <2>1, Changed, Zenon
    <2> HIDE DEF r
    <2> QED BY <2>2, <2>3, <2>4 DEF h
  <1>11. Started(w, v, b)
    BY <1>4, <1>10, StartedIs DEF v
  <1>12. /\ v \in Memory /\ v.list = t /\ v.block = k /\ v.heap = u.heap \cup {b} /\ v.map = m
         /\ v.status = u.status
         /\ u.timers \subseteq v.timers /\ v.timers \subseteq u.timers \cup {e.event}
         /\ u.raised \subseteq v.raised /\ v.raised \subseteq u.raised \cup {e.event}
         /\ e.count > 0 => e.event \in v.timers \cup v.raised
         /\ e.duration > TIMER_LOWER_LIMIT => v.raised = u.raised
    BY <1>9, <1>10, <1>11 DEF Started
  <1>13. Good(v, X)
    <2>1. Once(v.list) /\ Listed(v) = v.heap
      BY <1>7, <1>12, Fields
    <2>2. \A c, d \in v.heap : v.block[c].event = v.block[d].event => c = d
      BY <1>1, <1>2, <1>4, <1>9, <1>12
    <2>3. \A ev \in Event : v.map[ev] # NULL =>
            v.map[ev] \in v.heap /\ v.block[v.map[ev]].event = ev
      BY <1>1, <1>2, <1>4, <1>9, <1>12
    <2>4. \A c \in v.heap \ X : v.block[c].count > 0 => v.block[c].event \in v.timers \cup v.raised
      BY <1>1, <1>2, <1>4, <1>9, <1>12
    <2>5. \A c \in v.heap : v.block[c].duration <= LONGEST
      BY <1>1, <1>2, <1>4, <1>9, <1>12
    <2> QED BY <1>12, <2>1, <2>2, <2>3, <2>4, <2>5 DEF Good
  <1>14. Entered(u, v, e)
    <2>1. v.list # <<>>
      <3>1. Elems(t) # {}
        BY <1>7
      <3> QED BY <1>12, <3>1 DEF Elems
    <2>2. b \in Block /\ v.block = [u.block EXCEPT ![b] = e] /\ b \notin u.heap
      BY <1>4, <1>12 DEF k
    <2> QED BY <1>12, <2>1, <2>2 DEF Entered
  <1> QED BY <1>6, <1>13, <1>14

\* The block of an event is written again.
LEMMA OverwriteKeeps ==
  ASSUME NEW u, NEW X, Good(u, X), NEW e \in ssaUserEvent_t, e.duration <= LONGEST,
         NEW b \in u.heap, u.block[b].event = e.event
  PROVE  Good(Overwrite(u, b, e), X) /\ Entered(u, Overwrite(u, b, e), e)
  <1> DEFINE k == [u.block EXCEPT ![b] = e]
             w == [u EXCEPT !.block = k]
             v == set_app_event(w, b)
  <1>1. /\ u \in Memory /\ Once(u.list) /\ Listed(u) = u.heap
        /\ \A c, d \in u.heap : u.block[c].event = u.block[d].event => c = d
        /\ \A ev \in Event : u.map[ev] # NULL =>
             u.map[ev] \in u.heap /\ u.block[u.map[ev]].event = ev
        /\ \A c \in u.heap \ X : u.block[c].count > 0 => u.block[c].event \in u.timers \cup u.raised
        /\ \A c \in u.heap : u.block[c].duration <= LONGEST
    BY DEF Good
  <1>2. /\ u.heap \subseteq Block /\ u.block \in [Block -> ssaUserEvent_t]
        /\ Elems(u.list) = u.heap
    BY <1>1, Fields
  <1>3. /\ k \in [Block -> ssaUserEvent_t] /\ k[b] = e
        /\ \A c \in Block \ {b} : k[c] = u.block[c]
    BY <1>2
  <1>4. Overwrite(u, b, e) = v
    BY DEF Overwrite
  <1> HIDE DEF k
  <1>5. /\ w \in Memory /\ w.list = u.list /\ w.block = k /\ w.heap = u.heap
        /\ w.map = u.map /\ w.timers = u.timers /\ w.raised = u.raised /\ w.status = u.status
    BY <1>1, <1>3 DEF Memory
  <1> HIDE DEF w
  <1>6. Started(w, v, b)
    BY <1>2, <1>5, StartedIs
  <1> HIDE DEF v
  <1>7. /\ v \in Memory /\ v.list = u.list /\ v.block = k /\ v.heap = u.heap /\ v.map = u.map
        /\ v.status = u.status
        /\ u.timers \subseteq v.timers /\ v.timers \subseteq u.timers \cup {e.event}
        /\ u.raised \subseteq v.raised /\ v.raised \subseteq u.raised \cup {e.event}
        /\ e.count > 0 => e.event \in v.timers \cup v.raised
        /\ e.duration > TIMER_LOWER_LIMIT => v.raised = u.raised
    BY <1>3, <1>5, <1>6 DEF Started
  <1>8. Good(v, X)
    <2>1. Once(v.list) /\ Listed(v) = v.heap
      BY <1>1, <1>2, <1>7, Fields
    <2>2. \A c, d \in v.heap : v.block[c].event = v.block[d].event => c = d
      BY <1>1, <1>2, <1>3, <1>7
    <2>3. \A ev \in Event : v.map[ev] # NULL =>
            v.map[ev] \in v.heap /\ v.block[v.map[ev]].event = ev
      BY <1>1, <1>2, <1>3, <1>7
    <2>4. \A c \in v.heap \ X : v.block[c].count > 0 => v.block[c].event \in v.timers \cup v.raised
      BY <1>1, <1>2, <1>3, <1>7
    <2>5. \A c \in v.heap : v.block[c].duration <= LONGEST
      BY <1>1, <1>2, <1>3, <1>7
    <2> QED BY <1>7, <2>1, <2>2, <2>3, <2>4, <2>5 DEF Good
  <1>9. Entered(u, v, e)
    <2>1. v.list # <<>>
      BY <1>2, <1>7 DEF Elems
    <2>2. b \in Block /\ v.block = [u.block EXCEPT ![b] = e] /\ v.heap = u.heap \cup {b}
      BY <1>2, <1>7 DEF k
    <2> QED BY <1>7, <2>1, <2>2 DEF Entered
  <1> QED BY <1>4, <1>8, <1>9

\* An update sets or writes again, but for the NULL pointer of an empty list.
LEMMA UpdateKeeps ==
  ASSUME NEW u, NEW X, Good(u, X), NEW e \in ssaUserEvent_t, e.duration <= LONGEST,
         NEW v \in update_user_event(u, e)
  PROVE  \/ u.list = <<>> /\ v = [u EXCEPT !.status = "wild"]
         \/ Good(v, X) /\ Entered(u, v, e)
  <1> DEFINE found == {b \in Listed(u) : u.block[b].event = e.event}
  <1>1. /\ u \in Memory /\ Listed(u) = u.heap
        /\ \A ev \in Event : u.map[ev] # NULL =>
             u.map[ev] \in u.heap /\ u.block[u.map[ev]].event = ev
    BY DEF Good
  <1>2. /\ u.heap \subseteq Block /\ Elems(u.list) = u.heap
        /\ e.event \in Event
    BY <1>1, Fields, EventOf
  <1>3. PICK q \in Query_User_Event(u, e.event) :
          v = CASE q = NULL -> set_user_event(u, e)
                [] q = WILD -> [u EXCEPT !.status = "wild"]
                [] OTHER    -> Overwrite(u, q, e)
    BY DEF update_user_event
  <1>4. NULL # WILD /\ NULL \notin Block /\ WILD \notin Block
    BY ParametersAssumption DEF NULL, WILD
  <1>5. CASE u.map[e.event] # NULL
    <2>1. q = u.map[e.event]
      BY <1>3, <1>5 DEF Query_User_Event
    <2>2. q \in u.heap /\ u.block[q].event = e.event
      BY <1>1, <1>2, <1>5, <2>1
    <2>3. v = Overwrite(u, q, e)
      BY <1>2, <1>3, <1>4, <2>2
    <2> QED BY <2>2, <2>3, OverwriteKeeps
  <1>6. CASE u.map[e.event] = NULL /\ u.list = <<>>
    <2>1. q \in {NULL, WILD}
      BY <1>3, <1>6 DEF Query_User_Event
    <2>2. u.heap = {}
      BY <1>2, <1>6 DEF Elems
    <2>3. CASE q = NULL
      <3>1. v = set_user_event(u, e)
        BY <1>3, <1>4, <2>3
      <3> QED BY <2>2, <3>1, SetKeeps
    <2>4. CASE q = WILD
      BY <1>3, <1>4, <1>6, <2>4
    <2> QED BY <2>1, <2>3, <2>4
  <1>7. CASE u.map[e.event] = NULL /\ u.list # <<>>
    <2>1. q \in IF found = {} THEN {NULL} ELSE {Least(found)}
      BY <1>3, <1>7 DEF Query_User_Event
    <2>2. CASE found = {}
      <3>1. v = set_user_event(u, e)
        BY <1>3, <1>4, <2>1, <2>2
      <3>2. \A b \in u.heap : u.block[b].event # e.event
        BY <1>1, <2>2
      <3> QED BY <3>1, <3>2, SetKeeps
    <2>3. CASE found # {}
      <3>1. found \subseteq Nat
        BY <1>1, <1>2, ParametersAssumption
      <3>2. q \in found
        <4> HIDE DEF found
        <4> QED BY <2>1, <2>3, <3>1, LeastIs
      <3>3. q \in u.heap /\ u.block[q].event = e.event
        BY <1>1, <3>2
      <3>4. v = Overwrite(u, q, e)
        BY <1>2, <1>3, <1>4, <3>3
      <3> QED BY <3>3, <3>4, OverwriteKeeps
    <2> QED BY <2>2, <2>3
  <1> QED BY <1>5, <1>6, <1>7

\* Events of the list are deleted.
LEMMA DelKeeps ==
  ASSUME NEW u, NEW X, Good(u, X), NEW D, D \subseteq u.heap
  PROVE  LET v == Del_User_Event(u, D)
         IN  /\ Good(v, X) /\ v.heap = u.heap \ D /\ v.block = u.block
             /\ v.timers = u.timers /\ v.raised = u.raised /\ v.status = u.status
  <1> DEFINE t == Without(u.list, D)
             h == u.heap \ D
             m == [ev \in Event |->
                     IF \E b \in D : u.block[b].event = ev THEN NULL ELSE u.map[ev]]
             k == u.block
             w == [u EXCEPT !.list = t, !.heap = h, !.map = m]
             v == Del_User_Event(u, D)
  <1>1. /\ u \in Memory /\ Once(u.list) /\ Listed(u) = u.heap
        /\ \A c, d \in u.heap : u.block[c].event = u.block[d].event => c = d
        /\ \A ev \in Event : u.map[ev] # NULL =>
             u.map[ev] \in u.heap /\ u.block[u.map[ev]].event = ev
        /\ \A c \in u.heap \ X : u.block[c].count > 0 => u.block[c].event \in u.timers \cup u.raised
        /\ \A c \in u.heap : u.block[c].duration <= LONGEST
    BY DEF Good
  <1>2. /\ u.list \in Seq(Block) /\ u.map \in [Event -> Block \cup {NULL}]
        /\ u.heap \subseteq Block /\ Elems(u.list) = u.heap
    BY <1>1, Fields
  <1>3. t \in Seq(Block) /\ Once(t) /\ Elems(t) = h
    BY <1>1, <1>2, WithoutIs
  <1>4. v = w
    BY DEF Del_User_Event
  <1>5. /\ m \in [Event -> Block \cup {NULL}]
        /\ \A ev \in Event : m[ev] # NULL =>
             m[ev] = u.map[ev] /\ ~\E b \in D : u.block[b].event = ev
    BY <1>2
  <1> HIDE DEF t, m, v
  <1>6. h \in SUBSET Block /\ h = u.heap \ D
    BY <1>2
  <1> HIDE DEF h
  <1>7. /\ w \in Memory /\ w.list = t /\ w.heap = h /\ w.map = m /\ w.block = u.block
        /\ w.timers = u.timers /\ w.raised = u.raised /\ w.status = u.status
    BY <1>1, <1>3, <1>5, <1>6 DEF Memory
  <1> HIDE DEF w
  <1>8. /\ v \in Memory /\ v.list = t /\ v.heap = h /\ v.map = m /\ v.block = u.block
        /\ v.timers = u.timers /\ v.raised = u.raised /\ v.status = u.status
    BY <1>4, <1>7
  <1>9. Once(v.list) /\ Listed(v) = v.heap
    BY <1>3, <1>8, Fields
  <1>10. \A ev \in Event : v.map[ev] # NULL =>
           v.map[ev] \in v.heap /\ v.block[v.map[ev]].event = ev
    BY <1>1, <1>5, <1>6, <1>8
  <1>11. Good(v, X)
    BY <1>1, <1>6, <1>8, <1>9, <1>10 DEF Good
  <1> QED BY <1>6, <1>8, <1>11 DEF v

-----------------------------------------------------------------------------
(* The events the application sets, and what lasts on an end device.       *)

\* Every event the program sets is well formed and no longer than the heart beat.
LEMMA Known ==
  /\ HeartBeat \in ssaUserEvent_t /\ HeartBeat.duration = LONGEST
  /\ HeartBeat.resident /\ HeartBeat.event # Counter
  /\ PowerOn \in ssaUserEvent_t /\ PowerOn.duration <= LONGEST
  /\ PowerOn.count = 1 /\ PowerOn.event = Counter /\ PowerOn.duration > TIMER_LOWER_LIMIT
  /\ \A e \in {RfidQuery, RfidBee, Sensor} :
       e \in ssaUserEvent_t /\ e.duration <= LONGEST /\ e.resident /\ e.event # Counter
  /\ \A e \in {Permit, Forbid} : e \in ssaUserEvent_t /\ e.duration <= LONGEST
  <1>1. /\ HeartBeat \in ssaUserEvent_t /\ HeartBeat.duration = LONGEST
        /\ HeartBeat.resident /\ HeartBeat.event # Counter
    BY DEF HeartBeat, New, ssaUserEvent_t, Event, Callback, Counter, LONGEST, MAX_UINT16,
           TIMER_LOOP_EXECUTION
  <1>2. /\ PowerOn \in ssaUserEvent_t /\ PowerOn.duration <= LONGEST
        /\ PowerOn.count = 1 /\ PowerOn.event = Counter /\ PowerOn.duration > TIMER_LOWER_LIMIT
    BY DEF PowerOn, New, ssaUserEvent_t, Event, Callback, Counter, LONGEST, MAX_UINT16,
           TIMER_LOOP_EXECUTION, TIMER_ONE_EXECUTION, TIMER_LOWER_LIMIT
  <1>3. /\ RfidQuery \in ssaUserEvent_t /\ RfidQuery.duration <= LONGEST
        /\ RfidQuery.resident /\ RfidQuery.event # Counter
    BY DEF RfidQuery, New, ssaUserEvent_t, Event, Callback, Counter, LONGEST, MAX_UINT16,
           TIMER_LOOP_EXECUTION
  <1>4. /\ RfidBee \in ssaUserEvent_t /\ RfidBee.duration <= LONGEST
        /\ RfidBee.resident /\ RfidBee.event # Counter
    BY DEF RfidBee, New, ssaUserEvent_t, Event, Callback, Counter, LONGEST, MAX_UINT16,
           TIMER_LOOP_EXECUTION, TIMER_ONE_EXECUTION
  <1>5. /\ Sensor \in ssaUserEvent_t /\ Sensor.duration <= LONGEST
        /\ Sensor.resident /\ Sensor.event # Counter
    BY DEF Sensor, New, ssaUserEvent_t, Event, Callback, Counter, LONGEST, MAX_UINT16,
           TIMER_LOOP_EXECUTION
  <1>6. Permit \in ssaUserEvent_t /\ Permit.duration <= LONGEST
    BY DEF Permit, New, ssaUserEvent_t, Event, Callback, LONGEST, MAX_UINT16,
           TIMER_LOOP_EXECUTION, TIMER_ONE_EXECUTION
  <1>7. Forbid \in ssaUserEvent_t /\ Forbid.duration <= LONGEST
    BY DEF Forbid, New, ssaUserEvent_t, Event, Callback, LONGEST, MAX_UINT16,
           TIMER_LOOP_EXECUTION, TIMER_CLEAR_EXECUTION
  <1> QED BY <1>1, <1>2, <1>3, <1>4, <1>5, <1>6, <1>7

\* A resident event that is entered does not end what lasts.
LEMMA LastingKept ==
  ASSUME NEW u \in Memory, NEW v, NEW e \in ssaUserEvent_t, Lasting(u), Entered(u, v, e),
         e.resident, e.event # Counter
  PROVE  Lasting(v)
  <1>1. PICK b \in Block :
          /\ v.heap = u.heap \cup {b} /\ v.block = [u.block EXCEPT ![b] = e]
          /\ b \in u.heap => u.block[b].event = e.event
          /\ v.timers \subseteq u.timers \cup {e.event}
          /\ v.raised \subseteq u.raised \cup {e.event}
    BY DEF Entered
  <1>2. /\ u.block \in [Block -> ssaUserEvent_t] /\ u.heap \subseteq Block
        /\ v.block[b] = e /\ \A c \in Block \ {b} : v.block[c] = u.block[c]
    BY <1>1, Fields
  <1>3. Alive(e)
    BY DEF Alive
  <1>4. ASSUME NEW ev \in v.timers \cup v.raised
        PROVE  \E c \in v.heap : v.block[c].event = ev /\ Alive(v.block[c])
    <2>1. CASE ev = e.event
      BY <1>1, <1>2, <1>3, <2>1
    <2>2. CASE ev # e.event
      <3>1. PICK c \in u.heap : u.block[c].event = ev /\ Alive(u.block[c])
        BY <1>1, <1>4, <2>2 DEF Lasting
      <3>2. c # b
        BY <1>1, <2>2, <3>1
      <3>3. c \in v.heap /\ v.block[c] = u.block[c]
        BY <1>1, <1>2, <3>2
      <3> QED BY <3>1, <3>3
    <2> QED BY <2>1, <2>2
  <1>5. \A c \in v.heap : v.block[c].resident \/ v.block[c].event = Counter
    BY <1>1, <1>2 DEF Lasting
  <1>6. Counter \notin v.timers \cap v.raised
    BY <1>1 DEF Lasting
  <1> QED BY <1>4, <1>5, <1>6 DEF Lasting

\* The first events of an end device: its power-on counter.
LEMMA PowerOnLasts ==
  ASSUME NEW u, NEW X, Good(u, X), u.heap = {}, u.timers = {}, u.raised = {},
         NEW v, v = set_user_event(u, PowerOn)
  PROVE  Good(v, X) /\ Lasting(v) /\ v.status = u.status
  <1>1. Good(v, X) /\ Entered(u, v, PowerOn)
    BY Known, SetKeeps
  <1>2. PICK b \in Block :
          /\ v.heap = u.heap \cup {b} /\ v.block = [u.block EXCEPT ![b] = PowerOn]
          /\ v.timers \subseteq u.timers \cup {PowerOn.event}
          /\ PowerOn.duration > TIMER_LOWER_LIMIT => v.raised = u.raised
          /\ v.status = u.status
    BY <1>1 DEF Entered
  <1>3. v.heap = {b} /\ v.timers \subseteq {Counter} /\ v.raised = {} /\ v.status = u.status
    BY <1>2, Known
  <1>4. v.block[b] = PowerOn
    <2>1. u.block \in [Block -> ssaUserEvent_t]
      BY Fields DEF Good
    <2> QED BY <1>2, <2>1
  <1>5. PowerOn.event = Counter /\ Alive(PowerOn)
    <2>1. PowerOn.count = 1 /\ PowerOn.event = Counter
      BY Known
    <2> QED BY <2>1 DEF Alive
  <1> QED BY <1>1, <1>3, <1>4, <1>5 DEF Lasting

\* The heart beat is set once: the walk for it meets every entry.
LEMMA BeatKeeps ==
  ASSUME NEW u, NEW X, Good(u, X), NEW v, v = set_user_event(u, HeartBeat)
  PROVE  /\ Good(v, X) /\ v.list # <<>> /\ v.status = u.status
         /\ v = u \/ Entered(u, v, HeartBeat)
  <1>1. CASE \A b \in u.heap : u.block[b].event # HeartBeat.event
    <2>1. HeartBeat \in ssaUserEvent_t /\ HeartBeat.duration <= LONGEST
      <3>1. HeartBeat \in ssaUserEvent_t /\ HeartBeat.duration = LONGEST
        BY Known
      <3>2. HeartBeat.duration \in Nat
        BY <3>1, EventOf
      <3> QED BY <3>1, <3>2
    <2>2. Good(v, X) /\ Entered(u, v, HeartBeat)
      BY <1>1, <2>1, SetKeeps
    <2> QED BY <2>2 DEF Entered
  <1>2. CASE \E b \in u.heap : u.block[b].event = HeartBeat.event
    <2> DEFINE L == Len(u.list)
    <2>1. /\ u \in Memory /\ Listed(u) = u.heap
          /\ \A c \in u.heap : u.block[c].duration <= LONGEST
      BY DEF Good
    <2>2. L \in Nat /\ Elems(u.list) = u.heap /\ u.block \in [Block -> ssaUserEvent_t]
          /\ u.heap \subseteq Block
      BY <2>1, Fields
    <2>3. PICK i \in 1 .. L : u.block[u.list[i]].event = HeartBeat.event
      BY <1>2, <2>2 DEF Elems
    <2>4. HeartBeat.duration = LONGEST
      BY Known
    <2>5. ASSUME NEW j \in 1 .. L PROVE ~(HeartBeat.duration < Entry(u, j).duration)
      <3>1. u.list[j] \in u.heap
        BY <2>2 DEF Elems
      <3>2. Entry(u, j).duration <= LONGEST /\ Entry(u, j).duration \in Nat
        BY <2>1, <2>2, <3>1, EventOf DEF Entry
      <3>3. LONGEST \in Nat
        BY DEF LONGEST
      <3> QED BY <2>4, <3>2, <3>3
    <2>6. Place(u, HeartBeat.duration) = L + 1
      <3> DEFINE longer == {j \in 1 .. L : HeartBeat.duration < Entry(u, j).duration}
      <3>1. longer = {}
        BY <2>5
      <3>2. Place(u, HeartBeat.duration) = Least(longer \cup {L + 1})
        BY DEF Place
      <3>3. Least({L + 1}) \in {L + 1}
        <4>1. {L + 1} \subseteq Nat /\ {L + 1} # {}
          BY <2>2
        <4> QED BY <4>1, LeastIs, Zenon
      <3> HIDE DEF longer
      <3> QED BY <3>1, <3>2, <3>3
    <2>7. Refused(u, HeartBeat)
      BY <2>2, <2>3, <2>6 DEF Refused, Entry
    <2>8. v = u
      BY <2>7 DEF set_user_event
    <2>9. u.list # <<>>
      BY <2>2, <2>3
    <2> QED BY <2>8, <2>9
  <1> QED BY <1>1, <1>2

-----------------------------------------------------------------------------
(* process_event.                                                          *)

\* Counting leaves an entry with its event, and nothing else changes.
LEMMA CountIs ==
  ASSUME NEW u \in Memory, NEW b \in Block
  PROVE  \E f \in ssaUserEvent_t :
           LET w == Count(u, b)
           IN  /\ f.event = u.block[b].event /\ f.duration = u.block[b].duration
               /\ f.resident = u.block[b].resident
               /\ w \in Memory /\ w.block = [u.block EXCEPT ![b] = f]
               /\ w.list = u.list /\ w.map = u.map /\ w.heap = u.heap
               /\ w.timers = u.timers /\ w.raised = u.raised /\ w.status = u.status
  <1> DEFINE e == u.block[b]
             n == (e.count + TIMER_LOOP_EXECUTION) % 128
             f == [e EXCEPT !.count = n]
             k == [u.block EXCEPT ![b] = f]
             w == [u EXCEPT !.block = k]
  <1>1. u.block \in [Block -> ssaUserEvent_t] /\ e \in ssaUserEvent_t
    BY Fields
  <1>2. CASE e.count = TIMER_LOOP_EXECUTION
    <2>1. Count(u, b) = u
      BY <1>2 DEF Count
    <2>2. u.block = [u.block EXCEPT ![b] = e]
      BY <1>1
    <2> HIDE DEF e
    <2> QED BY <1>1, <2>1, <2>2 DEF e
  <1>3. CASE e.count # TIMER_LOOP_EXECUTION
    <2>1. Count(u, b) = w
      BY <1>3 DEF Count
    <2>2. n \in 0 .. TIMER_LOOP_EXECUTION
      <3>1. e.count \in 0 .. 127
        BY <1>1, EventOf
      <3> QED BY <3>1 DEF TIMER_LOOP_EXECUTION
    <2> HIDE DEF n, e
    <2>3. /\ f \in ssaUserEvent_t /\ f.event = e.event /\ f.duration = e.duration
          /\ f.resident = e.resident
      BY <1>1, <2>2 DEF ssaUserEvent_t
    <2> HIDE DEF f
    <2>4. k \in [Block -> ssaUserEvent_t]
      BY <1>1, <2>3
    <2> HIDE DEF k
    <2>5. /\ w \in Memory /\ w.block = k /\ w.list = u.list /\ w.map = u.map /\ w.heap = u.heap
          /\ w.timers = u.timers /\ w.raised = u.raised /\ w.status = u.status
      BY <2>4 DEF Memory
    <2> HIDE DEF w
    <2> QED BY <2>1, <2>3, <2>5 DEF e, k
  <1> QED BY <1>2, <1>3

\* An entry that fired is counted and started again; the other entries stay.
LEMMA FiredKeeps ==
  ASSUME NEW u, NEW b, Good(u, {b}), b \in u.heap, NEW v, v = Fired(u, b)
  PROVE  /\ Good(v, {}) /\ v.status = u.status
         /\ Lasting(u) /\ (u.block[b].event = Counter => Counter \notin u.timers \cup u.raised)
              => Lasting(v)
  <1> DEFINE w == Count(u, b)
             ev == u.block[b].event
  <1>1. /\ u \in Memory /\ Once(u.list) /\ Listed(u) = u.heap
        /\ \A c, d \in u.heap : u.block[c].event = u.block[d].event => c = d
        /\ \A x \in Event : u.map[x] # NULL =>
             u.map[x] \in u.heap /\ u.block[u.map[x]].event = x
        /\ \A c \in u.heap \ {b} :
             u.block[c].count > 0 => u.block[c].event \in u.timers \cup u.raised
        /\ \A c \in u.heap : u.block[c].duration <= LONGEST
    BY DEF Good
  <1>2. /\ u.heap \subseteq Block /\ u.block \in [Block -> ssaUserEvent_t]
        /\ Elems(u.list) = u.heap /\ b \in Block
    BY <1>1, Fields
  <1>3. PICK f \in ssaUserEvent_t :
          /\ f.event = ev /\ f.duration = u.block[b].duration
          /\ f.resident = u.block[b].resident
          /\ w \in Memory /\ w.block = [u.block EXCEPT ![b] = f]
          /\ w.list = u.list /\ w.map = u.map /\ w.heap = u.heap
          /\ w.timers = u.timers /\ w.raised = u.raised /\ w.status = u.status
    BY <1>1, <1>2, CountIs
  <1>4. w.block[b] = f /\ \A c \in Block \ {b} : w.block[c] = u.block[c]
    BY <1>2, <1>3
  <1>5. Started(w, v, b)
    <2>1. v = set_app_event(w, b)
      BY DEF Fired
    <2> HIDE DEF w
    <2> QED BY <1>2, <1>3, <2>1, StartedIs
  <1> HIDE DEF w
  <1>6. /\ v \in Memory /\ v.list = u.list /\ v.heap = u.heap /\ v.map = u.map
        /\ v.status = u.status /\ v.block = w.block
        /\ u.timers \subseteq v.timers /\ v.timers \subseteq u.timers \cup {ev}
        /\ u.raised \subseteq v.raised /\ v.raised \subseteq u.raised \cup {ev}
        /\ v.timers = u.timers \/ v.raised = u.raised
        /\ f.count > 0 => ev \in v.timers \cup v.raised
        /\ f.count = 0 => v.timers = u.timers /\ v.raised = u.raised
    BY <1>3, <1>4, <1>5 DEF Started
  <1>7. \A c \in u.heap : v.block[c].event = u.block[c].event
    BY <1>2, <1>3, <1>4, <1>6
  <1>8. Good(v, {})
    <2>1. Once(v.list) /\ Listed(v) = v.heap
      BY <1>1, <1>2, <1>6, Fields
    <2>2. \A c, d \in v.heap : v.block[c].event = v.block[d].event => c = d
      BY <1>1, <1>6, <1>7
    <2>3. \A x \in Event : v.map[x] # NULL =>
            v.map[x] \in v.heap /\ v.block[v.map[x]].event = x
      BY <1>1, <1>6, <1>7
    <2>4. \A c \in v.heap : v.block[c].count > 0 => v.block[c].event \in v.timers \cup v.raised
      BY <1>1, <1>2, <1>3, <1>4, <1>6
    <2>5. \A c \in v.heap : v.block[c].duration <= LONGEST
      BY <1>1, <1>2, <1>3, <1>4, <1>6
    <2> QED BY <1>6, <2>1, <2>2, <2>3, <2>4, <2>5 DEF Good
  <1>9. ASSUME Lasting(u), ev = Counter => Counter \notin u.timers \cup u.raised
        PROVE  Lasting(v)
    <2>1. ASSUME NEW x \in v.timers \cup v.raised
          PROVE  \E c \in v.heap : v.block[c].event = x /\ Alive(v.block[c])
      <3>1. CASE x # ev
        <4>1. PICK c \in u.heap : u.block[c].event = x /\ Alive(u.block[c])
          BY <1>6, <1>9, <2>1, <3>1 DEF Lasting
        <4>2. c \in Block \ {b}
          BY <1>2, <3>1, <4>1
        <4> QED BY <1>4, <1>6, <4>1, <4>2
      <3>2. CASE x = ev
        <4>1. v.block[b] = f /\ f.event = x
          BY <1>3, <1>4, <1>6, <3>2
        <4>2. Alive(f)
          <5>1. CASE f.resident
            BY <5>1 DEF Alive
          <5>2. CASE ~f.resident
            <6>1. ev = Counter
              BY <1>3, <1>9, <5>2 DEF Lasting
            <6>2. f.count # 0
              BY <1>6, <1>9, <2>1, <3>2, <6>1
            <6>3. f.count \in 0 .. 127
              BY EventOf
            <6> QED BY <6>2, <6>3 DEF Alive
          <5> QED BY <5>1, <5>2
        <4> QED BY <1>6, <4>1, <4>2
      <3> QED BY <3>1, <3>2
    <2>2. ASSUME NEW c \in v.heap
          PROVE  v.block[c].resident \/ v.block[c].event = Counter
      <3>1. u.block[c].resident \/ u.block[c].event = Counter
        BY <1>6, <1>9 DEF Lasting
      <3>2. v.block[c].event = u.block[c].event
        BY <1>6, <1>7
      <3>3. v.block[c].resident = u.block[c].resident
        BY <1>2, <1>3, <1>4, <1>6
      <3> QED BY <3>1, <3>2, <3>3, Zenon
    <2>3. Counter \notin v.timers \cap v.raised
      BY <1>6, <1>9 DEF Lasting
    <2> QED BY <2>1, <2>2, <2>3 DEF Lasting
  <1> QED BY <1>6, <1>8, <1>9

\* A callback may enter the bee of the card reader.
LEMMA CallbackIs ==
  ASSUME NEW u, NEW X, Good(u, X), u.list # <<>>, NEW a \in AppState, NEW cb,
         NEW r \in RunCallback(u, a, cb)
  PROVE  /\ r[2] \in AppState /\ r[2].role = a.role /\ r[2].isFirstState = a.isFirstState
         /\ r[1] = u \/ (Good(r[1], X) /\ Entered(u, r[1], RfidBee))
  <1>1. \A x, y \in BOOLEAN :
          /\ [a EXCEPT !.isPermitJoining = x] \in AppState
          /\ [a EXCEPT !.bee = x] \in AppState
          /\ [a EXCEPT !.isBee = x] \in AppState
          /\ [a EXCEPT !.isBee = x, !.bee = y] \in AppState
    BY DEF AppState
  <1>2. \A x, y \in BOOLEAN :
          /\ [a EXCEPT !.isPermitJoining = x].role = a.role
          /\ [a EXCEPT !.isPermitJoining = x].isFirstState = a.isFirstState
          /\ [a EXCEPT !.bee = x].role = a.role
          /\ [a EXCEPT !.bee = x].isFirstState = a.isFirstState
          /\ [a EXCEPT !.isBee = x].role = a.role
          /\ [a EXCEPT !.isBee = x].isFirstState = a.isFirstState
          /\ [a EXCEPT !.isBee = x, !.bee = y].role = a.role
          /\ [a EXCEPT !.isBee = x, !.bee = y].isFirstState = a.isFirstState
    BY DEF AppState
  <1>3. CASE cb = "PermitLedOff"
    <2>1. r = <<u, [a EXCEPT !.isPermitJoining = FALSE]>>
      BY <1>3 DEF RunCallback
    <2> QED BY <1>1, <1>2, <2>1
  <1>4. CASE cb = "StopBee"
    <2>1. r = <<u, [a EXCEPT !.bee = FALSE]>>
      BY <1>4 DEF RunCallback
    <2> QED BY <1>1, <1>2, <2>1
  <1>5. CASE cb = "RfidQuery"
    <2>1. \/ r = <<u, [a EXCEPT !.isBee = FALSE]>>
          \/ r = <<u, a>>
          \/ \E v \in update_user_event(u, RfidBee) :
               r = <<v, [a EXCEPT !.isBee = TRUE, !.bee = TRUE]>>
      BY <1>5 DEF RunCallback
    <2>2. CASE r = <<u, [a EXCEPT !.isBee = FALSE]>>
      BY <1>1, <1>2, <2>2
    <2>3. CASE r = <<u, a>>
      BY <2>3
    <2>4. ASSUME NEW v \in update_user_event(u, RfidBee),
                 r = <<v, [a EXCEPT !.isBee = TRUE, !.bee = TRUE]>>
          PROVE  /\ r[2] \in AppState /\ r[2].role = a.role
                 /\ r[2].isFirstState = a.isFirstState
                 /\ Good(r[1], X) /\ Entered(u, r[1], RfidBee)
      <3>1. RfidBee \in ssaUserEvent_t /\ RfidBee.duration <= LONGEST
        BY Known
      <3>2. Good(v, X) /\ Entered(u, v, RfidBee)
        BY <3>1, UpdateKeeps
      <3> DEFINE a2 == [a EXCEPT !.isBee = TRUE, !.bee = TRUE]
      <3>3. a2 \in AppState /\ a2.role = a.role /\ a2.isFirstState = a.isFirstState
        BY <1>1, <1>2
      <3>4. r[1] = v /\ r[2] = a2
        BY <2>4
      <3> HIDE DEF a2
      <3> QED BY <3>2, <3>3, <3>4
    <2> QED BY <2>1, <2>2, <2>3, <2>4
  <1>6. CASE cb \notin {"PermitLedOff", "StopBee", "RfidQuery"}
    <2>1. r = <<u, a>>
      BY <1>6 DEF RunCallback
    <2> QED BY <2>1
  <1> QED BY <1>3, <1>4, <1>5, <1>6

\* process_event at a position it stops at.
LEMMA ServeKeeps ==
  ASSUME NEW u, Good(u, {}), NEW a \in AppState, NEW i \in Matches(u),
         NEW r \in RunCallback(Del_User_Event([u EXCEPT !.raised = @ \ {Entry(u, i).event}],
                                              DeadBefore(u, i)),
                               a, Entry(u, i).cb),
         NEW v, v = Fired(r[1], u.list[i])
  PROVE  /\ Good(v, {}) /\ v.status = u.status /\ (Lasting(u) => Lasting(v))
         /\ r[2] \in AppState /\ r[2].role = a.role /\ r[2].isFirstState = a.isFirstState
  <1> DEFINE b == u.list[i]
             ev == Entry(u, i).event
             w == [u EXCEPT !.raised = @ \ {ev}]
             D == DeadBefore(u, i)
             d == Del_User_Event(w, D)
  <1>1. /\ u \in Memory /\ Once(u.list) /\ Listed(u) = u.heap
        /\ \A c, e \in u.heap : u.block[c].event = u.block[e].event => c = e
        /\ \A x \in Event : u.map[x] # NULL =>
             u.map[x] \in u.heap /\ u.block[u.map[x]].event = x
        /\ \A c \in u.heap : u.block[c].count > 0 => u.block[c].event \in u.timers \cup u.raised
        /\ \A c \in u.heap : u.block[c].duration <= LONGEST
    BY DEF Good
  <1>2. /\ u.heap \subseteq Block /\ u.block \in [Block -> ssaUserEvent_t]
        /\ Elems(u.list) = u.heap /\ u.raised \subseteq Event /\ Len(u.list) \in Nat
    BY <1>1, Fields
  <1>3. /\ i \in 1 .. Len(u.list) /\ b \in u.heap /\ ev = u.block[b].event
        /\ Alive(u.block[b]) /\ ev \in u.raised
    BY <1>2 DEF Matches, Entry, Elems
  <1>4. D \subseteq u.heap /\ b \notin D /\ \A c \in D : ~Alive(u.block[c])
    <2>1. \A c \in D : \E j \in 1 .. i - 1 : c = u.list[j] /\ ~Alive(u.block[u.list[j]])
      BY DEF DeadBefore, Entry
    <2>2. 1 .. i - 1 \subseteq 1 .. Len(u.list)
      BY <1>2, <1>3
    <2>3. \A c \in D : c \in u.heap /\ ~Alive(u.block[c])
      BY <1>2, <2>1, <2>2 DEF Elems
    <2> QED BY <1>3, <2>3
  <1> HIDE DEF b, ev, D
  <1>5. /\ w \in Memory /\ w.list = u.list /\ w.map = u.map /\ w.heap = u.heap
        /\ w.block = u.block /\ w.timers = u.timers /\ w.raised = u.raised \ {ev}
        /\ w.status = u.status
    BY <1>1 DEF Memory
  <1> HIDE DEF w
  <1>6. Good(w, {b})
    <2>1. Once(w.list) /\ Listed(w) = w.heap
      BY <1>1, <1>2, <1>5, Fields
    <2>2. \A c \in w.heap \ {b} :
            w.block[c].count > 0 => w.block[c].event \in w.timers \cup w.raised
      BY <1>1, <1>3, <1>5
    <2> QED BY <1>1, <1>5, <2>1, <2>2 DEF Good
  <1>7. /\ Good(d, {b}) /\ d.heap = u.heap \ D /\ d.block = u.block
        /\ d.timers = u.timers /\ d.raised = u.raised \ {ev} /\ d.status = u.status
    BY <1>4, <1>5, <1>6, DelKeeps
  <1>8. r \in RunCallback(d, a, Entry(u, i).cb)
    BY DEF d, w, D, ev
  <1> HIDE DEF d
  <1>9. b \in d.heap /\ d.list # <<>>
    <2>1. Listed(d) = d.heap /\ d \in Memory
      BY <1>7 DEF Good
    <2>2. b \in d.heap
      BY <1>3, <1>4, <1>7
    <2>3. d.list # <<>>
      BY <2>1, <2>2, Fields DEF Elems
    <2> QED BY <2>2, <2>3
  <1>10. /\ r[2] \in AppState /\ r[2].role = a.role /\ r[2].isFirstState = a.isFirstState
         /\ r[1] = d \/ (Good(r[1], {b}) /\ Entered(d, r[1], RfidBee))
    BY <1>7, <1>8, <1>9, CallbackIs
  <1> DEFINE q == r[1]
  <1>11. q = d \/ (Good(q, {b}) /\ Entered(d, q, RfidBee))
    BY <1>10
  <1>12. v = Fired(q, b)
    BY DEF b
  <1> HIDE DEF q
  <1>13. /\ RfidBee \in ssaUserEvent_t /\ RfidBee.resident /\ RfidBee.event # Counter
    BY Known
  <1>14. /\ Good(q, {b}) /\ b \in q.heap /\ q.status = u.status /\ q.block[b].event = ev
         /\ ev = Counter /\ Counter \notin d.timers \cup d.raised
              => Counter \notin q.timers \cup q.raised
    <2>1. CASE q = d
      BY <1>3, <1>7, <1>9, <2>1
    <2>2. CASE Good(q, {b}) /\ Entered(d, q, RfidBee)
      <3>1. PICK c \in Block :
              /\ q.heap = d.heap \cup {c} /\ q.block = [d.block EXCEPT ![c] = RfidBee]
              /\ c \in d.heap => d.block[c].event = RfidBee.event
              /\ q.timers \subseteq d.timers \cup {RfidBee.event}
              /\ q.raised \subseteq d.raised \cup {RfidBee.event}
              /\ q.status = d.status
        BY <2>2 DEF Entered
      <3>2. q.block[b].event = ev
        BY <1>2, <1>3, <1>7, <1>9, <3>1
      <3> QED BY <1>7, <1>9, <1>13, <2>2, <3>1, <3>2
    <2> QED BY <1>11, <2>1, <2>2
  <1>15. Good(v, {}) /\ v.status = u.status
    BY <1>12, <1>14, FiredKeeps
  <1>16. ASSUME Lasting(u) PROVE Lasting(v)
    <2>1. Lasting(d)
      <3>1. ASSUME NEW x \in d.timers \cup d.raised
            PROVE  \E c \in d.heap : d.block[c].event = x /\ Alive(d.block[c])
        <4>1. PICK c \in u.heap : u.block[c].event = x /\ Alive(u.block[c])
          BY <1>7, <1>16, <3>1 DEF Lasting
        <4>2. c \notin D
          BY <1>4, <4>1
        <4> QED BY <1>7, <4>1, <4>2
      <3>2. \A c \in d.heap : d.block[c].resident \/ d.block[c].event = Counter
        BY <1>7, <1>16 DEF Lasting
      <3>3. Counter \notin d.timers \cap d.raised
        BY <1>7, <1>16 DEF Lasting
      <3> QED BY <3>1, <3>2, <3>3 DEF Lasting
    <2>2. Lasting(q)
      <3>1. d \in Memory
        BY <1>7 DEF Good
      <3> QED BY <1>11, <1>13, <2>1, <3>1, LastingKept
    <2>3. ev = Counter => Counter \notin d.timers \cup d.raised
      BY <1>3, <1>7, <1>16 DEF Lasting
    <2> QED BY <1>12, <1>14, <2>2, <2>3, FiredKeeps
  <1> QED BY <1>10, <1>15, <1>16

\* A change of the status, or of a timer into a flag.
LEMMA StatusKeeps ==
  ASSUME NEW u, Good(u, {}), NEW s \in Status
  PROVE  LET v == [u EXCEPT !.status = s]
         IN  /\ Good(v, {}) /\ v.status = s /\ (Lasting(u) => Lasting(v))
             /\ v.heap = u.heap /\ v.timers = u.timers /\ v.raised = u.raised
  <1> DEFINE v == [u EXCEPT !.status = s]
  <1>1. u \in Memory
    BY DEF Good
  <1>2. /\ v \in Memory /\ v.list = u.list /\ v.map = u.map /\ v.heap = u.heap
        /\ v.block = u.block /\ v.timers = u.timers /\ v.raised = u.raised /\ v.status = s
    BY <1>1 DEF Memory
  <1> HIDE DEF v
  <1>3. Listed(v) = Listed(u)
    BY <1>1, <1>2, Fields
  <1>4. Good(v, {})
    BY <1>2, <1>3 DEF Good
  <1>5. Lasting(u) => Lasting(v)
    BY <1>2 DEF Lasting
  <1> QED BY <1>2, <1>4, <1>5 DEF v

LEMMA ExpiryKeeps ==
  ASSUME NEW u, Good(u, {}), NEW ev \in u.timers
  PROVE  LET v == [u EXCEPT !.timers = @ \ {ev}, !.raised = @ \cup {ev}]
         IN  Good(v, {}) /\ v.status = u.status /\ (Lasting(u) => Lasting(v))
  <1> DEFINE v == [u EXCEPT !.timers = @ \ {ev}, !.raised = @ \cup {ev}]
  <1>1. u \in Memory
    BY DEF Good
  <1>2. ev \in Event
    BY <1>1, Fields
  <1>3. /\ v \in Memory /\ v.list = u.list /\ v.map = u.map /\ v.heap = u.heap
        /\ v.block = u.block /\ v.timers = u.timers \ {ev} /\ v.raised = u.raised \cup {ev}
        /\ v.status = u.status
    BY <1>1, <1>2 DEF Memory
  <1> HIDE DEF v
  <1>4. Listed(v) = Listed(u)
    BY <1>1, <1>3, Fields
  <1>5. \A b \in v.heap \ {} : v.block[b].count > 0 => v.block[b].event \in v.timers \cup v.raised
    BY <1>3 DEF Good
  <1>6. Good(v, {})
    BY <1>3, <1>4, <1>5 DEF Good
  <1>7. Lasting(u) => Lasting(v)
    BY <1>3 DEF Lasting
  <1> QED BY <1>3, <1>6, <1>7 DEF v

-----------------------------------------------------------------------------
(* The invariant.                                                          *)

LEMMA Start == Init => IInv
  <1> SUFFICES ASSUME Init PROVE IInv
    OBVIOUS
  <1>1. Forbid \in ssaUserEvent_t
    BY Known
  <1>2. /\ ue = [list |-> <<>>, map |-> [ev \in Event |-> NULL], heap |-> {},
                 block |-> [b \in Block |-> Forbid], timers |-> {}, raised |-> {},
                 status |-> "boot"]
        /\ \E role \in Roles :
             app = [role |-> role, isPermitJoining |-> FALSE, isFirstState |-> TRUE,
                    isBee |-> FALSE, bee |-> FALSE]
    BY DEF Init
  <1>3. app \in AppState
    BY <1>2 DEF AppState
  <1>4. ue \in Memory
    <2>1. <<>> \in Seq(Block) /\ [b \in Block |-> Forbid] \in [Block -> ssaUserEvent_t]
      BY <1>1
    <2> QED BY <1>2, <2>1 DEF Memory, Status
  <1>5. /\ ue.list = <<>> /\ ue.heap = {} /\ ue.timers = {} /\ ue.raised = {}
        /\ ue.status = "boot" /\ \A ev \in Event : ue.map[ev] = NULL
    BY <1>2
  <1>6. Once(ue.list) /\ Listed(ue) = {}
    <2>1. Len(ue.list) = 0 /\ 1 .. 0 = {}
      BY <1>5
    <2> QED BY <2>1 DEF Once, Listed
  <1>7. Good(ue, {})
    BY <1>4, <1>5, <1>6 DEF Good
  <1>8. Lasting(ue)
    BY <1>5 DEF Lasting
  <1> QED BY <1>3, <1>5, <1>7, <1>8 DEF IInv, EndDevice

LEMMA KeepsInit == IInv /\ CommonApp_InitConfirm => IInv'
  <1> SUFFICES ASSUME IInv, CommonApp_InitConfirm PROVE IInv'
    OBVIOUS
  <1>1. Good(ue, {}) /\ app \in AppState /\ EndDevice
    BY DEF IInv
  <1>2. PICK u \in IF RTR_NWK THEN CommonApp_PermitJoiningRequest(ue, FALSE) ELSE {ue} :
          ue' = [u EXCEPT !.status = IF @ = "wild" THEN "wild" ELSE "ok"]
    BY DEF CommonApp_InitConfirm
  <1>3. app' = app
    BY DEF CommonApp_InitConfirm
  <1> DEFINE s == IF u.status = "wild" THEN "wild" ELSE "ok"
             v == [u EXCEPT !.status = s]
  <1>4. ue' = v /\ s \in Status
    BY <1>2 DEF Status
  <1>5. CASE RTR_NWK
    <2>1. u \in update_user_event(ue, Forbid)
      BY <1>2, <1>5 DEF CommonApp_PermitJoiningRequest
    <2>2. Forbid \in ssaUserEvent_t /\ Forbid.duration <= LONGEST
      BY Known
    <2>3. Good(u, {})
      <3>1. \/ u = [ue EXCEPT !.status = "wild"]
            \/ Good(u, {}) /\ Entered(ue, u, Forbid)
        BY <1>1, <2>1, <2>2, UpdateKeeps
      <3>2. "wild" \in Status
        BY DEF Status
      <3> QED BY <1>1, <3>1, <3>2, StatusKeeps
    <2>4. Good(v, {})
      <3> HIDE DEF s
      <3> QED BY <1>4, <2>3, StatusKeeps
    <2>5. app.role # "enddevice"
      BY <1>5 DEF RTR_NWK
    <2> HIDE DEF v
    <2> QED BY <1>1, <1>3, <1>4, <2>4, <2>5 DEF IInv, EndDevice
  <1>6. CASE ~RTR_NWK
    <2>1. u = ue
      BY <1>2, <1>6
    <2>2. /\ Good(v, {}) /\ v.status = s /\ (Lasting(ue) => Lasting(v))
          /\ v.heap = ue.heap /\ v.timers = ue.timers /\ v.raised = ue.raised
      <3> HIDE DEF s
      <3> QED BY <1>1, <1>4, <2>1, StatusKeeps
    <2>3. app.role = "enddevice" => s = "ok"
      BY <1>1, <2>1 DEF EndDevice
    <2> HIDE DEF v, s
    <2> QED BY <1>1, <1>3, <1>4, <2>2, <2>3 DEF IInv, EndDevice
  <1> QED BY <1>5, <1>6

LEMMA KeepsKey == IInv /\ HandleKey => IInv'
  <1> SUFFICES ASSUME IInv, HandleKey PROVE IInv'
    OBVIOUS
  <1>1. Good(ue, {}) /\ app \in AppState
    BY DEF IInv
  <1>2. /\ RTR_NWK /\ ue' \in CommonApp_PermitJoiningRequest(ue, ~app.isPermitJoining)
        /\ app' = [app EXCEPT !.isPermitJoining = ~@]
    BY DEF HandleKey
  <1>3. PICK e \in {Permit, Forbid} : ue' \in update_user_event(ue, e)
    BY <1>2 DEF CommonApp_PermitJoiningRequest
  <1>4. e \in ssaUserEvent_t /\ e.duration <= LONGEST
    BY Known
  <1>5. Good(ue', {})
    <2>1. \/ ue' = [ue EXCEPT !.status = "wild"]
          \/ Good(ue', {}) /\ Entered(ue, ue', e)
      BY <1>1, <1>3, <1>4, UpdateKeeps
    <2>2. "wild" \in Status
      BY DEF Status
    <2> QED BY <1>1, <2>1, <2>2, StatusKeeps
  <1>6. app' \in AppState /\ app'.role # "enddevice"
    BY <1>1, <1>2 DEF AppState, RTR_NWK
  <1> QED BY <1>5, <1>6 DEF IInv, EndDevice

LEMMA KeepsZdo == ASSUME NEW joined, IInv, ZdoStateChange(joined) PROVE IInv'
  <1> DEFINE first == IF ~RTR_NWK /\ app.isFirstState THEN set_user_event(ue, PowerOn) ELSE ue
             beat == set_user_event(first, HeartBeat)
  <1>1. Good(ue, {}) /\ app \in AppState /\ EndDevice
    BY DEF IInv
  <1>2. /\ ue.status = "ok"
        /\ IF joined /\ app.role # "coordinator"
           THEN \E board \in Board : ue' \in HalStatesInit(beat, board)
           ELSE ue' = first
        /\ app' = [app EXCEPT !.isFirstState = FALSE]
    BY DEF ZdoStateChange
  <1>3. /\ app' \in AppState /\ app'.role = app.role /\ app'.isFirstState = FALSE
        /\ RTR_NWK <=> app.role # "enddevice"
    <2>1. app' \in AppState /\ app'.role = app.role /\ app'.isFirstState = FALSE
      BY <1>1, <1>2 DEF AppState
    <2>2. app.role \in {"coordinator", "router", "enddevice"}
      BY <1>1, ParametersAssumption DEF AppState
    <2> QED BY <2>1, <2>2 DEF RTR_NWK
  <1>4. /\ Good(first, {}) /\ first.status = "ok"
        /\ app.role = "enddevice" => Lasting(first)
    <2>1. CASE ~RTR_NWK /\ app.isFirstState
      <3>1. first = set_user_event(ue, PowerOn)
        BY <2>1
      <3>2. ue.heap = {} /\ ue.timers = {} /\ ue.raised = {}
        BY <1>1, <1>3, <2>1 DEF EndDevice
      <3> HIDE DEF first
      <3> QED BY <1>1, <1>2, <3>1, <3>2, PowerOnLasts
    <2>2. CASE ~(~RTR_NWK /\ app.isFirstState)
      BY <1>1, <1>2, <2>2 DEF EndDevice
    <2> QED BY <2>1, <2>2
  <1> HIDE DEF first
  <1>5. /\ Good(beat, {}) /\ beat.status = "ok" /\ beat.list # <<>>
        /\ app.role = "enddevice" => Lasting(beat)
    <2>1. /\ Good(beat, {}) /\ beat.list # <<>> /\ beat.status = first.status
          /\ beat = first \/ Entered(first, beat, HeartBeat)
      BY <1>4, BeatKeeps
    <2>2. first \in Memory /\ HeartBeat \in ssaUserEvent_t /\ HeartBeat.resident
          /\ HeartBeat.event # Counter
      BY <1>4, Known DEF Good
    <2> HIDE DEF beat
    <2>3. Lasting(first) => Lasting(beat)
      BY <2>1, <2>2, LastingKept
    <2> QED BY <1>4, <2>1, <2>3
  <1> HIDE DEF beat
  <1>6. Good(ue', {}) /\ (app.role = "enddevice" => Lasting(ue') /\ ue'.status = "ok")
    <2>1. CASE ~(joined /\ app.role # "coordinator")
      BY <1>2, <1>4, <2>1
    <2>2. CASE joined /\ app.role # "coordinator"
      <3>1. PICK board \in Board : ue' \in HalStatesInit(beat, board)
        BY <1>2, <2>2
      <3>2. ue' = beat \/ \E e \in {RfidQuery, Sensor} : ue' \in update_user_event(beat, e)
        BY <3>1 DEF HalStatesInit
      <3>3. ASSUME NEW e \in {RfidQuery, Sensor}, ue' \in update_user_event(beat, e)
            PROVE  Good(ue', {}) /\ ue'.status = "ok" /\ (Lasting(beat) => Lasting(ue'))
        <4>1. e \in ssaUserEvent_t /\ e.duration <= LONGEST /\ e.resident /\ e.event # Counter
          BY Known
        <4>2. Good(ue', {}) /\ Entered(beat, ue', e)
          BY <1>5, <3>3, <4>1, UpdateKeeps
        <4>3. ue'.status = "ok"
          BY <1>5, <4>2 DEF Entered
        <4>4. beat \in Memory
          BY <1>5 DEF Good
        <4> QED BY <4>1, <4>2, <4>3, <4>4, LastingKept
      <3> QED BY <1>5, <3>2, <3>3
    <2> QED BY <2>1, <2>2
  <1> QED BY <1>3, <1>6 DEF IInv, EndDevice

LEMMA KeepsTimer == ASSUME NEW ev, IInv, TimerExpires(ev) PROVE IInv'
  <1> DEFINE v == [ue EXCEPT !.timers = @ \ {ev}, !.raised = @ \cup {ev}]
  <1>1. Good(ue, {}) /\ app \in AppState /\ EndDevice
    BY DEF IInv
  <1>2. ue' = v /\ app' = app /\ ev \in ue.timers
    BY DEF TimerExpires
  <1>3. Good(v, {}) /\ v.status = ue.status /\ (Lasting(ue) => Lasting(v))
    BY <1>1, <1>2, ExpiryKeeps
  <1> HIDE DEF v
  <1>4. EndDevice'
    BY <1>1, <1>2, <1>3 DEF EndDevice
  <1> QED BY <1>1, <1>2, <1>3, <1>4 DEF IInv

LEMMA KeepsServe == IInv /\ HandleEvents => IInv'
  <1> SUFFICES ASSUME IInv, HandleEvents PROVE IInv'
    OBVIOUS
  <1>1. Good(ue, {}) /\ app \in AppState /\ EndDevice /\ ue.raised # {} /\ process_event
    BY DEF IInv, HandleEvents
  <1>2. app.role = "enddevice" => ~app.isFirstState
    BY <1>1 DEF EndDevice
  <1>3. CASE Matches(ue) # {}
    <2> DEFINE i == Least(Matches(ue))
               b == ue.list[i]
               e == ue.block[b]
               u == Del_User_Event([ue EXCEPT !.raised = @ \ {e.event}], DeadBefore(ue, i))
    <2>1. PICK r \in RunCallback(u, app, e.cb) : ue' = Fired(r[1], b) /\ app' = r[2]
      BY <1>1, <1>3 DEF process_event
    <2>2. i \in Matches(ue)
      <3>1. Matches(ue) \subseteq Nat
        BY DEF Matches
      <3> QED BY <1>3, <3>1, LeastIs
    <2>3. e = Entry(ue, i)
      BY DEF Entry
    <2> HIDE DEF i
    <2>4. /\ Good(ue', {}) /\ ue'.status = ue.status /\ (Lasting(ue) => Lasting(ue'))
          /\ app' \in AppState /\ app'.role = app.role /\ app'.isFirstState = app.isFirstState
      <3>1. r \in RunCallback(Del_User_Event([ue EXCEPT !.raised = @ \ {Entry(ue, i).event}],
                                             DeadBefore(ue, i)), app, Entry(ue, i).cb)
        BY <2>1, <2>3
      <3>2. /\ Good(ue', {}) /\ ue'.status = ue.status /\ (Lasting(ue) => Lasting(ue'))
            /\ r[2] \in AppState /\ r[2].role = app.role /\ r[2].isFirstState = app.isFirstState
        BY <1>1, <2>1, <2>2, <3>1, ServeKeeps
      <3> QED BY <2>1, <3>2
    <2>5. EndDevice'
      BY <1>1, <1>2, <2>4 DEF EndDevice
    <2> QED BY <2>4, <2>5 DEF IInv
  <1>4. CASE Matches(ue) = {}
    <2> DEFINE D == DeadBefore(ue, Len(ue.list) + 1)
               d == Del_User_Event(ue, D)
    <2>1. ue' = [d EXCEPT !.status = "stuck"] /\ app' = app
      BY <1>1, <1>4 DEF process_event
    <2>2. ue \in Memory /\ Listed(ue) = ue.heap
      BY <1>1 DEF Good
    <2>3. Len(ue.list) \in Nat /\ Elems(ue.list) = ue.heap
      BY <2>2, Fields
    <2>4. D \subseteq ue.heap
      <3>1. 1 .. (Len(ue.list) + 1) - 1 = 1 .. Len(ue.list)
        BY <2>3
      <3> QED BY <2>3, <3>1 DEF DeadBefore, Elems
    <2>5. Good(d, {})
      BY <1>1, <2>4, DelKeeps
    <2>6. Good(ue', {})
      <3>1. "stuck" \in Status
        BY DEF Status
      <3> HIDE DEF d
      <3> QED BY <2>1, <2>5, <3>1, StatusKeeps
    <2>7. app.role # "enddevice"
      <3> SUFFICES ASSUME app.role = "enddevice" PROVE FALSE
        OBVIOUS
      <3>1. PICK x \in ue.raised : TRUE
        BY <1>1
      <3>2. PICK b \in ue.heap : ue.block[b].event = x /\ Alive(ue.block[b])
        BY <1>1, <3>1 DEF EndDevice, Lasting
      <3>3. PICK j \in 1 .. Len(ue.list) : ue.list[j] = b
        BY <2>3, <3>2 DEF Elems
      <3>4. j \in Matches(ue)
        BY <3>1, <3>2, <3>3 DEF Matches, Entry
      <3> QED BY <1>4, <3>4
    <2>8. EndDevice'
      BY <2>1, <2>7 DEF EndDevice
    <2> QED BY <1>1, <2>1, <2>6, <2>8 DEF IInv
  <1> QED BY <1>3, <1>4

THEOREM Invariance == Spec => []IInv
  <1>1. IInv /\ UNCHANGED vars => IInv'
    BY DEF IInv, EndDevice, vars, Good, Lasting, Listed, Entry
  <1>2. IInv /\ Next => IInv'
    BY KeepsInit, KeepsKey, KeepsZdo, KeepsTimer, KeepsServe DEF Next
  <1> QED BY Start, <1>1, <1>2, PTL DEF Spec

-----------------------------------------------------------------------------
(* Theorems.                                                               *)

\* The memory of api_events.c stays well formed: every allocated block holds an event
\* with a count of seven bits, however often it is counted down, written again and
\* freed, and the list and the map hold blocks.
THEOREM TypeCorrect == Spec => []TypeOK
  <1>1. IInv => TypeOK
    <2> SUFFICES ASSUME Good(ue, {}), app \in AppState PROVE TypeOK
      BY DEF IInv
    <2>1. ue \in Memory
      BY DEF Good
    <2>2. /\ ue.list \in Seq(Block) /\ ue.map \in [Event -> Block \cup {NULL}]
          /\ ue.heap \subseteq Block /\ ue.block \in [Block -> ssaUserEvent_t]
          /\ ue.timers \subseteq Event /\ ue.raised \subseteq Event /\ ue.status \in Status
      BY <2>1, Fields
    <2>3. \A b \in ue.heap : ue.block[b] \in ssaUserEvent_t
      BY <2>2
    <2> QED BY <2>2, <2>3 DEF TypeOK, AppState, Status
  <1> QED BY Invariance, <1>1, PTL

\* Whatever is set, updated, fired and deleted, from the key, the network or a callback:
\* an event is listed once, in an allocated block, no block is lost or used after it is
\* freed, userevent_map never leads to a freed block, and an event with a count left has
\* a timer or a flag, so that no periodic event dies.
THEOREM ListAlwaysSound == Spec => []ListSound
  <1>1. IInv => ListSound
    <2> SUFFICES ASSUME Good(ue, {}) PROVE ListSound
      BY DEF IInv
    <2>1. /\ ue \in Memory /\ Once(ue.list) /\ Listed(ue) = ue.heap
          /\ \A b, c \in ue.heap : ue.block[b].event = ue.block[c].event => b = c
      BY DEF Good
    <2>2. Elems(ue.list) = ue.heap
      BY <2>1, Fields
    <2>3. ASSUME NEW i \in 1 .. Len(ue.list), NEW j \in 1 .. Len(ue.list), i # j
          PROVE  Entry(ue, i).event # Entry(ue, j).event
      <3>1. ue.list[i] \in ue.heap /\ ue.list[j] \in ue.heap
        BY <2>2 DEF Elems
      <3>2. ue.list[i] # ue.list[j]
        BY <2>1, <2>3 DEF Once
      <3> QED BY <2>1, <3>1, <3>2 DEF Entry
    <2>4. \A ev \in Event :
            ue.map[ev] # NULL => ue.map[ev] \in ue.heap /\ ue.block[ue.map[ev]].event = ev
      BY DEF Good
    <2>5. \A b \in Listed(ue) :
            ue.block[b].count > 0 => ue.block[b].event \in ue.timers \cup ue.raised
      BY <2>1 DEF Good
    <2> QED BY <2>1, <2>3, <2>4, <2>5 DEF ListSound
  <1> QED BY Invariance, <1>1, PTL

\* An end device never meets the flag process_event does not come back from, nor the
\* NULL pointer of an empty list: what a timer or a flag stands for is always listed and
\* alive, and the heart beat is set before the first update.
THEOREM EndDeviceAlwaysGoesOn == Spec => []EndDeviceGoesOn
  <1>1. IInv => EndDeviceGoesOn
    <2> SUFFICES ASSUME app \in AppState, EndDevice PROVE EndDeviceGoesOn
      BY DEF IInv
    <2>1. app.role \in {"coordinator", "router", "enddevice"}
      BY ParametersAssumption DEF AppState
    <2> QED BY <2>1 DEF EndDeviceGoesOn, EndDevice, RTR_NWK
  <1> QED BY Invariance, <1>1, PTL

=============================================================================
