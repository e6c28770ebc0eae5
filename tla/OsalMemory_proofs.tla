-------------------------- MODULE OsalMemory_proofs --------------------------
(***************************************************************************)
(* Proofs about OsalMemory, for a heap, a bucket and blocks of any sizes:  *)
(* the headers tile the heap, no free block is lost, an allocation fails   *)
(* only when its region has no room, and the blocks handed out are         *)
(* disjoint.                                                               *)
(*                                                                         *)
(* IInv says of the heap what a call may rely on.  What a call does is the *)
(* walk over the headers: Walking says what holds when it stands at a      *)
(* header, and is shown by induction on its steps.                         *)
(***************************************************************************)
EXTENDS OsalMemory, WellFoundedInduction, TLAPS

Address == 0 .. LastBlk - 1

\* The headers m tile the heap, and the bucket is kept apart.
IsHeap(m) ==
  /\ {0, Bucket, BigBlk} \subseteq DOMAIN m
  /\ m[Bucket] = Block(Hdr, TRUE)
  /\ \A a \in DOMAIN m :
       /\ a \in Address
       /\ m[a] \in [len : Nat, inUse : BOOLEAN]
       /\ m[a].len > 0 /\ (a # Bucket => m[a].len > Hdr)
       /\ a + m[a].len \in DOMAIN m \cup {LastBlk}
       /\ \A b \in DOMAIN m : ~(a < b /\ b < a + m[a].len)

\* A block that was handed out is in use, and long enough.
Owned ==
  \A a \in DOMAIN asked :
    /\ a \in DOMAIN mem /\ a # Bucket /\ mem[a].inUse
    /\ asked[a] \in Nat \ {0} /\ asked[a] + Hdr <= mem[a].len

IInv ==
  /\ IsHeap(mem)
  /\ ff1 \in DOMAIN mem \cup {LastBlk}
  /\ osalMemStat \in BOOLEAN
  /\ ~osalMemStat => ff1 = 0
  /\ Owned
  /\ NothingIsLost

-----------------------------------------------------------------------------
(* The walk.                                                               *)

\* The headers m are those of the heap, some free neighbours merged; ff1 still points
\* to a header.
Merged(m) ==
  /\ IsHeap(m)
  /\ DOMAIN m \subseteq DOMAIN mem
  /\ \A a \in DOMAIN mem : mem[a].inUse => a \in DOMAIN m /\ m[a] = mem[a]
  /\ \A a \in DOMAIN m : m[a].inUse <=> mem[a].inUse
  /\ ff1 \in DOMAIN m \cup {LastBlk}

\* No stretch of free blocks between first and h has room for size.
NoRoom(first, h, size) ==
  \A a \in DOMAIN mem, e \in DOMAIN mem \cup {LastBlk} :
    first <= a /\ e <= h /\ FreeStretch(a, e) => e - a < size

\* Every free block of m between first and h is too small.
Passed(m, first, h, size) ==
  \A a \in DOMAIN m : first <= a /\ a < h /\ ~m[a].inUse => m[a].len < size

\* The walk has come to h: it has seen what is before h and has not touched what is
\* after it; "prev" is the stretch of free blocks that ends at h.
Seen(m, h, coal, prev, size) ==
  /\ FirstBlk(size) <= h
  /\ \A a \in DOMAIN mem : h <= a => a \in DOMAIN m /\ m[a] = mem[a]
  /\ Passed(m, FirstBlk(size), h, size)
  /\ NoRoom(FirstBlk(size), h, size)
  /\ coal =>
       /\ prev \in DOMAIN m /\ FirstBlk(size) <= prev
       /\ ~m[prev].inUse /\ prev + m[prev].len = h
  /\ \A a \in DOMAIN mem :
       FirstBlk(size) <= a /\ a < h /\ FreeStretch(a, h) => coal /\ prev <= a

Standing(w, size) == w.hdr \in DOMAIN mem /\ Seen(w.mem, w.hdr, w.coal, w.prev, size)

\* The walk has found a block.
Ended(w, size) ==
  /\ w.hdr \in DOMAIN w.mem /\ FirstBlk(size) <= w.hdr
  /\ ~w.mem[w.hdr].inUse /\ w.mem[w.hdr].len >= size
  /\ Passed(w.mem, FirstBlk(size), w.hdr, size)

\* The walk after k steps: every step has moved it on.
Walking(w, size, k) ==
  /\ Merged(w.mem)
  /\ w.done \in BOOLEAN /\ w.coal \in BOOLEAN
  /\ ~w.done => Standing(w, size) /\ k <= w.hdr
  /\ w.done /\ w.hdr # NULL => Ended(w, size)
  /\ w.done /\ w.hdr = NULL => NoRoom(FirstBlk(size), LastBlk, size)

-----------------------------------------------------------------------------
(* Heaps.                                                                  *)

LEMMA ConstantFacts ==
  /\ Hdr \in Nat /\ Hdr > 0 /\ Bucket \in Nat /\ LastBlk \in Nat /\ BigBlk \in Nat
  /\ BigBlk = Bucket + Hdr /\ BigBlk + Hdr < LastBlk /\ MinBlk \in Nat /\ MinBlk > Hdr
  /\ Bucket > Hdr
  /\ NULL \notin Nat
BY HeapAssumption DEF BigBlk

LEMMA BlockFacts ==
  ASSUME NEW l \in Nat
  PROVE  /\ Block(l, TRUE).len = l /\ Block(l, TRUE).inUse
         /\ Block(l, FALSE).len = l /\ ~Block(l, FALSE).inUse
         /\ Block(l, TRUE) \in [len : Nat, inUse : BOOLEAN]
         /\ Block(l, FALSE) \in [len : Nat, inUse : BOOLEAN]
BY DEF Block

\* What a heap says of one block and of two.
LEMMA HeapFacts ==
  ASSUME NEW m, IsHeap(m), NEW a \in DOMAIN m
  PROVE  /\ a \in Nat /\ a < LastBlk /\ m[a].len \in Nat /\ m[a].inUse \in BOOLEAN
         /\ m[a].len > 0 /\ (a # Bucket => m[a].len > Hdr)
         /\ a + m[a].len \in DOMAIN m \cup {LastBlk}
         /\ a + m[a].len <= LastBlk
         /\ m[Bucket].inUse /\ m[Bucket].len = Hdr
         /\ \A b \in DOMAIN m : b \in Nat /\ (a < b => a + m[a].len <= b)
  <1>1. /\ a \in Address /\ m[a] \in [len : Nat, inUse : BOOLEAN]
        /\ m[a].len > 0 /\ (a # Bucket => m[a].len > Hdr)
        /\ a + m[a].len \in DOMAIN m \cup {LastBlk}
        /\ \A b \in DOMAIN m : ~(a < b /\ b < a + m[a].len)
    BY DEF IsHeap
  <1>2. \A b \in DOMAIN m : b \in Address
    BY DEF IsHeap
  <1>3. m[a].len \in Nat /\ m[a].inUse \in BOOLEAN
    BY <1>1
  <1>4. m[Bucket].inUse /\ m[Bucket].len = Hdr
    <2>1. m[Bucket] = Block(Hdr, TRUE) /\ Hdr \in Nat
      BY ConstantFacts DEF IsHeap
    <2> QED BY <2>1, BlockFacts
  <1>5. a \in Nat /\ a < LastBlk /\ \A b \in DOMAIN m : b \in Nat /\ b < LastBlk
    BY <1>1, <1>2, ConstantFacts DEF Address
  <1>6. a + m[a].len <= LastBlk
    BY <1>1, <1>5, ConstantFacts
  <1>7. \A b \in DOMAIN m : a < b => a + m[a].len <= b
    BY <1>1, <1>3, <1>5
  <1> QED
    BY <1>1, <1>3, <1>4, <1>5, <1>6, <1>7

\* Merging a free block into the free block before it.
MergeAt(m, p, h) ==
  [a \in DOMAIN m \ {h} |->
     IF a = p THEN Block(m[a].len + m[h].len, FALSE) ELSE m[a]]

LEMMA MergeIsHeap ==
  ASSUME NEW m, IsHeap(m), NEW p \in DOMAIN m, NEW h \in DOMAIN m,
         ~m[p].inUse, ~m[h].inUse, p + m[p].len = h
  PROVE  /\ IsHeap(MergeAt(m, p, h))
         /\ DOMAIN MergeAt(m, p, h) = DOMAIN m \ {h}
         /\ p \in DOMAIN m \ {h} /\ p < h
         /\ MergeAt(m, p, h)[p].len = m[p].len + m[h].len
         /\ ~MergeAt(m, p, h)[p].inUse
         /\ \A a \in DOMAIN m \ {h} : a # p => MergeAt(m, p, h)[a] = m[a]
  <1> DEFINE t == MergeAt(m, p, h)
             l == m[p].len
             k == m[h].len
  <1>1. /\ p \in Nat /\ h \in Nat /\ l \in Nat /\ k \in Nat /\ l > 0 /\ k > 0
        /\ h < LastBlk /\ h + k <= LastBlk /\ h + k \in DOMAIN m \cup {LastBlk}
        /\ p # Bucket /\ h # Bucket /\ l > Hdr /\ p + l = h
        /\ \A b \in DOMAIN m : b \in Nat /\ (h < b => h + k <= b) /\ (p < b => h <= b)
    BY HeapFacts
  <1>2. /\ DOMAIN t = DOMAIN m \ {h} /\ p \in DOMAIN m \ {h} /\ p < h
    BY <1>1 DEF MergeAt
  <1>3. t[p] = Block(l + k, FALSE)
    BY <1>2 DEF MergeAt
  <1>4. \A a \in DOMAIN m \ {h} : a # p => t[a] = m[a]
    BY DEF MergeAt
  <1>5. h # 0 /\ h # BigBlk
    <2>1. h # 0
      BY <1>1, <1>2
    <2>2. ASSUME h = BigBlk PROVE FALSE
      <3>1. Bucket \in DOMAIN m
        BY DEF IsHeap
      <3>2. CASE p < Bucket
        BY <1>1, <2>2, <3>1, <3>2, ConstantFacts
      <3>3. CASE Bucket < p
        <4>1. Bucket + Hdr <= p
          BY <3>1, <3>3, HeapFacts
        <4> QED BY <1>1, <1>2, <2>2, <4>1, ConstantFacts
      <3> QED BY <1>1, <3>2, <3>3, ConstantFacts
    <2> QED BY <2>1, <2>2
  <1>6. {0, Bucket, BigBlk} \subseteq DOMAIN t /\ t[Bucket] = Block(Hdr, TRUE)
    BY <1>1, <1>2, <1>4, <1>5 DEF IsHeap
  <1>7. ASSUME NEW a \in DOMAIN t
        PROVE  /\ a \in Address
               /\ t[a] \in [len : Nat, inUse : BOOLEAN]
               /\ t[a].len > 0 /\ (a # Bucket => t[a].len > Hdr)
               /\ a + t[a].len \in DOMAIN t \cup {LastBlk}
               /\ \A b \in DOMAIN t : ~(a < b /\ b < a + t[a].len)
    <2>1. a \in DOMAIN m /\ a # h
      BY <1>2
    <2>2. a \in Address
      BY <2>1 DEF IsHeap
    <2>3. CASE a = p
      <3>1. t[a].len = l + k /\ t[a] \in [len : Nat, inUse : BOOLEAN]
        <4>1. l + k \in Nat
          BY <1>1
        <4> HIDE DEF t, l, k
        <4> QED BY <1>3, <2>3, <4>1, BlockFacts
      <3>2. a + t[a].len = h + k /\ t[a].len > Hdr /\ t[a].len > 0
        BY <1>1, <2>3, <3>1, ConstantFacts
      <3>3. h + k # h
        BY <1>1
      <3>4. ASSUME NEW b \in DOMAIN t, p < b, b < h + k
            PROVE  FALSE
        <4>1. b \in DOMAIN m /\ b # h
          BY <1>2
        <4> QED BY <1>1, <3>4, <4>1
      <3> QED BY <1>1, <1>2, <2>2, <2>3, <3>1, <3>2, <3>3, <3>4
    <2>4. CASE a # p
      <3>1. t[a] = m[a]
        BY <1>4, <2>1, <2>4
      <3>2. a + m[a].len # h
        <4>1. /\ a \in Nat /\ m[a].len \in Nat /\ m[a].len > 0
              /\ (a < p => a + m[a].len <= p) /\ (p < a => h <= a)
          BY <1>1, <2>1, HeapFacts
        <4> QED BY <1>1, <1>2, <2>4, <4>1
      <3> QED BY <1>2, <2>1, <2>2, <3>1, <3>2 DEF IsHeap
    <2> QED BY <2>3, <2>4
  <1>8. IsHeap(t)
    BY <1>6, <1>7 DEF IsHeap
  <1>9. t[p].len = l + k /\ ~t[p].inUse
    <2>1. l + k \in Nat
      BY <1>1
    <2> HIDE DEF t, l, k
    <2> QED BY <1>3, <2>1, BlockFacts
  <1> QED BY <1>2, <1>4, <1>8, <1>9

\* Taking a free block that is long enough; a rest that is split off is a free block.
LEMMA TakeIsHeap ==
  ASSUME NEW m, IsHeap(m), NEW a \in DOMAIN m, ~m[a].inUse,
         NEW size \in Nat, size > Hdr, m[a].len >= size
  PROVE  /\ IsHeap(Take(m, a, size))
         /\ DOMAIN m \subseteq DOMAIN Take(m, a, size)
         /\ Take(m, a, size)[a].inUse /\ Take(m, a, size)[a].len >= size
         /\ \A b \in DOMAIN m : b # a => Take(m, a, size)[b] = m[b]
         /\ \A b \in DOMAIN Take(m, a, size) : b \notin DOMAIN m =>
              b > a /\ ~Take(m, a, size)[b].inUse
  <1> DEFINE t == Take(m, a, size)
             l == m[a].len
             r == l - size
             e == a + size
  <1>1. /\ a \in Nat /\ a < LastBlk /\ l \in Nat /\ l > 0 /\ a # Bucket
        /\ a + l \in DOMAIN m \cup {LastBlk} /\ a + l <= LastBlk
        /\ \A b \in DOMAIN m : b \in Nat /\ (a < b => a + l <= b)
    BY HeapFacts
  <1>2. {0, Bucket, BigBlk} \subseteq DOMAIN m /\ m[Bucket] = Block(Hdr, TRUE)
    BY DEF IsHeap
  <1>3. CASE r >= MinBlk
    <2>1. t = [b \in DOMAIN m \cup {e} |->
                 IF b = a THEN Block(size, TRUE) ELSE IF b = e THEN Block(r, FALSE) ELSE m[b]]
      BY <1>3 DEF Take
    <2>2. /\ r \in Nat /\ r > Hdr /\ e \in Nat /\ e > a /\ e < a + l /\ e + r = a + l
          /\ e < LastBlk /\ e \notin DOMAIN m
      BY <1>1, <1>3, ConstantFacts
    <2> HIDE DEF t, e, r, l
    <2>3. /\ DOMAIN t = DOMAIN m \cup {e} /\ e # a
          /\ t[a] = Block(size, TRUE) /\ t[e] = Block(r, FALSE)
          /\ \A b \in DOMAIN m : b # a => t[b] = m[b]
      BY <2>1, <2>2
    <2>4. /\ t[a].len = size /\ t[a].inUse /\ t[a] \in [len : Nat, inUse : BOOLEAN]
          /\ t[e].len = r /\ ~t[e].inUse /\ t[e] \in [len : Nat, inUse : BOOLEAN]
      BY <2>2, <2>3, BlockFacts
    <2>5. ASSUME NEW b \in DOMAIN t
          PROVE  /\ b \in Address
                 /\ t[b] \in [len : Nat, inUse : BOOLEAN]
                 /\ t[b].len > 0 /\ (b # Bucket => t[b].len > Hdr)
                 /\ b + t[b].len \in DOMAIN t \cup {LastBlk}
                 /\ \A c \in DOMAIN t : ~(b < c /\ c < b + t[b].len)
      <3>1. CASE b = a
        <4>1. a \in Address
          BY DEF IsHeap
        <4>2. \A c \in DOMAIN t : ~(a < c /\ c < e)
          BY <1>1, <2>2, <2>3
        <4>3. a + t[a].len = e
          BY <2>4 DEF e
        <4>4. t[a].len > 0 /\ t[a].len > Hdr /\ e \in DOMAIN t
          <5>1. t[a].len = size
            BY <2>4
          <5>2. e \in DOMAIN t
            BY <2>3
          <5> QED BY <5>1, <5>2, ConstantFacts
        <4>5. t[a] \in [len : Nat, inUse : BOOLEAN]
          BY <2>4
        <4> QED BY <3>1, <4>1, <4>2, <4>3, <4>4, <4>5
      <3>2. CASE b = e
        <4>1. e \in Address
          BY <2>2, ConstantFacts DEF Address
        <4>2. \A c \in DOMAIN t : ~(e < c /\ c < a + l)
          BY <1>1, <2>2, <2>3
        <4>3. e + t[e].len = a + l /\ t[e].len > Hdr /\ t[e].len > 0
          BY <2>2, <2>4, ConstantFacts
        <4>4. a + l \in DOMAIN t \cup {LastBlk}
          BY <1>1, <2>3
        <4>5. t[e] \in [len : Nat, inUse : BOOLEAN]
          BY <2>4
        <4> QED BY <3>2, <4>1, <4>2, <4>3, <4>4, <4>5
      <3>3. CASE b # a /\ b # e
        <4>1. b \in DOMAIN m /\ t[b] = m[b]
          BY <2>3, <3>3
        <4>2. /\ b \in Address /\ m[b] \in [len : Nat, inUse : BOOLEAN]
              /\ m[b].len > 0 /\ (b # Bucket => m[b].len > Hdr)
              /\ b + m[b].len \in DOMAIN m \cup {LastBlk}
              /\ \A c \in DOMAIN m : ~(b < c /\ c < b + m[b].len)
          BY <4>1 DEF IsHeap
        <4>3. ~(b < e /\ e < b + m[b].len)
          <5>1. b \in Nat /\ m[b].len \in Nat /\ (b < a => b + m[b].len <= a)
            BY <4>1, HeapFacts
          <5>2. a < b => a + l <= b
            BY <1>1, <4>1
          <5> QED BY <1>1, <2>2, <3>3, <5>1, <5>2
        <4> QED BY <2>3, <4>1, <4>2, <4>3
      <3> QED BY <3>1, <3>2, <3>3
    <2>6. Bucket # e
      BY <1>2, <2>2
    <2>7. IsHeap(t)
      BY <1>1, <1>2, <2>3, <2>5 DEF IsHeap
    <2>8. \A b \in DOMAIN t : b \notin DOMAIN m => b > a /\ ~t[b].inUse
      BY <2>2, <2>3, <2>4
    <2>9. DOMAIN m \subseteq DOMAIN t /\ t[a].len >= size
      <3>1. t[a].len = size
        BY <2>4
      <3>2. DOMAIN m \subseteq DOMAIN t
        BY <2>3
      <3> QED BY <3>1, <3>2
    <2>10. t[a].inUse
      BY <2>4
    <2>11. \A b \in DOMAIN m : b # a => t[b] = m[b]
      BY <2>3
    <2> QED BY <2>7, <2>8, <2>9, <2>10, <2>11 DEF t
  <1>4. CASE ~(r >= MinBlk)
    <2>1. t = [m EXCEPT ![a].inUse = TRUE]
      BY <1>4 DEF Take
    <2>2. m[a] \in [len : Nat, inUse : BOOLEAN]
      BY DEF IsHeap
    <2> HIDE DEF t, e, r
    <2>3. /\ DOMAIN t = DOMAIN m
          /\ t[a] \in [len : Nat, inUse : BOOLEAN] /\ t[a].len = l /\ t[a].inUse
          /\ \A b \in DOMAIN m : b # a => t[b] = m[b]
      BY <2>1, <2>2
    <2>4. IsHeap(t)
      <3>1. ASSUME NEW b \in DOMAIN m
            PROVE  t[b].len = m[b].len /\ t[b] \in [len : Nat, inUse : BOOLEAN]
        BY <2>3 DEF IsHeap
      <3>2. {0, Bucket, BigBlk} \subseteq DOMAIN t /\ t[Bucket] = Block(Hdr, TRUE)
        BY <1>1, <1>2, <2>3
      <3> QED BY <2>3, <3>1, <3>2 DEF IsHeap
    <2> QED BY <2>3, <2>4 DEF t
  <1> QED BY <1>3, <1>4

\* Marking a block free.
Freed(m, a) == [m EXCEPT ![a].inUse = FALSE]

LEMMA FreedIsHeap ==
  ASSUME NEW m, IsHeap(m), NEW a \in DOMAIN m, a # Bucket
  PROVE  /\ IsHeap(Freed(m, a)) /\ DOMAIN Freed(m, a) = DOMAIN m
         /\ ~Freed(m, a)[a].inUse
         /\ \A b \in DOMAIN m : b # a => Freed(m, a)[b] = m[b]
  <1> DEFINE t == Freed(m, a)
  <1>1. m[a] \in [len : Nat, inUse : BOOLEAN]
    BY DEF IsHeap
  <1>2. /\ DOMAIN t = DOMAIN m
        /\ t[a] \in [len : Nat, inUse : BOOLEAN] /\ t[a].len = m[a].len /\ ~t[a].inUse
        /\ \A b \in DOMAIN m : b # a => t[b] = m[b]
    BY <1>1 DEF Freed
  <1> HIDE DEF t
  <1>3. \A b \in DOMAIN m : t[b].len = m[b].len /\ t[b] \in [len : Nat, inUse : BOOLEAN]
    BY <1>2 DEF IsHeap
  <1>4. {0, Bucket, BigBlk} \subseteq DOMAIN t /\ t[Bucket] = Block(Hdr, TRUE)
    BY <1>2 DEF IsHeap
  <1>5. IsHeap(t)
    BY <1>2, <1>3, <1>4 DEF IsHeap
  <1> QED BY <1>2, <1>5 DEF t

-----------------------------------------------------------------------------
(* A step of the walk.                                                     *)

LEMMA FirstIsHeader ==
  ASSUME IInv, NEW size
  PROVE  /\ FirstBlk(size) \in DOMAIN mem \cup {LastBlk} /\ FirstBlk(size) \in Nat
         /\ ~osalMemStat => FirstBlk(size) = 0
  <1>1. BigBlk \in DOMAIN mem
    BY DEF IInv, IsHeap
  <1>2. \A a \in DOMAIN mem \cup {LastBlk} : a \in Nat
    BY HeapFacts, ConstantFacts DEF IInv
  <1> QED BY <1>1, <1>2 DEF FirstBlk, IInv

\* Moving on, to the next header or to the end.
LEMMA OnwardWalks ==
  ASSUME IInv, NEW size, NEW w, NEW m, NEW coal \in BOOLEAN, NEW prev,
         Merged(m),
         w.hdr + w.mem[w.hdr].len \in DOMAIN mem \cup {LastBlk},
         Seen(m, w.hdr + w.mem[w.hdr].len, coal, prev, size),
         NEW k, k <= w.hdr + w.mem[w.hdr].len
  PROVE  Walking(Onward(w, m, coal, prev), size, k)
  <1> DEFINE o == Onward(w, m, coal, prev)
             n == w.hdr + w.mem[w.hdr].len
  <1>1. o = [mem |-> m, hdr |-> IF n = LastBlk THEN NULL ELSE n, done |-> n = LastBlk,
             coal |-> coal, prev |-> prev]
    BY DEF Onward
  <1> HIDE DEF o, n
  <1>2. CASE n = LastBlk
    <2>1. o.mem = m /\ o.hdr = NULL /\ o.done = TRUE /\ o.coal = coal
      BY <1>1, <1>2
    <2>2. NoRoom(FirstBlk(size), LastBlk, size)
      BY <1>2 DEF Seen, n
    <2>3. Walking(o, size, k)
      BY <2>1, <2>2 DEF Walking
    <2> QED BY <2>3 DEF o
  <1>3. CASE n # LastBlk
    <2>1. o.mem = m /\ o.hdr = n /\ o.done = FALSE /\ o.coal = coal /\ o.prev = prev
      BY <1>1, <1>3
    <2>2. n \in DOMAIN mem /\ Seen(m, n, coal, prev, size) /\ k <= n
      BY <1>3 DEF n
    <2>3. Standing(o, size)
      BY <2>1, <2>2 DEF Standing
    <2>4. Walking(o, size, k)
      BY <2>1, <2>2, <2>3 DEF Walking
    <2> QED BY <2>4 DEF o
  <1> QED BY <1>2, <1>3

\* Stopping at a block.
LEMMA FoundWalks ==
  ASSUME NEW size, NEW w, w.coal \in BOOLEAN, NEW m, NEW a, Merged(m),
         a \in DOMAIN m, FirstBlk(size) <= a, ~m[a].inUse, m[a].len >= size,
         Passed(m, FirstBlk(size), a, size), NEW k
  PROVE  Walking(Found(w, m, a), size, k)
  <1> DEFINE f == Found(w, m, a)
  <1>1. f.mem = m /\ f.hdr = a /\ f.done = TRUE /\ f.coal = w.coal
    BY DEF Found
  <1>2. a # NULL
    BY HeapFacts, ConstantFacts DEF Merged
  <1> HIDE DEF f
  <1>3. Ended(f, size)
    BY <1>1 DEF Ended
  <1>4. Walking(f, size, k)
    BY <1>1, <1>2, <1>3 DEF Walking
  <1> QED BY <1>4 DEF f

\* Between a header and the next there is nothing.
LEMMA NextHeader ==
  ASSUME IsHeap(mem), NEW h \in DOMAIN mem
  PROVE  /\ h \in Nat /\ mem[h].len \in Nat /\ mem[h].len > 0
         /\ h + mem[h].len \in DOMAIN mem \cup {LastBlk}
         /\ \A a \in DOMAIN mem : a \in Nat /\ (a < h + mem[h].len => a <= h)
         /\ \A e \in DOMAIN mem \cup {LastBlk} :
              e \in Nat /\ (e < h + mem[h].len => e <= h)
  <1>1. /\ h \in Nat /\ mem[h].len \in Nat /\ mem[h].len > 0
        /\ h + mem[h].len \in DOMAIN mem \cup {LastBlk} /\ h + mem[h].len <= LastBlk
        /\ \A b \in DOMAIN mem : b \in Nat /\ (h < b => h + mem[h].len <= b)
    BY HeapFacts
  <1> QED BY <1>1, ConstantFacts

\* A block in use ends every stretch.
LEMMA SeenInUse ==
  ASSUME IInv, NEW m, NEW h \in DOMAIN mem, NEW coal, NEW prev, NEW size \in Nat, size > Hdr,
         Merged(m), Seen(m, h, coal, prev, size), mem[h].inUse, NEW p
  PROVE  Seen(m, h + mem[h].len, FALSE, p, size)
  <1> DEFINE n == h + mem[h].len
             F == FirstBlk(size)
  <1>1. /\ h \in Nat /\ n \in Nat /\ h < n /\ n \in DOMAIN mem \cup {LastBlk}
        /\ \A a \in DOMAIN mem : a \in Nat /\ (a < n => a <= h)
        /\ \A e \in DOMAIN mem \cup {LastBlk} : e \in Nat /\ (e < n => e <= h)
    BY NextHeader DEF IInv
  <1>2. F \in Nat /\ Hdr \in Nat
    BY FirstIsHeader, ConstantFacts
  <1> HIDE DEF n, F
  <1>3. F <= n /\ \A a \in DOMAIN mem : n <= a => a \in DOMAIN m /\ m[a] = mem[a]
    BY <1>1, <1>2 DEF Seen, F
  <1>4. Passed(m, F, n, size)
    <2>1. \A a \in DOMAIN m : a \in DOMAIN mem /\ (m[a].inUse <=> mem[a].inUse)
      BY DEF Merged
    <2>2. \A a \in DOMAIN m : F <= a /\ a < h /\ ~m[a].inUse => m[a].len < size
      BY DEF Seen, Passed, F
    <2> QED BY <1>1, <2>1, <2>2 DEF Passed
  <1>5. ASSUME NEW a \in DOMAIN mem, a < n PROVE ~FreeStretch(a, n)
    BY <1>1, <1>5 DEF FreeStretch
  <1>6. NoRoom(F, n, size)
    <2> SUFFICES ASSUME NEW a \in DOMAIN mem, NEW e \in DOMAIN mem \cup {LastBlk},
                        F <= a, e <= n, FreeStretch(a, e)
                 PROVE  e - a < size
      BY DEF NoRoom
    <2>1. CASE e <= h
      BY <2>1 DEF Seen, NoRoom, F
    <2>2. CASE e = n /\ n <= a
      BY <1>1, <1>2, <2>2
    <2> QED BY <1>1, <1>5, <2>1, <2>2
  <1> QED BY <1>3, <1>4, <1>5, <1>6 DEF Seen, n, F

\* A free block that is too small begins a stretch.
LEMMA SeenFree ==
  ASSUME IInv, NEW m, NEW h \in DOMAIN mem, NEW prev, NEW size \in Nat, size > Hdr,
         Merged(m), Seen(m, h, FALSE, prev, size), ~mem[h].inUse, mem[h].len < size
  PROVE  Seen(m, h + mem[h].len, TRUE, h, size)
  <1> DEFINE n == h + mem[h].len
             F == FirstBlk(size)
  <1>1. /\ h \in Nat /\ n \in Nat /\ h < n /\ n \in DOMAIN mem \cup {LastBlk}
        /\ n - h < size
        /\ \A a \in DOMAIN mem : a \in Nat /\ (a < n => a <= h)
        /\ \A e \in DOMAIN mem \cup {LastBlk} : e \in Nat /\ (e < n => e <= h)
    BY NextHeader DEF IInv
  <1>2. F \in Nat /\ Hdr \in Nat
    BY FirstIsHeader, ConstantFacts
  <1>3. h \in DOMAIN m /\ m[h] = mem[h] /\ F <= h
    BY <1>1 DEF Seen
  <1>4. /\ ~m[h].inUse /\ h + m[h].len = n /\ m[h].len < size
    BY <1>3
  <1> HIDE DEF n, F
  <1>5. F <= n /\ \A a \in DOMAIN mem : n <= a => a \in DOMAIN m /\ m[a] = mem[a]
    BY <1>1, <1>2 DEF Seen, F
  <1>6. Passed(m, F, n, size)
    <2>1. \A a \in DOMAIN m : a \in DOMAIN mem
      BY DEF Merged
    <2>2. \A a \in DOMAIN m : F <= a /\ a < h /\ ~m[a].inUse => m[a].len < size
      BY DEF Seen, Passed, F
    <2> QED BY <1>1, <1>4, <2>1, <2>2 DEF Passed
  <1>7. ASSUME NEW a \in DOMAIN mem, F <= a, a < n, FreeStretch(a, n) PROVE a = h
    <2>1. a <= h
      BY <1>1, <1>7
    <2>2. ASSUME a < h PROVE FALSE
      <3>1. FreeStretch(a, h)
        BY <1>1, <1>7 DEF FreeStretch
      <3> QED BY <1>7, <2>2, <3>1 DEF Seen, F
    <2> QED BY <1>1, <2>1, <2>2
  <1>8. NoRoom(F, n, size)
    <2> SUFFICES ASSUME NEW a \in DOMAIN mem, NEW e \in DOMAIN mem \cup {LastBlk},
                        F <= a, e <= n, FreeStretch(a, e)
                 PROVE  e - a < size
      BY DEF NoRoom
    <2>1. CASE e <= h
      BY <2>1 DEF Seen, NoRoom, F
    <2>2. CASE e = n /\ n <= a
      BY <1>1, <1>2, <2>2
    <2>3. CASE e = n /\ a < n
      BY <1>1, <1>7, <2>3
    <2> QED BY <1>1, <2>1, <2>2, <2>3
  <1>9. \A a \in DOMAIN mem : F <= a /\ a < n /\ FreeStretch(a, n) => TRUE /\ h <= a
    BY <1>1, <1>7
  <1>10. h \in DOMAIN m /\ F <= h /\ ~m[h].inUse /\ h + m[h].len = n
    BY <1>3, <1>4 DEF F
  <1> QED BY <1>5, <1>6, <1>8, <1>9, <1>10 DEF Seen, n, F

\* Merging keeps the blocks in use.
LEMMA MergedAgain ==
  ASSUME IInv, NEW m, NEW p \in DOMAIN m, NEW h \in DOMAIN m,
         Merged(m), ~m[p].inUse, ~m[h].inUse, p + m[p].len = h
  PROVE  Merged(MergeAt(m, p, h))
  <1> DEFINE t == MergeAt(m, p, h)
  <1>1. /\ IsHeap(t) /\ DOMAIN t = DOMAIN m \ {h} /\ p \in DOMAIN m \ {h}
        /\ ~t[p].inUse /\ \A a \in DOMAIN m \ {h} : a # p => t[a] = m[a]
    <2>1. IsHeap(m)
      BY DEF Merged
    <2> HIDE DEF t
    <2> QED BY <2>1, MergeIsHeap DEF t
  <1> HIDE DEF t
  <1>2. /\ DOMAIN m \subseteq DOMAIN mem
        /\ \A a \in DOMAIN mem : mem[a].inUse => a \in DOMAIN m /\ m[a] = mem[a]
        /\ \A a \in DOMAIN m : m[a].inUse <=> mem[a].inUse
    BY DEF Merged
  <1>3. ASSUME NEW a \in DOMAIN mem, mem[a].inUse
        PROVE  a \in DOMAIN t /\ t[a] = mem[a]
    <2>1. a \in DOMAIN m /\ m[a] = mem[a] /\ a # p /\ a # h
      BY <1>2, <1>3
    <2> QED BY <1>1, <2>1
  <1>4. ASSUME NEW a \in DOMAIN t
        PROVE  t[a].inUse <=> mem[a].inUse
    <2>1. CASE a = p
      BY <1>1, <1>2, <2>1
    <2>2. CASE a # p
      <3>1. a \in DOMAIN m /\ t[a] = m[a]
        BY <1>1, <2>2
      <3> QED BY <1>2, <3>1
    <2> QED BY <2>1, <2>2
  <1>5. h # ff1
    <2>1. IsHeap(m)
      BY DEF Merged
    <2>2. p \in Nat /\ h \in Nat /\ p < h
      BY <2>1, HeapFacts
    <2>3. p \in DOMAIN mem /\ ~mem[p].inUse
      BY <1>2
    <2>4. ff1 <= p
      BY <2>3 DEF IInv, NothingIsLost
    <2>5. ff1 \in Nat
      BY HeapFacts, ConstantFacts DEF IInv
    <2> QED BY <2>2, <2>4, <2>5
  <1>6. ff1 \in DOMAIN t \cup {LastBlk}
    BY <1>1, <1>5 DEF Merged
  <1>7. DOMAIN t \subseteq DOMAIN mem
    BY <1>1, <1>2
  <1>8. IsHeap(t)
    BY <1>1
  <1>9. Merged(t)
    BY <1>3, <1>4, <1>6, <1>7, <1>8 DEF Merged
  <1> QED BY <1>9 DEF t

\* A free block is merged into the stretch that ends at it.
LEMMA SeenMerged ==
  ASSUME IInv, NEW m, NEW h \in DOMAIN mem, NEW prev, NEW size \in Nat, size > Hdr,
         Merged(m), Seen(m, h, TRUE, prev, size), ~mem[h].inUse
  PROVE  /\ h \in DOMAIN m /\ prev \in DOMAIN m
         /\ Merged(MergeAt(m, prev, h))
         /\ prev \in DOMAIN MergeAt(m, prev, h) /\ FirstBlk(size) <= prev
         /\ ~MergeAt(m, prev, h)[prev].inUse
         /\ Passed(MergeAt(m, prev, h), FirstBlk(size), prev, size)
         /\ MergeAt(m, prev, h)[prev].len < size =>
              Seen(MergeAt(m, prev, h), h + mem[h].len, TRUE, prev, size)
  <1> DEFINE n == h + mem[h].len
             F == FirstBlk(size)
             t == MergeAt(m, prev, h)
  <1>1. /\ h \in Nat /\ n \in Nat /\ h < n /\ n \in DOMAIN mem \cup {LastBlk}
        /\ \A a \in DOMAIN mem : a \in Nat /\ (a < n => a <= h)
        /\ \A e \in DOMAIN mem \cup {LastBlk} : e \in Nat /\ (e < n => e <= h)
    BY NextHeader DEF IInv
  <1>2. F \in Nat /\ Hdr \in Nat
    BY FirstIsHeader, ConstantFacts
  <1>3. h \in DOMAIN m /\ m[h] = mem[h]
    BY <1>1 DEF Seen
  <1>4. /\ prev \in DOMAIN m /\ F <= prev /\ ~m[prev].inUse /\ prev + m[prev].len = h
        /\ ~m[h].inUse
    BY <1>3 DEF Seen
  <1>5. \A a \in DOMAIN m : a \in DOMAIN mem
    BY DEF Merged
  <1>6. Merged(t)
    BY <1>3, <1>4, MergedAgain
  <1>7. /\ DOMAIN t = DOMAIN m \ {h} /\ prev \in DOMAIN m \ {h} /\ prev < h
        /\ t[prev].len = m[prev].len + m[h].len /\ ~t[prev].inUse
        /\ \A a \in DOMAIN m \ {h} : a # prev => t[a] = m[a]
    <2>1. IsHeap(m)
      BY DEF Merged
    <2>2. prev \in DOMAIN m /\ h \in DOMAIN m
      BY <1>3, <1>4
    <2>3. ~m[prev].inUse /\ ~m[h].inUse /\ prev + m[prev].len = h
      BY <1>4
    <2> HIDE DEF t, n, F
    <2> QED BY <2>1, <2>2, <2>3, MergeIsHeap DEF t
  <1>8. prev \in Nat /\ m[prev].len \in Nat /\ m[h].len \in Nat /\ n = h + m[h].len
    BY <1>3, <1>4, HeapFacts DEF Merged
  <1>9. prev + t[prev].len = n
    BY <1>1, <1>4, <1>7, <1>8
  <1>10. \A a \in DOMAIN m : F <= a /\ a < h /\ ~m[a].inUse => m[a].len < size
    BY DEF Seen, Passed
  <1> HIDE DEF t, n, F
  <1>11. Passed(t, F, prev, size)
    BY <1>1, <1>5, <1>7, <1>8, <1>10 DEF Passed
  <1>12. ASSUME t[prev].len < size
         PROVE  Seen(t, n, TRUE, prev, size)
    <2>1. F <= n
      BY <1>1, <1>2, <1>4, <1>7, <1>8
    <2>2. ASSUME NEW a \in DOMAIN mem, n <= a
          PROVE  a \in DOMAIN t /\ t[a] = mem[a]
      <3>1. h <= a /\ a # h /\ a # prev
        BY <1>1, <1>7, <1>8, <2>2
      <3>2. a \in DOMAIN m /\ m[a] = mem[a]
        BY <3>1 DEF Seen
      <3> QED BY <1>7, <3>1, <3>2
    <2>3. Passed(t, F, n, size)
      <3> SUFFICES ASSUME NEW a \in DOMAIN t, F <= a, a < n, ~t[a].inUse
                   PROVE  t[a].len < size
        BY DEF Passed
      <3>1. a \in DOMAIN m /\ a \in DOMAIN mem /\ a # h
        BY <1>5, <1>7
      <3>2. CASE a = prev
        BY <1>12, <3>2
      <3>3. CASE a # prev
        <4>1. t[a] = m[a]
          BY <1>7, <3>1, <3>3
        <4>2. a < h
          BY <1>1, <3>1
        <4> QED BY <1>10, <3>1, <4>1, <4>2
      <3> QED BY <3>2, <3>3
    <2>4. ASSUME NEW a \in DOMAIN mem, F <= a, a < n, FreeStretch(a, n)
          PROVE  prev <= a
      <3>1. a <= h
        BY <1>1, <2>4
      <3>2. CASE a = h
        BY <1>1, <1>7, <1>8, <3>2
      <3>3. CASE a < h
        <4>1. FreeStretch(a, h)
          BY <1>1, <2>4 DEF FreeStretch
        <4> QED BY <2>4, <3>3, <4>1 DEF Seen, F
      <3> QED BY <1>1, <3>1, <3>2, <3>3
    <2>5. NoRoom(F, n, size)
      <3> SUFFICES ASSUME NEW a \in DOMAIN mem, NEW e \in DOMAIN mem \cup {LastBlk},
                          F <= a, e <= n, FreeStretch(a, e)
                   PROVE  e - a < size
        BY DEF NoRoom
      <3>1. CASE e <= h
        BY <3>1 DEF Seen, NoRoom, F
      <3>2. CASE e = n /\ n <= a
        BY <1>1, <1>2, <3>2
      <3>3. CASE e = n /\ a < n
        <4>1. prev <= a /\ a \in Nat
          BY <1>1, <2>4, <3>3
        <4>2. n - prev < size
          <5>1. n - prev = t[prev].len
            BY <1>1, <1>7, <1>8, <1>9
          <5> QED BY <1>12, <5>1
        <4> QED BY <1>1, <1>8, <3>3, <4>1, <4>2
      <3> QED BY <1>1, <3>1, <3>2, <3>3
    <2>6. prev \in DOMAIN t /\ F <= prev /\ ~t[prev].inUse /\ prev + t[prev].len = n
      BY <1>4, <1>7, <1>9
    <2> QED BY <2>1, <2>2, <2>3, <2>4, <2>5, <2>6 DEF Seen, F
  <1>13. h \in DOMAIN m /\ prev \in DOMAIN m /\ prev \in DOMAIN t /\ F <= prev
    BY <1>3, <1>4, <1>7
  <1>14. ~t[prev].inUse
    BY <1>7
  <1> QED BY <1>6, <1>11, <1>12, <1>13, <1>14 DEF t, n, F

\* A step of the walk moves on, or stops at a block that is long enough.
LEMMA WalkMoves ==
  ASSUME IInv, NEW size \in Nat, size > Hdr, NEW w, NEW k \in Nat,
         Walking(w, size, k), ~w.done
  PROVE  Walking(WalkStep(w, size), size, k + 1)
  <1> DEFINE h == w.hdr
             m == w.mem
             F == FirstBlk(size)
  <1>1. /\ Merged(m) /\ w.coal \in BOOLEAN
        /\ h \in DOMAIN mem /\ Seen(m, h, w.coal, w.prev, size)
    BY DEF Walking, Standing
  <1>2. /\ h \in Nat /\ mem[h].len \in Nat /\ mem[h].len > 0
        /\ h + mem[h].len \in DOMAIN mem \cup {LastBlk}
    BY <1>1, NextHeader DEF IInv
  <1>3. h \in DOMAIN m /\ m[h] = mem[h] /\ F <= h
    BY <1>1, <1>2 DEF Seen
  <1>4. k + 1 <= h + m[h].len /\ h + m[h].len \in DOMAIN mem \cup {LastBlk}
    <2>1. k <= h
      BY DEF Walking
    <2> QED BY <1>2, <1>3, <2>1
  <1>5. CASE m[h].inUse
    <2>1. WalkStep(w, size) = Onward(w, m, FALSE, w.prev)
      BY <1>5 DEF WalkStep
    <2>2. Seen(m, h + m[h].len, FALSE, w.prev, size)
      BY <1>1, <1>3, <1>5, SeenInUse
    <2>3. Walking(Onward(w, m, FALSE, w.prev), size, k + 1)
      BY <1>1, <1>4, <2>2, OnwardWalks, Zenon
    <2> QED BY <2>1, <2>3
  <1>6. CASE ~m[h].inUse /\ w.coal
    <2> DEFINE t == MergeAt(m, w.prev, h)
    <2>1. Merge(w) = t
      BY DEF Merge, MergeAt
    <2>2. Seen(m, h, TRUE, w.prev, size)
      BY <1>1, <1>6
    <2>3. /\ Merged(t) /\ w.prev \in DOMAIN t /\ F <= w.prev /\ ~t[w.prev].inUse
          /\ Passed(t, F, w.prev, size)
          /\ t[w.prev].len < size => Seen(t, h + m[h].len, TRUE, w.prev, size)
      BY <1>1, <1>3, <1>6, <2>2, SeenMerged
    <2> HIDE DEF t
    <2>4. CASE t[w.prev].len >= size
      <3>1. WalkStep(w, size) = Found(w, t, w.prev)
        BY <1>6, <2>1, <2>4 DEF WalkStep
      <3> QED BY <1>1, <2>3, <2>4, <3>1, FoundWalks
    <2>5. CASE ~(t[w.prev].len >= size)
      <3>1. WalkStep(w, size) = Onward(w, t, TRUE, w.prev)
        BY <1>6, <2>1, <2>5 DEF WalkStep
      <3>2. t[w.prev].len < size
        <4>1. t[w.prev].len \in Nat
          BY <2>3, HeapFacts DEF Merged
        <4> QED BY <2>5, <4>1
      <3>3. Seen(t, h + m[h].len, TRUE, w.prev, size) /\ Merged(t)
        BY <2>3, <3>2
      <3>4. Walking(Onward(w, t, TRUE, w.prev), size, k + 1)
        BY <1>4, <3>3, OnwardWalks, Zenon
      <3> QED BY <3>1, <3>4
    <2> QED BY <2>4, <2>5
  <1>7. CASE ~m[h].inUse /\ ~w.coal
    <2>1. CASE m[h].len >= size
      <3>1. WalkStep(w, size) = Found(w, m, h)
        BY <1>7, <2>1 DEF WalkStep
      <3>2. Passed(m, F, h, size)
        BY <1>1 DEF Seen
      <3> QED BY <1>1, <1>3, <1>7, <2>1, <3>1, <3>2, FoundWalks
    <2>2. CASE ~(m[h].len >= size)
      <3>1. WalkStep(w, size) = Onward(w, m, TRUE, h)
        BY <1>7, <2>2 DEF WalkStep
      <3>2. mem[h].len < size /\ ~mem[h].inUse
        BY <1>2, <1>3, <1>7, <2>2
      <3>3. Seen(m, h, FALSE, w.prev, size)
        BY <1>1, <1>7
      <3>4. Seen(m, h + m[h].len, TRUE, h, size)
        BY <1>1, <1>3, <3>2, <3>3, SeenFree
      <3>5. Walking(Onward(w, m, TRUE, h), size, k + 1)
        BY <1>1, <1>4, <3>4, OnwardWalks, Zenon
      <3> QED BY <3>1, <3>5
    <2> QED BY <2>1, <2>2
  <1> QED BY <1>5, <1>6, <1>7

-----------------------------------------------------------------------------
(* The whole walk.                                                         *)

LessNat == {ss \in Nat \X Nat : ss[1] < ss[2]}

LEMMA SetInduction ==
    ASSUME NEW S, 0 \in S, \A n \in Nat : n \in S => n + 1 \in S
    PROVE  Nat \subseteq S
  <1>1. SUFFICES ASSUME Nat \ S # {} PROVE FALSE
    OBVIOUS
  <1>2. IsWellFoundedOn(LessNat, Nat)
    BY NatLessThanWellFounded DEF OpToRel, LessNat
  <1>3. PICK m \in Nat \ S : \A k \in Nat \ S : ~(<<k, m>> \in LessNat)
    BY <1>1, <1>2, WFMin
  <1>4. m - 1 \in Nat /\ <<m - 1, m>> \in LessNat /\ (m - 1) + 1 = m
    BY <1>3 DEF LessNat
  <1>5. m - 1 \in S
    BY <1>3, <1>4
  <1> QED BY <1>3, <1>4, <1>5

\* WalkUpTo satisfies the equation that defines it.
LEMMA WalkEquation ==
  ASSUME NEW size
  PROVE  /\ WalkUpTo(size)[0] = Start(size)
         /\ \A n \in 1 .. LastBlk :
              WalkUpTo(size)[n] = IF WalkUpTo(size)[n - 1].done THEN WalkUpTo(size)[n - 1]
                                  ELSE WalkStep(WalkUpTo(size)[n - 1], size)
  <1> DEFINE After(p) == IF p.done THEN p ELSE WalkStep(p, size)
             Eq(L, f) == f = [n \in 0 .. L |-> IF n = 0 THEN Start(size) ELSE After(f[n - 1])]
             S == {L \in Nat : \E f : Eq(L, f)}
  <1>1. 0 \in S
    <2>1. Eq(0, [n \in 0 .. 0 |-> Start(size)])
      OBVIOUS
    <2> HIDE DEF Eq
    <2> QED BY <2>1
  <1>2. ASSUME NEW L \in Nat, L \in S
        PROVE  L + 1 \in S
    <2>1. PICK f : Eq(L, f)
      BY <1>2
    <2> HIDE DEF After
    <2> DEFINE g == [n \in 0 .. L + 1 |-> IF n <= L THEN f[n] ELSE After(f[L])]
    <2>2. \A n \in 0 .. L + 1 : g[n] = IF n = 0 THEN Start(size) ELSE After(g[n - 1])
      <3>1. TAKE n \in 0 .. L + 1
      <3>2. CASE n = 0
        BY <2>1, <3>2
      <3>3. CASE n # 0 /\ n <= L
        <4>1. n \in 0 .. L /\ n - 1 \in 0 .. L + 1 /\ n - 1 <= L
          BY <3>3
        <4>2. f[n] = After(f[n - 1])
          BY <2>1, <3>3, <4>1
        <4>3. g[n] = f[n] /\ g[n - 1] = f[n - 1]
          BY <3>3, <4>1
        <4> QED BY <3>3, <4>2, <4>3
      <3>4. CASE n = L + 1
        <4>1. g[n] = After(f[L]) /\ g[n - 1] = f[L] /\ n # 0
          BY <3>4
        <4> QED BY <3>4, <4>1
      <3> QED BY <3>2, <3>3, <3>4
    <2>3. Eq(L + 1, g)
      BY <2>2
    <2>4. L + 1 \in Nat
      OBVIOUS
    <2> HIDE DEF Eq, g
    <2> QED BY <2>3, <2>4
  <1>3. LastBlk \in S
    <2> HIDE DEF S
    <2> QED BY <1>1, <1>2, SetInduction, ConstantFacts
  <1>4. \E f : Eq(LastBlk, f)
    BY <1>3
  <1>5. WalkUpTo(size) = CHOOSE f : Eq(LastBlk, f)
    BY DEF WalkUpTo
  <1>6. Eq(LastBlk, WalkUpTo(size))
    <2> HIDE DEF Eq
    <2> QED BY <1>4, <1>5
  <1> DEFINE F == WalkUpTo(size)
  <1> HIDE DEF After
  <1>7. F = [n \in 0 .. LastBlk |-> IF n = 0 THEN Start(size) ELSE After(F[n - 1])]
    BY <1>6
  <1> HIDE DEF F
  <1>8. F[0] = Start(size)
    <2>1. 0 \in 0 .. LastBlk
      BY ConstantFacts
    <2> QED BY <1>7, <2>1
  <1>9. ASSUME NEW n \in 1 .. LastBlk
        PROVE  F[n] = After(F[n - 1])
    <2>1. n \in 0 .. LastBlk /\ n # 0
      BY ConstantFacts
    <2> QED BY <1>7, <2>1
  <1> QED BY <1>8, <1>9 DEF F, After

LEMMA WalkStarts ==
  ASSUME IInv, NEW size \in Nat, size > Hdr
  PROVE  Walking(Start(size), size, 0)
  <1> DEFINE a == FirstBlk(size)
             w == Start(size)
  <1>1. w = [mem |-> mem, hdr |-> IF a = LastBlk THEN NULL ELSE a, done |-> a = LastBlk,
             coal |-> FALSE, prev |-> NULL]
    BY DEF Start
  <1>2. /\ a \in DOMAIN mem \cup {LastBlk} /\ a \in Nat /\ Hdr \in Nat
        /\ \A b \in DOMAIN mem \cup {LastBlk} : b \in Nat
    BY FirstIsHeader, HeapFacts, ConstantFacts DEF IInv
  <1>3. Merged(mem)
    BY DEF Merged, IInv
  <1>4. NoRoom(a, a, size)
    <2> SUFFICES ASSUME NEW b \in DOMAIN mem, NEW e \in DOMAIN mem \cup {LastBlk},
                        a <= b, e <= a
                 PROVE  e - b < size
      BY DEF NoRoom
    <2> HIDE DEF a
    <2> QED BY <1>2
  <1>5. Seen(mem, a, FALSE, NULL, size)
    <2>1. Passed(mem, a, a, size)
      BY <1>2 DEF Passed, Merged
    <2>2. \A b \in DOMAIN mem : ~(a <= b /\ b < a)
      BY <1>2
    <2>3. a <= a
      BY <1>2
    <2> QED BY <1>4, <2>1, <2>2, <2>3 DEF Seen
  <1> HIDE DEF a, w
  <1>6. CASE a = LastBlk
    <2>1. w.mem = mem /\ w.hdr = NULL /\ w.done = TRUE /\ w.coal = FALSE
      BY <1>1, <1>6
    <2>2. NoRoom(FirstBlk(size), LastBlk, size)
      BY <1>4, <1>6 DEF a
    <2>3. Walking(w, size, 0)
      BY <1>3, <2>1, <2>2 DEF Walking
    <2> QED BY <2>3 DEF w
  <1>7. CASE a # LastBlk
    <2>1. w.mem = mem /\ w.hdr = a /\ w.done = FALSE /\ w.coal = FALSE /\ w.prev = NULL
      BY <1>1, <1>7
    <2>2. a \in DOMAIN mem /\ 0 <= a
      BY <1>2, <1>7
    <2>3. Standing(w, size)
      BY <1>5, <2>1, <2>2 DEF Standing
    <2>4. Walking(w, size, 0)
      BY <1>3, <2>1, <2>2, <2>3 DEF Walking
    <2> QED BY <2>4 DEF w
  <1> QED BY <1>6, <1>7

\* The walk ends, at a block that is long enough or having seen that there is none.
LEMMA WalkEnds ==
  ASSUME IInv, NEW size \in Nat, size > Hdr
  PROVE  /\ Merged(Walk(size).mem)
         /\ Walk(size).hdr # NULL => Ended(Walk(size), size)
         /\ Walk(size).hdr = NULL => NoRoom(FirstBlk(size), LastBlk, size)
  <1> DEFINE U == WalkUpTo(size)
             S == {n \in Nat : n <= LastBlk => Walking(U[n], size, n)}
  <1>1. 0 \in S
    BY WalkStarts, WalkEquation
  <1>2. ASSUME NEW n \in Nat, n \in S
        PROVE  n + 1 \in S
    <2>1. SUFFICES ASSUME n + 1 <= LastBlk PROVE Walking(U[n + 1], size, n + 1)
      OBVIOUS
    <2>2. n + 1 \in 1 .. LastBlk /\ (n + 1) - 1 = n /\ n <= LastBlk
      BY <2>1, ConstantFacts
    <2>3. Walking(U[n], size, n)
      BY <1>2, <2>2
    <2>4. U[n + 1] = IF U[n].done THEN U[n] ELSE WalkStep(U[n], size)
      BY <2>2, WalkEquation
    <2> HIDE DEF U
    <2>5. CASE U[n].done
      <3>1. U[n + 1] = U[n]
        BY <2>4, <2>5
      <3>2. Walking(U[n], size, n + 1)
        BY <2>3, <2>5 DEF Walking
      <3> QED BY <3>1, <3>2
    <2>6. CASE ~U[n].done
      <3>1. U[n + 1] = WalkStep(U[n], size)
        BY <2>4, <2>6
      <3> QED BY <2>3, <2>6, <3>1, WalkMoves
    <2> QED BY <2>5, <2>6
  <1>3. Nat \subseteq S
    <2> HIDE DEF S
    <2> QED BY <1>1, <1>2, SetInduction
  <1>4. Walking(U[LastBlk], size, LastBlk)
    BY <1>3, ConstantFacts
  <1> DEFINE w == Walk(size)
  <1>5. Walking(w, size, LastBlk)
    BY <1>4 DEF Walk
  <1> HIDE DEF w
  <1>6. w.done
    <2> SUFFICES ASSUME ~w.done PROVE FALSE
      OBVIOUS
    <2>1. w.hdr \in DOMAIN mem /\ LastBlk <= w.hdr
      BY <1>5 DEF Walking, Standing
    <2> QED BY <2>1, HeapFacts, ConstantFacts DEF IInv
  <1>7. /\ Merged(w.mem)
        /\ w.hdr # NULL => Ended(w, size)
        /\ w.hdr = NULL => NoRoom(FirstBlk(size), LastBlk, size)
    BY <1>5, <1>6 DEF Walking
  <1> QED BY <1>7 DEF w

-----------------------------------------------------------------------------
(* The calls.                                                              *)

\* What an allocation that succeeds does to the heap.
LEMMA TakeFacts ==
  ASSUME IInv, NEW size \in Nat, size > Hdr, NEW a, a = Walk(size).hdr, a # NULL,
         NEW t, t = Take(Walk(size).mem, a, size)
  PROVE  /\ IsHeap(t) /\ a \in DOMAIN t /\ a \in Nat /\ a # Bucket
         /\ t[a].inUse /\ t[a].len >= size
         /\ a \in DOMAIN mem /\ ~mem[a].inUse
         /\ ff1 \in DOMAIN t \cup {LastBlk}
         /\ \A b \in DOMAIN mem : mem[b].inUse => b \in DOMAIN t /\ t[b] = mem[b] /\ b # a
         /\ \A b \in DOMAIN t : b # a =>
              (t[b].inUse <=> b \in DOMAIN mem /\ mem[b].inUse)
         /\ \A b \in DOMAIN t : ~t[b].inUse =>
              /\ b # a /\ ff1 <= b
              /\ FirstBlk(size) <= b /\ b < a => t[b].len < size
  <1> DEFINE m == Walk(size).mem
  <1>1. Merged(m) /\ Ended(Walk(size), size)
    BY WalkEnds
  <1>2. /\ a \in DOMAIN m /\ FirstBlk(size) <= a /\ ~m[a].inUse /\ m[a].len >= size
        /\ Passed(m, FirstBlk(size), a, size)
    BY <1>1 DEF Ended
  <1> HIDE DEF m
  <1>3. IsHeap(m) /\ a \in Nat /\ a # Bucket
    BY <1>1, <1>2, HeapFacts DEF Merged
  <1>4. /\ IsHeap(t) /\ DOMAIN m \subseteq DOMAIN t
        /\ t[a].inUse /\ t[a].len >= size
        /\ \A b \in DOMAIN m : b # a => t[b] = m[b]
        /\ \A b \in DOMAIN t : b \notin DOMAIN m => b > a /\ ~t[b].inUse
    BY <1>2, <1>3, TakeIsHeap DEF m
  <1>5. /\ DOMAIN m \subseteq DOMAIN mem
        /\ \A b \in DOMAIN mem : mem[b].inUse => b \in DOMAIN m /\ m[b] = mem[b]
        /\ \A b \in DOMAIN m : m[b].inUse <=> mem[b].inUse
        /\ ff1 \in DOMAIN m \cup {LastBlk}
    BY <1>1 DEF Merged
  <1>6. a \in DOMAIN mem /\ ~mem[a].inUse
    BY <1>2, <1>5
  <1>7. ff1 <= a /\ ff1 \in Nat
    BY <1>6, HeapFacts, ConstantFacts DEF IInv, NothingIsLost
  <1>8. ASSUME NEW b \in DOMAIN mem, mem[b].inUse
        PROVE  b \in DOMAIN t /\ t[b] = mem[b] /\ b # a
    <2>1. b # a
      BY <1>6, <1>8
    <2>2. b \in DOMAIN m /\ m[b] = mem[b]
      BY <1>5, <1>8
    <2> QED BY <1>4, <2>1, <2>2
  <1>9. ASSUME NEW b \in DOMAIN t, b # a
        PROVE  t[b].inUse <=> b \in DOMAIN mem /\ mem[b].inUse
    <2>1. CASE b \in DOMAIN m
      <3>1. t[b] = m[b] /\ b \in DOMAIN mem
        BY <1>4, <1>5, <1>9, <2>1
      <3> QED BY <1>5, <2>1, <3>1
    <2>2. CASE b \notin DOMAIN m
      <3>1. ~t[b].inUse
        BY <1>4, <2>2
      <3>2. ~(b \in DOMAIN mem /\ mem[b].inUse)
        BY <1>5, <2>2
      <3> QED BY <3>1, <3>2
    <2> QED BY <2>1, <2>2
  <1>10. ASSUME NEW b \in DOMAIN t, ~t[b].inUse
         PROVE  /\ b # a /\ ff1 <= b
                /\ FirstBlk(size) <= b /\ b < a => t[b].len < size
    <2>1. b # a
      BY <1>4, <1>10
    <2>2. CASE b \in DOMAIN m
      <3>1. t[b] = m[b] /\ b \in DOMAIN mem
        BY <1>4, <1>5, <2>1, <2>2
      <3>2. ~m[b].inUse /\ ~mem[b].inUse
        BY <1>5, <1>10, <2>2, <3>1
      <3>3. ff1 <= b
        BY <3>1, <3>2 DEF IInv, NothingIsLost
      <3>4. FirstBlk(size) <= b /\ b < a => m[b].len < size
        BY <1>2, <2>2, <3>2 DEF Passed
      <3> QED BY <2>1, <3>1, <3>3, <3>4
    <2>3. CASE b \notin DOMAIN m
      <3>1. b > a /\ b \in Nat
        BY <1>4, <2>3, HeapFacts
      <3> QED BY <1>3, <1>7, <2>1, <3>1
    <2> QED BY <2>2, <2>3
  <1>11. a \in DOMAIN t /\ ff1 \in DOMAIN t \cup {LastBlk}
    BY <1>2, <1>4, <1>5
  <1> QED BY <1>3, <1>4, <1>6, <1>8, <1>9, <1>10, <1>11

\* Which call it was.
LEMMA SizeFacts ==
  ASSUME NEW n \in Sizes
  PROVE  n \in Nat \ {0} /\ n + Hdr \in Nat /\ n + Hdr > Hdr
BY HeapAssumption

LEMMA AllocKeeps ==
  ASSUME IInv, NEW n \in Sizes, osal_mem_alloc(n)
  PROVE  IInv'
  <1> DEFINE size == n + Hdr
             w == Walk(size)
             a == w.hdr
             t == Take(w.mem, a, size)
  <1>1. n \in Nat \ {0} /\ size \in Nat /\ size > Hdr
    BY SizeFacts
  <1>2. CASE a # NULL
    <2>1. /\ mem' = t /\ ff1' = ff1After(t, a) /\ osalMemStat' = osalMemStat
          /\ asked' = [b \in DOMAIN asked \cup {a} |-> IF b = a THEN n ELSE asked[b]]
      BY <1>2 DEF osal_mem_alloc
    <2>2. /\ IsHeap(t) /\ a \in DOMAIN t /\ a \in Nat /\ a # Bucket
          /\ t[a].inUse /\ t[a].len >= size
          /\ a \in DOMAIN mem /\ ~mem[a].inUse
          /\ ff1 \in DOMAIN t \cup {LastBlk}
          /\ \A b \in DOMAIN mem : mem[b].inUse => b \in DOMAIN t /\ t[b] = mem[b] /\ b # a
          /\ \A b \in DOMAIN t : b # a =>
               (t[b].inUse <=> b \in DOMAIN mem /\ mem[b].inUse)
          /\ \A b \in DOMAIN t : ~t[b].inUse => b # a /\ ff1 <= b
      BY <1>1, <1>2, TakeFacts
    <2> HIDE DEF w, t, a
    <2>3. IsHeap(mem')
      BY <2>1, <2>2
    <2>4. /\ a + t[a].len \in DOMAIN t \cup {LastBlk}
          /\ \A b \in DOMAIN t : b \in Nat /\ (a < b => a + t[a].len <= b)
      BY <2>2, HeapFacts
    <2>5. ff1' \in DOMAIN t \cup {LastBlk}
      BY <2>1, <2>2, <2>4 DEF ff1After
    <2>6. ASSUME NEW b \in DOMAIN t, ~t[b].inUse
          PROVE  ff1' <= b
      <3>1. b # a /\ ff1 <= b
        BY <2>2, <2>6
      <3>2. CASE ff1 = a
        <4>1. a + t[a].len <= b
          BY <2>2, <2>4, <3>1, <3>2
        <4> QED BY <2>1, <3>1, <4>1 DEF ff1After
      <3>3. CASE ff1 # a
        BY <2>1, <3>1, <3>3 DEF ff1After
      <3> QED BY <3>2, <3>3
    <2>7. osalMemStat' \in BOOLEAN /\ (~osalMemStat' => ff1' = 0)
      BY <2>1 DEF IInv, ff1After
    <2>8. ASSUME NEW b \in DOMAIN asked'
          PROVE  /\ b \in DOMAIN t /\ b # Bucket /\ t[b].inUse
                 /\ asked'[b] \in Nat \ {0} /\ asked'[b] + Hdr <= t[b].len
      <3>1. CASE b = a
        <4>1. asked'[b] = n
          BY <2>1, <3>1
        <4>2. asked'[b] + Hdr <= t[b].len
          BY <2>2, <3>1, <4>1
        <4> QED BY <1>1, <2>2, <3>1, <4>1, <4>2
      <3>2. CASE b # a
        <4>1. b \in DOMAIN asked /\ asked'[b] = asked[b]
          BY <2>1, <3>2
        <4>2. /\ b \in DOMAIN mem /\ b # Bucket /\ mem[b].inUse
              /\ asked[b] \in Nat \ {0} /\ asked[b] + Hdr <= mem[b].len
          BY <4>1 DEF IInv, Owned
        <4>3. b \in DOMAIN t /\ t[b] = mem[b]
          BY <2>2, <4>2
        <4> QED BY <4>1, <4>2, <4>3
      <3> QED BY <3>1, <3>2
    <2>9. ASSUME NEW b \in DOMAIN t, b # Bucket
          PROVE  t[b].inUse <=> b \in DOMAIN asked'
      <3>1. CASE b = a
        BY <2>1, <2>2, <3>1
      <3>2. CASE b # a
        <4>1. b \in DOMAIN asked' <=> b \in DOMAIN asked
          BY <2>1, <3>2
        <4>2. t[b].inUse <=> b \in DOMAIN mem /\ mem[b].inUse
          BY <2>2, <3>2
        <4>3. b \in DOMAIN mem /\ mem[b].inUse <=> b \in DOMAIN asked
          BY <2>9 DEF IInv, Owned, NothingIsLost
        <4> QED BY <4>1, <4>2, <4>3
      <3> QED BY <3>1, <3>2
    <2>10. Owned'
      BY <2>1, <2>8 DEF Owned
    <2>11. NothingIsLost'
      BY <2>1, <2>6, <2>9 DEF NothingIsLost
    <2> QED BY <2>1, <2>3, <2>5, <2>7, <2>10, <2>11 DEF IInv
  <1>3. CASE a = NULL
    <2>1. mem' = w.mem /\ UNCHANGED <<ff1, osalMemStat, asked>>
      BY <1>3 DEF osal_mem_alloc
    <2>2. Merged(w.mem)
      BY <1>1, WalkEnds
    <2> HIDE DEF w
    <2>3. /\ IsHeap(mem') /\ ff1 \in DOMAIN mem' \cup {LastBlk}
          /\ DOMAIN mem' \subseteq DOMAIN mem
          /\ \A b \in DOMAIN mem : mem[b].inUse => b \in DOMAIN mem' /\ mem'[b] = mem[b]
          /\ \A b \in DOMAIN mem' : mem'[b].inUse <=> mem[b].inUse
      BY <2>1, <2>2 DEF Merged
    <2>4. Owned'
      BY <2>1, <2>3 DEF IInv, Owned
    <2>5. NothingIsLost'
      BY <2>1, <2>3 DEF IInv, NothingIsLost
    <2> QED BY <2>1, <2>3, <2>4, <2>5 DEF IInv
  <1> QED BY <1>2, <1>3

LEMMA FreeKeeps ==
  ASSUME IInv, NEW a \in DOMAIN asked, osal_mem_free(a)
  PROVE  IInv'
  <1>1. /\ mem' = Freed(mem, a) /\ ff1' = (IF ff1 > a THEN a ELSE ff1)
        /\ asked' = [b \in DOMAIN asked \ {a} |-> asked[b]] /\ osalMemStat' = osalMemStat
    BY DEF osal_mem_free, Freed
  <1>2. a \in DOMAIN mem /\ a # Bucket /\ IsHeap(mem)
    BY DEF IInv, Owned
  <1>3. /\ IsHeap(mem') /\ DOMAIN mem' = DOMAIN mem /\ ~mem'[a].inUse
        /\ \A b \in DOMAIN mem : b # a => mem'[b] = mem[b]
    BY <1>1, <1>2, FreedIsHeap
  <1>4. /\ ff1 \in Nat /\ ff1 \in DOMAIN mem \cup {LastBlk} /\ a \in Nat
        /\ \A b \in DOMAIN mem : b \in Nat
    BY <1>2, HeapFacts, ConstantFacts DEF IInv
  <1>5. /\ ff1' \in DOMAIN mem' \cup {LastBlk} /\ ff1' <= ff1 /\ ff1' <= a /\ ff1' \in Nat
        /\ (ff1 = 0 => ff1' = 0)
    BY <1>1, <1>2, <1>3, <1>4
  <1>6. osalMemStat' \in BOOLEAN /\ (~osalMemStat' => ff1' = 0)
    BY <1>1, <1>5 DEF IInv
  <1>7. Owned'
    BY <1>1, <1>3 DEF IInv, Owned
  <1>8. ASSUME NEW b \in DOMAIN mem', ~mem'[b].inUse
        PROVE  ff1' <= b
    <2>1. CASE b = a
      BY <1>5, <2>1
    <2>2. CASE b # a
      <3>1. b \in DOMAIN mem /\ ~mem[b].inUse /\ b \in Nat
        BY <1>3, <1>4, <1>8, <2>2
      <3>2. ff1 <= b
        BY <3>1 DEF IInv, NothingIsLost
      <3> QED BY <1>4, <1>5, <3>1, <3>2
    <2> QED BY <2>1, <2>2
  <1>9. ASSUME NEW b \in DOMAIN mem', b # Bucket
        PROVE  mem'[b].inUse <=> b \in DOMAIN asked'
    BY <1>1, <1>3, <1>9 DEF IInv, NothingIsLost
  <1>10. NothingIsLost'
    BY <1>8, <1>9 DEF NothingIsLost
  <1> QED BY <1>3, <1>5, <1>6, <1>7, <1>10 DEF IInv

\* Before the long-lived blocks are in place every search starts at 0, so the block the
\* kick finds is the first free one: no block is as small as a header.
LEMMA KickKeeps ==
  ASSUME IInv, osal_mem_kick
  PROVE  IInv'
  <1> DEFINE size == 1 + Hdr
             w == Walk(size)
             a == w.hdr
             t == Take(w.mem, a, size)
  <1>1. size \in Nat /\ size > Hdr
    BY ConstantFacts
  <1>2. /\ ~osalMemStat /\ a # NULL
        /\ mem' = Freed(t, a) /\ ff1' = a /\ osalMemStat' = TRUE /\ asked' = asked
    BY DEF osal_mem_kick, Freed
  <1>3. /\ IsHeap(t) /\ a \in DOMAIN t /\ a \in Nat /\ a # Bucket
        /\ a \in DOMAIN mem /\ ~mem[a].inUse
        /\ \A b \in DOMAIN mem : mem[b].inUse => b \in DOMAIN t /\ t[b] = mem[b] /\ b # a
        /\ \A b \in DOMAIN t : b # a =>
             (t[b].inUse <=> b \in DOMAIN mem /\ mem[b].inUse)
        /\ \A b \in DOMAIN t : ~t[b].inUse =>
             b # a /\ (FirstBlk(size) <= b /\ b < a => t[b].len < size)
    BY <1>1, <1>2, TakeFacts
  <1>4. FirstBlk(size) = 0
    BY <1>2, FirstIsHeader
  <1> HIDE DEF w, t, a
  <1>5. /\ IsHeap(mem') /\ DOMAIN mem' = DOMAIN t /\ ~mem'[a].inUse
        /\ \A b \in DOMAIN t : b # a => mem'[b] = t[b]
    BY <1>2, <1>3, FreedIsHeap
  <1>6. ASSUME NEW b \in DOMAIN mem', ~mem'[b].inUse
        PROVE  ff1' <= b
    <2>1. CASE b = a
      BY <1>2, <1>3, <2>1
    <2>2. CASE b # a
      <3>1. b \in DOMAIN t /\ ~t[b].inUse
        BY <1>5, <1>6, <2>2
      <3>2. b \in Nat /\ t[b].len \in Nat /\ (b # Bucket => t[b].len > Hdr) /\ t[Bucket].inUse
        BY <1>3, <3>1, HeapFacts
      <3>3. b < a => t[b].len < size
        BY <1>3, <1>4, <3>1, <3>2
      <3>4. ~(b < a)
        BY <3>1, <3>2, <3>3, ConstantFacts
      <3> QED BY <1>2, <1>3, <3>2, <3>4
    <2> QED BY <2>1, <2>2
  <1>7. Owned'
    <2> SUFFICES ASSUME NEW b \in DOMAIN asked
                 PROVE  /\ b \in DOMAIN mem' /\ b # Bucket /\ mem'[b].inUse
                        /\ asked[b] \in Nat \ {0} /\ asked[b] + Hdr <= mem'[b].len
      BY <1>2 DEF Owned
    <2>1. /\ b \in DOMAIN mem /\ b # Bucket /\ mem[b].inUse
          /\ asked[b] \in Nat \ {0} /\ asked[b] + Hdr <= mem[b].len
      BY DEF IInv, Owned
    <2>2. b \in DOMAIN t /\ t[b] = mem[b] /\ b # a
      BY <1>3, <2>1
    <2>3. mem'[b] = mem[b]
      BY <1>5, <2>2
    <2> QED BY <1>5, <2>1, <2>2, <2>3
  <1>8. ASSUME NEW b \in DOMAIN mem', b # Bucket
        PROVE  mem'[b].inUse <=> b \in DOMAIN asked'
    <2>1. CASE b = a
      <3>1. ~mem'[b].inUse /\ b \notin DOMAIN asked
        BY <1>3, <1>5, <2>1 DEF IInv, Owned
      <3> QED BY <1>2, <3>1
    <2>2. CASE b # a
      <3>1. b \in DOMAIN t /\ mem'[b] = t[b]
        BY <1>5, <2>2
      <3>2. t[b].inUse <=> b \in DOMAIN mem /\ mem[b].inUse
        BY <1>3, <2>2, <3>1
      <3>3. b \in DOMAIN mem /\ mem[b].inUse <=> b \in DOMAIN asked
        BY <1>8 DEF IInv, Owned, NothingIsLost
      <3> QED BY <1>2, <3>1, <3>2, <3>3
    <2> QED BY <2>1, <2>2
  <1>9. NothingIsLost'
    BY <1>6, <1>8 DEF NothingIsLost
  <1>10. ff1' \in DOMAIN mem' \cup {LastBlk} /\ osalMemStat' = TRUE
    BY <1>2, <1>3, <1>5
  <1> QED BY <1>5, <1>7, <1>9, <1>10 DEF IInv

LEMMA InitKeeps ==
  ASSUME Init
  PROVE  IInv
  <1> DEFINE l == LastBlk - BigBlk
  <1>1. /\ Hdr \in Nat /\ Bucket \in Nat /\ BigBlk \in Nat /\ LastBlk \in Nat /\ l \in Nat
        /\ 0 < Bucket /\ Bucket < BigBlk /\ BigBlk < LastBlk /\ Hdr > 0
        /\ Bucket + Hdr = BigBlk /\ BigBlk + l = LastBlk /\ Bucket > Hdr /\ l > Hdr
    BY ConstantFacts
  <1> HIDE DEF l
  <1>2. /\ DOMAIN mem = {0, Bucket, BigBlk}
        /\ mem[0] = Block(Bucket, FALSE) /\ mem[Bucket] = Block(Hdr, TRUE)
        /\ mem[BigBlk] = Block(l, FALSE)
    <2>1. mem = [a \in {0, Bucket, BigBlk} |->
                   CASE a = 0      -> Block(Bucket, FALSE)
                     [] a = Bucket -> Block(Hdr, TRUE)
                     [] a = BigBlk -> Block(l, FALSE)]
      BY DEF Init, l
    <2>2. Bucket # 0 /\ BigBlk # 0 /\ BigBlk # Bucket
      BY <1>1
    <2> QED BY <2>1, <2>2
  <1>3. /\ mem[0].len = Bucket /\ mem[Bucket].len = Hdr /\ mem[BigBlk].len = l
        /\ ~mem[0].inUse /\ mem[Bucket].inUse /\ ~mem[BigBlk].inUse
    BY <1>1, <1>2, BlockFacts
  <1>4. \A a \in DOMAIN mem : mem[a] \in [len : Nat, inUse : BOOLEAN]
    BY <1>1, <1>2, BlockFacts
  <1>5. \A b \in DOMAIN mem : b = 0 \/ b = Bucket \/ b = BigBlk
    BY <1>2
  <1>6. ASSUME NEW a \in DOMAIN mem
        PROVE  /\ a \in Address
               /\ mem[a].len > 0 /\ (a # Bucket => mem[a].len > Hdr)
               /\ a + mem[a].len \in DOMAIN mem \cup {LastBlk}
               /\ \A b \in DOMAIN mem : ~(a < b /\ b < a + mem[a].len)
    <2> DEFINE k == mem[a].len
    <2>1. /\ (a = 0 /\ k = Bucket) \/ (a = Bucket /\ k = Hdr) \/ (a = BigBlk /\ k = l)
          /\ {0, Bucket, BigBlk} \subseteq DOMAIN mem
      BY <1>2, <1>3, <1>5
    <2> HIDE DEF k
    <2>2. a \in Nat /\ a < LastBlk /\ k > 0 /\ (a # Bucket => k > Hdr)
      BY <1>1, <2>1
    <2>3. a + k = Bucket \/ a + k = BigBlk \/ a + k = LastBlk
      BY <1>1, <2>1
    <2>4. ASSUME NEW b \in DOMAIN mem
          PROVE  ~(a < b /\ b < a + k)
      BY <1>1, <1>5, <2>1
    <2>5. a \in Address
      BY <1>1, <2>2 DEF Address
    <2> QED BY <2>1, <2>2, <2>3, <2>4, <2>5 DEF k
  <1>7. IsHeap(mem)
    BY <1>2, <1>4, <1>6 DEF IsHeap
  <1>8. ff1 = 0 /\ osalMemStat = FALSE /\ DOMAIN asked = {}
    BY DEF Init
  <1>9. Owned
    BY <1>8 DEF Owned
  <1>10. NothingIsLost
    <2> SUFFICES ASSUME NEW a \in DOMAIN mem
                 PROVE  ff1 <= a /\ (a # Bucket => ~mem[a].inUse)
      BY <1>8 DEF NothingIsLost
    <2>1. a = 0 \/ a = Bucket \/ a = BigBlk
      BY <1>5
    <2>2. ff1 <= a
      BY <1>1, <1>8, <2>1
    <2> QED BY <1>3, <2>1, <2>2
  <1>11. ff1 \in DOMAIN mem
    BY <1>2, <1>8
  <1> QED BY <1>7, <1>8, <1>9, <1>10, <1>11 DEF IInv

LEMMA Invariance == Spec => []IInv
  <1>1. ASSUME IInv, [Next]_vars PROVE IInv'
    <2>1. ASSUME NEW n \in Sizes, osal_mem_alloc(n) PROVE IInv'
      BY <1>1, <2>1, AllocKeeps
    <2>2. ASSUME NEW a \in DOMAIN asked, osal_mem_free(a) PROVE IInv'
      BY <1>1, <2>2, FreeKeeps
    <2>3. CASE osal_mem_kick
      BY <1>1, <2>3, KickKeeps
    <2>4. CASE UNCHANGED vars
      BY <1>1, <2>4 DEF IInv, Owned, NothingIsLost, vars
    <2> QED BY <1>1, <2>1, <2>2, <2>3, <2>4 DEF Next
  <1> QED BY <1>1, InitKeeps, PTL DEF Spec

-----------------------------------------------------------------------------
(* The theorems.                                                           *)

\* The headers tile the heap and the bucket stays apart (OSAL_Memory.c: the walk of
\* osal_mem_alloc goes from header to header and trusts each length).
THEOREM TypeCorrect == Spec => []TypeOK
  <1>1. ASSUME IInv
        PROVE  TypeOK
    <2>1. IsHeap(mem)
      BY <1>1 DEF IInv
    <2>2. ASSUME NEW a \in DOMAIN mem
          PROVE  /\ a \in 0 .. LastBlk /\ mem[a] \in [len : 0 .. LastBlk, inUse : BOOLEAN]
                 /\ mem[a].len > 0 /\ a + mem[a].len <= LastBlk
                 /\ a + mem[a].len = LastBlk \/ a + mem[a].len \in DOMAIN mem
                 /\ \A b \in DOMAIN mem : ~(a < b /\ b < a + mem[a].len)
      <3>1. /\ a \in Nat /\ a < LastBlk /\ mem[a].len \in Nat /\ mem[a].len > 0
            /\ a + mem[a].len <= LastBlk
            /\ a + mem[a].len = LastBlk \/ a + mem[a].len \in DOMAIN mem
        BY <2>1, HeapFacts
      <3>2. a \in 0 .. LastBlk /\ mem[a].len \in 0 .. LastBlk
        BY <3>1, ConstantFacts
      <3>3. /\ mem[a] \in [len : Nat, inUse : BOOLEAN]
            /\ \A b \in DOMAIN mem : ~(a < b /\ b < a + mem[a].len)
        BY <2>1 DEF IsHeap
      <3>4. mem[a] \in [len : 0 .. LastBlk, inUse : BOOLEAN]
        BY <3>2, <3>3
      <3> QED BY <3>1, <3>2, <3>3, <3>4
    <2>3. Tiled
      BY <2>1, <2>2 DEF Tiled, IsHeap
    <2>4. mem[Bucket].inUse /\ DOMAIN asked \subseteq DOMAIN mem
      <3>1. mem[Bucket].inUse
        BY <2>1, BlockFacts, ConstantFacts DEF IsHeap
      <3> QED BY <1>1, <3>1 DEF IInv, Owned
    <2>5. ff1 \in DOMAIN mem \cup {LastBlk} /\ osalMemStat \in BOOLEAN
      BY <1>1 DEF IInv
    <2> QED BY <2>2, <2>3, <2>4, <2>5 DEF TypeOK
  <1> QED BY <1>1, Invariance, PTL

\* No free block lies before the place where the search starts, every other block belongs
\* to a caller, and a call returns NULL only when its region has no room between two
\* blocks in use (osal_mem_alloc, which merges the free blocks it passes).
THEOREM RoomAlwaysUsed == Spec => RoomIsUsed
  <1> DEFINE Full ==
        \A n \in Sizes : last' = [size |-> n, at |-> NULL] =>
          ~ \E a \in DOMAIN mem : \E e \in DOMAIN mem \cup {LastBlk} :
              FirstBlk(n + Hdr) <= a /\ a + n + Hdr <= e /\ FreeStretch(a, e)
  <1>1. ASSUME IInv, Next
        PROVE  Full
    <2> SUFFICES ASSUME NEW n \in Sizes, last' = [size |-> n, at |-> NULL],
                        NEW a \in DOMAIN mem, NEW e \in DOMAIN mem \cup {LastBlk},
                        FirstBlk(n + Hdr) <= a, a + n + Hdr <= e, FreeStretch(a, e)
                 PROVE  FALSE
      OBVIOUS
    <2>1. last'.size = n /\ last'.at = NULL
      OBVIOUS
    <2>2. n \in Nat \ {0} /\ n + Hdr \in Nat /\ n + Hdr > Hdr
      BY SizeFacts
    <2>3. ASSUME NEW k \in Sizes, osal_mem_alloc(k) PROVE FALSE
      <3> DEFINE w == Walk(k + Hdr)
      <3>1. CASE w.hdr # NULL
        <4>1. last' = [size |-> k, at |-> w.hdr]
          BY <2>3, <3>1 DEF osal_mem_alloc
        <4> HIDE DEF w
        <4> QED BY <2>1, <3>1, <4>1
      <3>2. CASE w.hdr = NULL
        <4>1. last' = [size |-> k, at |-> NULL]
          BY <2>3, <3>2 DEF osal_mem_alloc
        <4>2. k = n
          BY <2>1, <4>1
        <4>3. NoRoom(FirstBlk(n + Hdr), LastBlk, n + Hdr)
          BY <1>1, <2>2, <3>2, <4>2, WalkEnds
        <4>4. /\ a \in Nat /\ e \in Nat /\ e <= LastBlk /\ Hdr \in Nat
          BY <1>1, HeapFacts, ConstantFacts DEF IInv
        <4>5. e - a < n + Hdr
          BY <4>3, <4>4 DEF NoRoom
        <4> QED BY <2>2, <4>4, <4>5
      <3> QED BY <3>1, <3>2
    <2>4. ASSUME last' = [size |-> 0, at |-> NULL] PROVE FALSE
      BY <2>1, <2>2, <2>4
    <2>5. ASSUME NEW b \in DOMAIN asked, osal_mem_free(b) PROVE FALSE
      BY <2>4, <2>5 DEF osal_mem_free
    <2>6. CASE osal_mem_kick
      BY <2>4, <2>6 DEF osal_mem_kick
    <2> QED BY <1>1, <2>3, <2>5, <2>6 DEF Next
  <1>2. ASSUME IInv, [Next]_vars
        PROVE  [Full]_vars
    BY <1>1, <1>2
  <1>3. IInv => NothingIsLost
    BY DEF IInv
  <1> HIDE DEF Full
  <1>4. Spec => []NothingIsLost /\ [][Full]_vars
    BY <1>2, <1>3, Invariance, PTL DEF Spec
  <1> QED BY <1>4 DEF RoomIsUsed, FailsOnlyWhenFull, Full

-----------------------------------------------------------------------------
(* The refinement: what is behind the header of a block in use is owned.   *)

Held == [a \in {b + Hdr : b \in DOMAIN asked} |-> asked[a - Hdr]]

LEMMA HeldFacts ==
  ASSUME IInv
  PROVE  /\ \A c \in DOMAIN Held : c - Hdr \in DOMAIN asked /\ c \in Nat
         /\ \A b \in DOMAIN asked :
              /\ b \in Nat /\ b + Hdr \in DOMAIN Held /\ Held[b + Hdr] = asked[b]
              /\ (b + Hdr) - Hdr = b
  <1>1. \A b \in DOMAIN asked : b \in Nat /\ b + Hdr \in Nat /\ (b + Hdr) - Hdr = b
    BY HeapFacts, ConstantFacts DEF IInv, Owned
  <1> QED BY <1>1 DEF Held

\* A block handed out lies in the heap behind its header, and apart from the others.
LEMMA Apart ==
  ASSUME IInv, NEW a \in DOMAIN asked
  PROVE  /\ a + Hdr \in 0 .. LastBlk - 1 /\ asked[a] \in 1 .. LastBlk
         /\ H!Stretch(a + Hdr, asked[a]) \subseteq 0 .. LastBlk - 1
         /\ \A b \in DOMAIN asked : b # a =>
              H!Stretch(a + Hdr, asked[a]) \cap H!Stretch(b + Hdr, asked[b]) = {}
  <1>1. Hdr \in Nat /\ LastBlk \in Nat /\ Hdr > 0
    BY ConstantFacts
  <1>2. ASSUME NEW b \in DOMAIN asked
        PROVE  /\ b \in DOMAIN mem /\ b \in Nat /\ mem[b].len \in Nat
               /\ asked[b] \in Nat /\ asked[b] > 0 /\ asked[b] + Hdr <= mem[b].len
               /\ b + mem[b].len <= LastBlk
               /\ \A c \in DOMAIN mem : b < c => b + mem[b].len <= c
    <2>1. /\ b \in DOMAIN mem /\ asked[b] \in Nat \ {0} /\ asked[b] + Hdr <= mem[b].len
          /\ IsHeap(mem)
      BY DEF IInv, Owned
    <2> QED BY <2>1, HeapFacts
  <1>3. a + Hdr \in 0 .. LastBlk - 1 /\ asked[a] \in 1 .. LastBlk
    BY <1>1, <1>2
  <1>4. H!Stretch(a + Hdr, asked[a]) \subseteq 0 .. LastBlk - 1
    BY <1>1, <1>2 DEF H!Stretch
  <1>5. ASSUME NEW b \in DOMAIN asked, b # a
        PROVE  H!Stretch(a + Hdr, asked[a]) \cap H!Stretch(b + Hdr, asked[b]) = {}
    <2>1. CASE a < b
      <3>1. a + Hdr + asked[a] <= b
        BY <1>1, <1>2, <2>1
      <3> QED BY <1>1, <1>2, <3>1 DEF H!Stretch
    <2>2. CASE b < a
      <3>1. b + Hdr + asked[b] <= a
        BY <1>1, <1>2, <2>2
      <3> QED BY <1>1, <1>2, <3>1 DEF H!Stretch
    <2>3. a < b \/ b < a
      BY <1>2, <1>5
    <2> QED BY <2>1, <2>2, <2>3
  <1> QED BY <1>3, <1>4, <1>5

Separate ==
  \A a \in DOMAIN asked :
    /\ a \in Nat /\ a + Hdr \in 0 .. LastBlk - 1 /\ asked[a] \in 1 .. LastBlk
    /\ H!Stretch(a + Hdr, asked[a]) \subseteq 0 .. LastBlk - 1
    /\ \A b \in DOMAIN asked : b # a =>
         H!Stretch(a + Hdr, asked[a]) \cap H!Stretch(b + Hdr, asked[b]) = {}

LEMMA SeparateNext == IInv' => Separate'
  <1>1. IInv => Separate
    BY Apart, HeldFacts DEF Separate
  <1> QED BY <1>1, PTL

\* An allocation owns a new stretch, and a release gives one back.
LEMMA AllocOwns ==
  ASSUME IInv, IInv', NEW n \in Sizes, NEW a, a \notin DOMAIN asked,
         asked' = [b \in DOMAIN asked \cup {a} |-> IF b = a THEN n ELSE asked[b]]
  PROVE  H!Next
  <1>1. a \in DOMAIN asked' /\ asked'[a] = n /\ Hdr \in Nat
    BY ConstantFacts
  <1>2. /\ a \in Nat /\ a + Hdr \in 0 .. LastBlk - 1 /\ n \in 1 .. LastBlk
        /\ H!Stretch(a + Hdr, n) \subseteq 0 .. LastBlk - 1
        /\ \A b \in DOMAIN asked' : b # a =>
             H!Stretch(a + Hdr, n) \cap H!Stretch(b + Hdr, asked'[b]) = {}
    BY <1>1, SeparateNext DEF Separate
  <1>3. ASSUME NEW c \in DOMAIN Held
        PROVE  H!Stretch(a + Hdr, n) \cap H!Stretch(c, Held[c]) = {}
    <2>1. PICK b \in DOMAIN asked : c = b + Hdr /\ Held[c] = asked[b]
      <3>1. c - Hdr \in DOMAIN asked /\ c \in Nat
        BY HeldFacts
      <3>2. (c - Hdr) + Hdr = c
        BY <1>1, <3>1
      <3> QED BY <3>1, <3>2, HeldFacts
    <2>2. b # a /\ asked'[b] = asked[b] /\ b \in DOMAIN asked'
      OBVIOUS
    <2> QED BY <1>2, <2>1, <2>2
  <1>4. Held' = [c \in DOMAIN Held \cup {a + Hdr} |-> IF c = a + Hdr THEN n ELSE Held[c]]
    <2>1. DOMAIN Held' = DOMAIN Held \cup {a + Hdr}
      BY DEF Held
    <2>2. ASSUME NEW c \in DOMAIN Held'
          PROVE  Held'[c] = IF c = a + Hdr THEN n ELSE Held[c]
      <3>1. Held'[c] = asked'[c - Hdr]
        BY DEF Held
      <3>2. CASE c = a + Hdr
        <4>1. c - Hdr = a
          BY <1>1, <1>2, <3>2
        <4> QED BY <1>1, <3>1, <3>2, <4>1
      <3>3. CASE c # a + Hdr
        <4>1. c \in DOMAIN Held
          BY <2>1, <3>3
        <4>2. c - Hdr \in DOMAIN asked /\ Held[c] = asked[c - Hdr]
          BY <4>1, HeldFacts DEF Held
        <4> QED BY <3>1, <3>3, <4>2
      <3> QED BY <3>2, <3>3
    <2>3. Held' = [c \in DOMAIN Held' |-> Held'[c]]
      BY DEF Held
    <2> QED BY <2>1, <2>2, <2>3
  <1>5. H!Alloc(a + Hdr, n)
    BY <1>2, <1>3, <1>4 DEF H!Alloc, Held
  <1> QED BY <1>2, <1>5 DEF H!Next

LEMMA FreeOwns ==
  ASSUME IInv, NEW a \in DOMAIN asked,
         asked' = [b \in DOMAIN asked \ {a} |-> asked[b]]
  PROVE  H!Next
  <1>1. a \in Nat /\ a + Hdr \in DOMAIN Held /\ Hdr \in Nat
    BY HeldFacts, ConstantFacts
  <1>2. Held' = [c \in DOMAIN Held \ {a + Hdr} |-> Held[c]]
    <2>1. DOMAIN Held' = DOMAIN Held \ {a + Hdr}
      <3>1. DOMAIN Held' = {b + Hdr : b \in DOMAIN asked \ {a}}
        BY DEF Held
      <3>2. DOMAIN Held = {b + Hdr : b \in DOMAIN asked}
        BY DEF Held
      <3>3. \A b \in DOMAIN asked : b + Hdr = a + Hdr => b = a
        BY <1>1, HeldFacts
      <3> QED BY <3>1, <3>2, <3>3
    <2>2. ASSUME NEW c \in DOMAIN Held'
          PROVE  Held'[c] = Held[c]
      <3>1. Held'[c] = asked'[c - Hdr] /\ c \in DOMAIN Held /\ c # a + Hdr
        BY <2>1 DEF Held
      <3>2. c - Hdr \in DOMAIN asked /\ c \in Nat /\ Held[c] = asked[c - Hdr]
        BY <3>1, HeldFacts DEF Held
      <3>3. c - Hdr # a
        BY <1>1, <3>1, <3>2
      <3> QED BY <3>1, <3>2, <3>3
    <2>3. Held' = [c \in DOMAIN Held' |-> Held'[c]]
      BY DEF Held
    <2> QED BY <2>1, <2>2, <2>3
  <1>3. H!Free(a + Hdr)
    BY <1>1, <1>2 DEF H!Free, Held
  <1> QED BY <1>1, <1>3 DEF H!Next, Held

\* What the heap hands out lies in no other caller's block (osal_mem_alloc,
\* osal_mem_free): every call is a step of HeapSpace or leaves what is owned alone.
THEOREM HeapImplementsSpace == Spec => ImplementsSpace
  <1>1. Init => H!Init
    <2> SUFFICES ASSUME Init PROVE H!Init
      OBVIOUS
    <2>1. DOMAIN asked = {}
      BY DEF Init
    <2>2. {b + Hdr : b \in DOMAIN asked} = {}
      BY <2>1
    <2> QED BY <2>2 DEF H!Init
  <1>2. ASSUME IInv, IInv', [Next]_vars
        PROVE  [H!Next]_Held
    <2>1. ASSUME NEW n \in Sizes, osal_mem_alloc(n) PROVE [H!Next]_Held
      <3> DEFINE w == Walk(n + Hdr)
      <3>1. CASE w.hdr # NULL
        <4>1. asked' = [b \in DOMAIN asked \cup {w.hdr} |-> IF b = w.hdr THEN n ELSE asked[b]]
          BY <2>1, <3>1 DEF osal_mem_alloc
        <4>2. ~mem[w.hdr].inUse
          BY <1>2, <3>1, SizeFacts, TakeFacts
        <4>3. w.hdr \notin DOMAIN asked
          BY <1>2, <4>2 DEF IInv, Owned
        <4> HIDE DEF w
        <4> QED BY <1>2, <4>1, <4>3, AllocOwns
      <3>2. CASE w.hdr = NULL
        BY <2>1, <3>2 DEF osal_mem_alloc, Held
      <3> QED BY <3>1, <3>2
    <2>2. ASSUME NEW a \in DOMAIN asked, osal_mem_free(a) PROVE [H!Next]_Held
      <3>1. asked' = [b \in DOMAIN asked \ {a} |-> asked[b]]
        BY <2>2 DEF osal_mem_free
      <3> QED BY <1>2, <3>1, FreeOwns
    <2>3. CASE osal_mem_kick
      BY <2>3 DEF osal_mem_kick, Held
    <2>4. CASE UNCHANGED vars
      BY <2>4 DEF vars, Held
    <2> QED BY <1>2, <2>1, <2>2, <2>3, <2>4 DEF Next
  <1>3. ASSUME IInv, IInv', [Next]_vars
        PROVE  [H!Next]_([a \in {b + Hdr : b \in DOMAIN asked} |-> asked[a - Hdr]])
    BY <1>2, <1>3 DEF Held
  <1> QED BY <1>1, <1>3, Invariance, PTL DEF Spec, ImplementsSpace, H!Spec

=============================================================================
