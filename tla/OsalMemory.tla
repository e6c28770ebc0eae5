----------------------------- MODULE OsalMemory -----------------------------
(***************************************************************************)
(* The OSAL heap (OSAL_Memory.c): blocks laid end to end, each with a      *)
(* header; first fit with free neighbours merged on the way; a bucket for  *)
(* small blocks at the front, kept apart by a block that is never freed,   *)
(* with ff1 its first block that can be free.  Every call runs in a        *)
(* critical section, tasks and interrupts alike, so a call is one step.    *)
(*                                                                         *)
(* Addresses are counted in units of a header.  "mem" holds the headers    *)
(* that are in the heap; the bytes between them are the callers'.          *)
(***************************************************************************)
EXTENDS Integers, FiniteSets

CONSTANTS
  Hdr,        \* OSALMEM_HDRSZ
  MinBlk,     \* OSALMEM_MIN_BLKSZ: what is worth splitting off
  SmallBlk,   \* OSALMEM_SMALL_BLKSZ: the largest block looked for in the bucket
  Bucket,     \* OSALMEM_SMALLBLK_BUCKET: the size of the bucket
  LastBlk,    \* OSALMEM_LASTBLK_IDX: where the zero header ends the heap
  Sizes,      \* the sizes asked for
  NULL

BigBlk == Bucket + Hdr   \* OSALMEM_BIGBLK_IDX: the wilderness

ASSUME HeapAssumption ==
  /\ Hdr \in Nat \ {0} /\ MinBlk \in Nat /\ SmallBlk \in Nat
  /\ Bucket \in Nat /\ LastBlk \in Nat
  /\ Bucket > Hdr /\ BigBlk + Hdr < LastBlk   \* both regions have room for a block
  /\ MinBlk > Hdr
  /\ Sizes \subseteq Nat \ {0} /\ 1 \in Sizes
  /\ NULL \notin Nat

VARIABLES
  mem,          \* the headers: address -> [len, inUse]
  ff1,          \* ff1: where the search for a small block starts
  osalMemStat,  \* osalMemStat: the long-lived blocks have been allocated
  asked,        \* the blocks handed out: address -> size asked for
  last          \* the last call: the size asked for and the address, NULL if none

vars == <<mem, ff1, osalMemStat, asked, last>>

Block(len, inUse) == [len |-> len, inUse |-> inUse]

-----------------------------------------------------------------------------
(* osal_mem_alloc: the walk over the headers.  "prev" is the free block    *)
(* that the free blocks after it are merged into while coal is set.        *)

FirstBlk(size) == IF ~osalMemStat \/ size <= SmallBlk THEN ff1 ELSE BigBlk

Found(w, m, a) == [mem |-> m, hdr |-> a, done |-> TRUE, coal |-> w.coal, prev |-> w.prev]

\* On to the next header; the zero header ends the walk without a block.
Onward(w, m, coal, prev) ==
  LET a == w.hdr + w.mem[w.hdr].len
  IN [mem |-> m, hdr |-> IF a = LastBlk THEN NULL ELSE a, done |-> a = LastBlk,
      coal |-> coal, prev |-> prev]

\* Merge the free block at the walk's place into the one before it.
Merge(w) == [a \in DOMAIN w.mem \ {w.hdr} |->
               IF a = w.prev THEN Block(w.mem[a].len + w.mem[w.hdr].len, FALSE) ELSE w.mem[a]]

\* Mutant: only two neighbours are merged.
WalkStep_MergesOnce(w, size) ==
  LET h == w.mem[w.hdr]
  IN IF h.inUse THEN Onward(w, w.mem, FALSE, w.prev)
     ELSE IF w.coal
     THEN IF Merge(w)[w.prev].len >= size THEN Found(w, Merge(w), w.prev)
          ELSE Onward(w, Merge(w), FALSE, w.prev)
     ELSE IF h.len >= size THEN Found(w, w.mem, w.hdr)
          ELSE Onward(w, w.mem, TRUE, w.hdr)

WalkStep(w, size) ==
  LET h == w.mem[w.hdr]
  IN IF h.inUse THEN Onward(w, w.mem, FALSE, w.prev)
     ELSE IF w.coal
     THEN IF Merge(w)[w.prev].len >= size THEN Found(w, Merge(w), w.prev)
          ELSE Onward(w, Merge(w), TRUE, w.prev)
     ELSE IF h.len >= size THEN Found(w, w.mem, w.hdr)
          ELSE Onward(w, w.mem, TRUE, w.hdr)

Start(size) ==
  LET a == FirstBlk(size)
  IN [mem |-> mem, hdr |-> IF a = LastBlk THEN NULL ELSE a, done |-> a = LastBlk,
      coal |-> FALSE, prev |-> NULL]

\* The walk after n steps: every step moves on, so LastBlk of them are enough.
WalkUpTo(size) ==
  LET w[n \in 0 .. LastBlk] ==
        IF n = 0 THEN Start(size)
        ELSE LET p == w[n - 1] IN IF p.done THEN p ELSE WalkStep(p, size)
  IN w

Walk(size) == WalkUpTo(size)[LastBlk]

\* Mutant: any rest is split off, an empty one too.
Take_SplitsAlways(m, a, size) ==
  LET rest == m[a].len - size
  IN [b \in DOMAIN m \cup {a + size} |->
        IF b = a THEN Block(size, TRUE) ELSE IF b = a + size THEN Block(rest, FALSE) ELSE m[b]]

\* Mutant: a block handed out whole is not marked.
Take_MarksOnlySplit(m, a, size) ==
  LET rest == m[a].len - size
  IN IF rest >= MinBlk
     THEN [b \in DOMAIN m \cup {a + size} |->
             IF b = a THEN Block(size, TRUE) ELSE IF b = a + size THEN Block(rest, FALSE) ELSE m[b]]
     ELSE m

\* Take size units of the free block at a; the rest is split off if it is worth it.
Take(m, a, size) ==
  LET rest == m[a].len - size
  IN IF rest >= MinBlk
     THEN [b \in DOMAIN m \cup {a + size} |->
             IF b = a THEN Block(size, TRUE) ELSE IF b = a + size THEN Block(rest, FALSE) ELSE m[b]]
     ELSE [m EXCEPT ![a].inUse = TRUE]

\* ff1 after the block at a has been taken.
ff1After(m, a) == IF osalMemStat /\ ff1 = a THEN a + m[a].len ELSE ff1

osal_mem_alloc(n) ==
  LET size == n + Hdr
      w    == Walk(size)
      m    == Take(w.mem, w.hdr, size)
  IN \/ /\ w.hdr # NULL
        /\ mem' = m
        /\ ff1' = ff1After(m, w.hdr)
        /\ asked' = [a \in DOMAIN asked \cup {w.hdr} |-> IF a = w.hdr THEN n ELSE asked[a]]
        /\ last' = [size |-> n, at |-> w.hdr]
        /\ UNCHANGED osalMemStat
     \/ /\ w.hdr = NULL
        /\ mem' = w.mem
        /\ last' = [size |-> n, at |-> NULL]
        /\ UNCHANGED <<ff1, osalMemStat, asked>>

\* Mutant: ff1 does not follow a block freed before it.
osal_mem_free_KeepsFf1(a) ==
  /\ mem' = [mem EXCEPT ![a].inUse = FALSE]
  /\ asked' = [b \in DOMAIN asked \ {a} |-> asked[b]]
  /\ last' = [size |-> 0, at |-> NULL]
  /\ UNCHANGED <<ff1, osalMemStat>>

osal_mem_free(a) ==
  /\ mem' = [mem EXCEPT ![a].inUse = FALSE]
  /\ ff1' = IF ff1 > a THEN a ELSE ff1
  /\ asked' = [b \in DOMAIN asked \ {a} |-> asked[b]]
  /\ last' = [size |-> 0, at |-> NULL]
  /\ UNCHANGED osalMemStat

\* osal_mem_kick, once all tasks are initialised: the search for small blocks starts
\* from here on at the first block after the long-lived ones.
osal_mem_kick ==
  LET w == Walk(1 + Hdr)
  IN /\ ~osalMemStat
     /\ w.hdr # NULL
     /\ mem' = [Take(w.mem, w.hdr, 1 + Hdr) EXCEPT ![w.hdr].inUse = FALSE]
     /\ ff1' = w.hdr
     /\ osalMemStat' = TRUE
     /\ last' = [size |-> 0, at |-> NULL]
     /\ UNCHANGED asked

-----------------------------------------------------------------------------
\* osal_mem_init: the bucket, the block that keeps it apart, the wilderness.
Init == /\ mem = [a \in {0, Bucket, BigBlk} |->
                    CASE a = 0      -> Block(Bucket, FALSE)
                      [] a = Bucket -> Block(Hdr, TRUE)
                      [] a = BigBlk -> Block(LastBlk - BigBlk, FALSE)]
        /\ ff1 = 0
        /\ osalMemStat = FALSE
        /\ asked = [a \in {} |-> 0]
        /\ last = [size |-> 0, at |-> NULL]

Next == \/ \E n \in Sizes : osal_mem_alloc(n)
        \/ \E a \in DOMAIN asked : osal_mem_free(a)
        \/ osal_mem_kick

Spec == Init /\ [][Next]_vars

-----------------------------------------------------------------------------
\* The headers tile the heap: each block ends at the next header, and no header lies
\* inside a block.
Tiled == /\ {0, Bucket, BigBlk} \subseteq DOMAIN mem
         /\ \A a \in DOMAIN mem :
              LET e == a + mem[a].len
              IN /\ mem[a].len > 0 /\ e <= LastBlk
                 /\ e = LastBlk \/ e \in DOMAIN mem
                 /\ \A b \in DOMAIN mem : ~(a < b /\ b < e)

\* Shape of the state.  The walk of the next call meets nothing but headers: they tile
\* the heap and the bucket stays apart from the wilderness.
TypeOK == /\ \A a \in DOMAIN mem : a \in 0 .. LastBlk /\ mem[a] \in [len : 0 .. LastBlk, inUse : BOOLEAN]
          /\ ff1 \in DOMAIN mem \cup {LastBlk}
          /\ osalMemStat \in BOOLEAN
          /\ DOMAIN asked \subseteq DOMAIN mem
          /\ Tiled /\ mem[Bucket].inUse

\* No memory is lost.  The search can find every free block, since the shortcut
\* through ff1 hides none before it; and every other block belongs to a caller
\* that will free it.
NothingIsLost ==
  \A a \in DOMAIN mem :
    /\ ~mem[a].inUse => ff1 <= a
    /\ a # Bucket => (mem[a].inUse <=> a \in DOMAIN asked)

\* An allocation fails only when no stretch of free blocks of its region is long enough:
\* between two blocks in use, however the stretch was split before.
FreeStretch(a, e) == \A b \in DOMAIN mem : a <= b /\ b < e => ~mem[b].inUse

FailsOnlyWhenFull ==
  [][\A n \in Sizes : last' = [size |-> n, at |-> NULL] =>
       ~ \E a \in DOMAIN mem : \E e \in DOMAIN mem \cup {LastBlk} :
           FirstBlk(n + Hdr) <= a /\ a + n + Hdr <= e /\ FreeStretch(a, e)]_vars

\* What has been freed can be used again.
RoomIsUsed == []NothingIsLost /\ FailsOnlyWhenFull

\* The heap hands out disjoint stretches, each as long as was asked, after its header.
H == INSTANCE HeapSpace WITH Size <- LastBlk, owned <- [a \in {b + Hdr : b \in DOMAIN asked} |-> asked[a - Hdr]]

ImplementsSpace == H!Spec
=============================================================================
