----------------------------- MODULE HeapSpace ------------------------------
(***************************************************************************)
(* What a heap promises the callers of osal_mem_alloc and osal_mem_free:   *)
(* an allocation is a stretch of the heap that lies inside no other        *)
(* caller's, at least as long as was asked, until it is freed.             *)
(***************************************************************************)
EXTENDS Integers

CONSTANT Size   \* the length of the heap

VARIABLE owned  \* what has been handed out: start address -> length asked for

Stretch(a, n) == a .. (a + n - 1)

TypeOK == \E D \in SUBSET (0 .. Size - 1) : owned \in [D -> 1 .. Size]

Init == owned = [a \in {} |-> 0]

Alloc(a, n) == /\ Stretch(a, n) \subseteq 0 .. Size - 1
               /\ \A b \in DOMAIN owned : Stretch(a, n) \cap Stretch(b, owned[b]) = {}
               /\ owned' = [b \in DOMAIN owned \cup {a} |-> IF b = a THEN n ELSE owned[b]]

Free(a) == /\ a \in DOMAIN owned
           /\ owned' = [b \in DOMAIN owned \ {a} |-> owned[b]]

Next == \/ \E a \in 0 .. Size - 1, n \in 1 .. Size : Alloc(a, n)
        \/ \E a \in DOMAIN owned : Free(a)

Spec == Init /\ [][Next]_owned
=============================================================================
