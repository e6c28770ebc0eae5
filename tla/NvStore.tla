------------------------------ MODULE NvStore -------------------------------
(***************************************************************************)
(* What the OSAL non-volatile memory promises its callers: a store of      *)
(* items in which a write is all or nothing.  A call in progress takes     *)
(* effect at one instant; it returns when its value is in the store; power *)
(* lost ends the call and leaves the store as it is at that instant.  That *)
(* lasts as long as every flash write takes; when one has failed, what is  *)
(* left of the promise is that a guarded write takes no item away.         *)
(***************************************************************************)
CONSTANTS Ids, Values, None

VARIABLES store,  \* the value each item would have after a reset
          call,   \* the write in progress, or None
          on,     \* the device is up and takes calls
          sound,  \* every flash write so far has taken
          guarded \* the write in progress starts from a complete old copy, and no
                  \* earlier call has left a page half compacted (an input)

vars == <<store, call, on, sound>>

Calls == [id : Ids, val : Values]

TypeOK == /\ store \in [Ids -> Values \cup {None}]
          /\ call \in Calls \cup {None}
          /\ on \in BOOLEAN /\ sound \in BOOLEAN /\ guarded \in BOOLEAN

Init == /\ store = [i \in Ids |-> None]
        /\ call = None
        /\ on = FALSE
        /\ sound = TRUE

PowerUp == /\ ~on
           /\ on' = TRUE
           /\ UNCHANGED <<store, call, sound>>

Begin == /\ on /\ call = None
         /\ call' \in Calls
         /\ UNCHANGED <<store, on, sound>>

\* The instant at which the new value replaces the old one; the call may return with it.
Commit == /\ call # None
          /\ store' = [store EXCEPT ![call.id] = call.val]
          /\ call' \in {call, None}
          /\ UNCHANGED <<on, sound>>

Return == /\ call # None
          /\ store[call.id] = call.val
          /\ call' = None
          /\ UNCHANGED <<store, on, sound>>

Delete(i) == /\ on /\ call = None
             /\ store' = [store EXCEPT ![i] = None]
             /\ UNCHANGED <<call, on, sound>>

PowerLoss == /\ on
             /\ on' = FALSE
             /\ call' = None
             /\ UNCHANGED <<store, sound>>

\* A flash write fails or has failed: values may be wrong, old ones may return, but a
\* guarded write, its failure or a loss of power during it, loses none.
Damage == /\ ~sound'
          /\ guarded => \A i \in Ids : store[i] # None => store'[i] # None

Next == PowerUp \/ Begin \/ Commit \/ Return \/ PowerLoss \/ Damage
        \/ \E i \in Ids : Delete(i)

Spec == Init /\ [][Next]_vars
=============================================================================
