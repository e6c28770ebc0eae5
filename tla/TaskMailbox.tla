----------------------------- MODULE TaskMailbox -----------------------------
(***************************************************************************)
(* What OSAL promises to a task about messages: each task has a mailbox of *)
(* its own, a message sent to it is appended, and it fetches the oldest.   *)
(* A message is in one mailbox at a time.  Implemented by OsalTasks, where *)
(* all tasks share one linked list.                                        *)
(***************************************************************************)
EXTENDS Sequences

CONSTANTS Task, Msg

VARIABLE box    \* box[t]: the messages task t has not fetched, oldest first

Waiting == {m \in Msg : \E t \in Task : \E i \in DOMAIN box[t] : box[t][i] = m}

Init == box = [t \in Task |-> <<>>]

Post(t, m) ==
    /\ m \notin Waiting
    /\ box' = [box EXCEPT ![t] = Append(@, m)]

Fetch(t) ==
    /\ box[t] # <<>>
    /\ box' = [box EXCEPT ![t] = Tail(@)]

Next == \E t \in Task : Fetch(t) \/ \E m \in Msg : Post(t, m)

Spec == Init /\ [][Next]_box

=============================================================================
