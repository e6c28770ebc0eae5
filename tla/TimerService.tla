---------------------------- MODULE TimerService ----------------------------
(***************************************************************************)
(* What the OSAL timers promise: a timer, named by a task and an event,    *)
(* runs from its start until it is stopped or expires; when it expires its *)
(* event is raised, once, and if it reloads it goes on running.  How long  *)
(* that takes is not said here.                                            *)
(***************************************************************************)
CONSTANT Timer

VARIABLES running,   \* the timers that run
          reloads,   \* those of them that reload
          raised     \* the events raised and not yet processed

vars == <<running, reloads, raised>>

Init ==
    /\ running = {}
    /\ reloads = {}
    /\ raised = {}

\* Starting a timer that runs begins it anew; it goes on reloading if it did.
Start(t) ==
    /\ running' = running \cup {t}
    /\ UNCHANGED <<reloads, raised>>

StartReload(t) ==
    /\ running' = running \cup {t}
    /\ reloads' = reloads \cup {t}
    /\ UNCHANGED raised

Stop(t) ==
    /\ running' = running \ {t}
    /\ reloads' = reloads \ {t}
    /\ UNCHANGED raised

Expire(t) ==
    /\ t \in running
    /\ running' = IF t \in reloads THEN running ELSE running \ {t}
    /\ raised' = raised \cup {t}
    /\ UNCHANGED reloads

Process(t) ==
    /\ raised' = raised \ {t}
    /\ UNCHANGED <<running, reloads>>

Next == \E t \in Timer : Start(t) \/ StartReload(t) \/ Stop(t) \/ Expire(t) \/ Process(t)

Spec == Init /\ [][Next]_vars

=============================================================================
