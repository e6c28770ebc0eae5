------------------------------ MODULE OsalTimers ------------------------------
(***************************************************************************)
(* The OSAL timers (Components/osal/common/OSAL_Timers.c): a linked list   *)
(* of records that the main loop walks on every tick, and that interrupt   *)
(* service routines extend while it walks (the key driver starts its       *)
(* debounce timer from an interrupt).                                      *)
(*                                                                         *)
(* The list is the memory the code has: timerHead, the records and their   *)
(* next pointers, and the cursors srchTimer and prevTimer of the walk.     *)
(* Each critical section is one action.  A timer is a pair of a task and   *)
(* an event; a record whose event_flag is 0 belongs to no timer.           *)
(*                                                                         *)
(* Real time is the action Tick, one millisecond; osalTimeUpdate finds out *)
(* how many there were since its last call.                                *)
(***************************************************************************)
EXTENDS Integers, FiniteSets

CONSTANTS Timer,        \* the timers (task, event) in use
          IsrTimer,     \* those that an interrupt service routine starts
          ReloadTimer,  \* those started with osal_start_reload_timer
          NoTimer,      \* event_flag = 0
          Block,        \* the records the heap has room for
          NULL,
          Timeout,      \* timeouts asked for, in ms
          MaxElapsed    \* bound: ms from one osalTimeUpdate to the next

ASSUME TimersAssumption ==
    /\ IsrTimer \subseteq Timer
    /\ ReloadTimer \subseteq Timer
    /\ NoTimer \notin Timer
    /\ NULL \notin Block
    /\ IsFiniteSet(Block)
    /\ Timeout \subseteq Nat \ {0}
    /\ MaxElapsed \in Nat

VARIABLES
    timerHead,
    next,         \* next[b]
    rec,          \* rec[b]: the other fields of the record in b
    heap,         \* the blocks that are allocated
    raised,       \* the events raised by timers and not yet processed
    pc,           \* "idle", or where the main loop is in osalTimerUpdate
    srchTimer, prevTimer, freeTimer,
    updateTime,
    elapsed       \* ms since the last osalTimeUpdate

listVars == <<timerHead, next, rec, heap>>
walkVars == <<pc, srchTimer, prevTimer, freeTimer, updateTime>>
vars     == <<listVars, raised, walkVars, elapsed>>

\* want and age are not in the code: the timeout the caller asked for, and the
\* time that has really passed since, counted as far as it can matter.
Record == [timer : Timer \cup {NoTimer}, timeout : Nat, reloadTimeout : Nat,
           want : Nat, age : Nat]
Blank  == [timer |-> NoTimer, timeout |-> 0, reloadTimeout |-> 0, want |-> 0, age |-> 0]

TypeOK ==
    /\ timerHead \in Block \cup {NULL}
    /\ next \in [Block -> Block \cup {NULL}]
    /\ rec \in [Block -> Record]
    /\ heap \subseteq Block
    /\ raised \subseteq Timer
    /\ pc \in {"idle", "walk", "signal", "free"}
    /\ {srchTimer, prevTimer, freeTimer} \subseteq Block \cup {NULL}
    /\ updateTime \in 0 .. MaxElapsed
    /\ elapsed \in 0 .. MaxElapsed

Init ==
    /\ timerHead = NULL
    /\ next = [b \in Block |-> NULL]
    /\ rec = [b \in Block |-> Blank]
    /\ heap = {}
    /\ raised = {}
    /\ pc = "idle"
    /\ srchTimer = NULL /\ prevTimer = NULL /\ freeTimer = NULL
    /\ updateTime = 0
    /\ elapsed = 0

\* The list as it is reached from timerHead.
Nth[i \in 0 .. Cardinality(Block)] ==
    IF i = 0 THEN timerHead
    ELSE IF Nth[i - 1] = NULL THEN NULL ELSE next[Nth[i - 1]]

Listed == {Nth[i] : i \in DOMAIN Nth} \ {NULL}

\* osalFindTimer: the record of a timer.
Of(t) == {b \in Listed : rec[b].timer = t}

-----------------------------------------------------------------------------
(* Starting and stopping.                                                  *)

\* The main loop calls from a task, never from inside osalTimerUpdate; an
\* interrupt service routine calls at any point.
MayStart(t) == pc = "idle" \/ t \in IsrTimer

\* Mutant: a timer that is running keeps what is left of its timeout.
Started_KeepsTimeout(b, t, n, reloads) ==
    rec' = [rec EXCEPT ![b] =
               [timer |-> t, timeout |-> IF @.timer = t THEN @.timeout ELSE n,
                want |-> n, age |-> 0,
                reloadTimeout |-> IF reloads THEN n ELSE @.reloadTimeout]]

Started(b, t, n, reloads) ==
    rec' = [rec EXCEPT ![b] =
               [timer |-> t, timeout |-> n, want |-> n, age |-> 0,
                reloadTimeout |-> IF reloads THEN n ELSE @.reloadTimeout]]

\* A new record, at the end of the list.
AppendRecord(b) ==
    /\ heap' = heap \cup {b}
    /\ IF timerHead = NULL
       THEN timerHead' = b /\ UNCHANGED next
       ELSE /\ \E last \in Listed :
                  next[last] = NULL /\ next' = [next EXCEPT ![last] = b]
            /\ UNCHANGED timerHead

\* Mutant: a timer that exists gets a second record.
osalAddTimer_NoSearch(t, n, reloads) ==
    \E b \in Block \ heap : Started(b, t, n, reloads) /\ AppendRecord(b)

\* osalAddTimer, with what osal_start_reload_timer adds to it: a record that
\* exists is updated and keeps its reloadTimeout.  Without memory nothing
\* changes (NO_TIMER_AVAIL).
osalAddTimer(t, n, reloads) ==
    \/ \E b \in Of(t) :
          Started(b, t, n, reloads) /\ UNCHANGED <<timerHead, next, heap>>
    \/ /\ Of(t) = {}
       /\ \E b \in Block \ heap : Started(b, t, n, reloads) /\ AppendRecord(b)

osal_start_timerEx(t, n) ==
    /\ MayStart(t)
    /\ osalAddTimer(t, n, FALSE)
    /\ UNCHANGED <<raised, walkVars, elapsed>>

osal_start_reload_timer(t, n) ==
    /\ t \in ReloadTimer
    /\ MayStart(t)
    /\ osalAddTimer(t, n, TRUE)
    /\ UNCHANGED <<raised, walkVars, elapsed>>

\* The record stays in the list until the next walk.
osal_stop_timerEx(t) ==
    /\ pc = "idle"
    /\ \E b \in Of(t) : rec' = [rec EXCEPT ![b] = [@ EXCEPT !.timer = NoTimer]]
    /\ UNCHANGED <<timerHead, next, heap, raised, walkVars, elapsed>>

\* The task processes the event.
Process(t) ==
    /\ pc = "idle"
    /\ t \in raised
    /\ raised' = raised \ {t}
    /\ UNCHANGED <<listVars, walkVars, elapsed>>

-----------------------------------------------------------------------------
(* Time, and osalTimerUpdate.                                              *)

Tick ==
    /\ elapsed < MaxElapsed
    /\ elapsed' = elapsed + 1
    /\ rec' = [b \in Block |-> IF b \in Listed /\ rec[b].timer # NoTimer
                                  /\ rec[b].age <= rec[b].want + 2 * MaxElapsed
                               THEN [rec[b] EXCEPT !.age = @ + 1] ELSE rec[b]]
    /\ UNCHANGED <<timerHead, next, heap, raised, walkVars>>

\* Mutant: the tick count is not stored for the next time.
osalTimeUpdate_CountsAgain ==
    /\ pc = "idle"
    /\ elapsed > 0
    /\ timerHead # NULL
    /\ updateTime' = elapsed
    /\ srchTimer' = timerHead
    /\ pc' = "walk"
    /\ UNCHANGED <<listVars, raised, prevTimer, freeTimer, elapsed>>

osalTimeUpdate ==
    /\ pc = "idle"
    /\ elapsed > 0
    /\ elapsed' = 0
    /\ IF timerHead = NULL
       THEN UNCHANGED walkVars
       ELSE /\ updateTime' = elapsed
            /\ srchTimer' = timerHead
            /\ pc' = "walk"
            /\ UNCHANGED <<prevTimer, freeTimer>>
    /\ UNCHANGED <<listVars, raised>>

\* Mutant: the timeout is not compared before the time is subtracted.
Left_Underflows(r) == r.timeout - updateTime

\* The record's timeout after this update, before reloading.
Left(r) == IF r.timeout <= updateTime THEN 0 ELSE r.timeout - updateTime

\* Reloading restarts the timer from its full timeout.
Reloads(r) == Left(r) = 0 /\ r.reloadTimeout # 0 /\ r.timer # NoTimer

\* Mutant: the timeout is not reloaded.
Updated_NoReload(r) == [r EXCEPT !.timeout = Left(r)]

Updated(r) ==
    IF Reloads(r)
    THEN [r EXCEPT !.timeout = r.reloadTimeout, !.want = r.reloadTimeout, !.age = 0]
    ELSE [r EXCEPT !.timeout = Left(r)]

\* Mutant: prevTimer follows also when the record is taken out of the list.
Visit_PrevFollows ==
    /\ pc = "walk"
    /\ srchTimer # NULL
    /\ LET r    == Updated(rec[srchTimer])
           gone == r.timeout = 0 \/ r.timer = NoTimer
       IN  /\ rec' = [rec EXCEPT ![srchTimer] = r]
           /\ raised' = IF Reloads(rec[srchTimer]) THEN raised \cup {r.timer} ELSE raised
           /\ timerHead' = IF gone /\ prevTimer = NULL THEN next[srchTimer] ELSE timerHead
           /\ next' = IF gone /\ prevTimer # NULL
                      THEN [next EXCEPT ![prevTimer] = next[srchTimer]] ELSE next
           /\ freeTimer' = IF gone THEN srchTimer ELSE NULL
           /\ pc' = IF gone THEN "signal" ELSE "walk"
    /\ prevTimer' = srchTimer
    /\ srchTimer' = next[srchTimer]
    /\ UNCHANGED <<heap, updateTime, elapsed>>

\* One round of the loop, up to the end of its critical section.
Visit ==
    /\ pc = "walk"
    /\ srchTimer # NULL
    /\ LET r    == Updated(rec[srchTimer])
           gone == r.timeout = 0 \/ r.timer = NoTimer
       IN  /\ rec' = [rec EXCEPT ![srchTimer] = r]
           /\ raised' = IF Reloads(rec[srchTimer]) THEN raised \cup {r.timer} ELSE raised
           /\ timerHead' = IF gone /\ prevTimer = NULL THEN next[srchTimer] ELSE timerHead
           /\ next' = IF gone /\ prevTimer # NULL
                      THEN [next EXCEPT ![prevTimer] = next[srchTimer]] ELSE next
           /\ freeTimer' = IF gone THEN srchTimer ELSE NULL
           /\ prevTimer' = IF gone THEN prevTimer ELSE srchTimer
           /\ srchTimer' = next[srchTimer]
           /\ pc' = IF gone THEN "signal" ELSE "walk"
    /\ UNCHANGED <<heap, updateTime, elapsed>>

WalkEnds ==
    /\ pc = "walk"
    /\ srchTimer = NULL
    /\ pc' = "idle"
    /\ prevTimer' = NULL        \* the locals are gone
    /\ updateTime' = 0
    /\ UNCHANGED <<listVars, raised, srchTimer, freeTimer, elapsed>>

\* A record that has been unlinked raises its event outside the critical
\* section; a stopped one has no event to raise.
Signal ==
    /\ pc = "signal"
    /\ raised' = IF rec[freeTimer].timeout = 0
                 THEN raised \cup ({rec[freeTimer].timer} \ {NoTimer}) ELSE raised
    /\ pc' = "free"
    /\ UNCHANGED <<listVars, srchTimer, prevTimer, freeTimer, updateTime, elapsed>>

FreeRecord ==
    /\ pc = "free"
    /\ heap' = heap \ {freeTimer}
    /\ rec' = [rec EXCEPT ![freeTimer] = Blank]     \* free memory has no contents
    /\ next' = [next EXCEPT ![freeTimer] = NULL]
    /\ freeTimer' = NULL
    /\ pc' = "walk"
    /\ UNCHANGED <<timerHead, raised, srchTimer, prevTimer, updateTime, elapsed>>

osalTimerUpdate == Visit \/ WalkEnds \/ Signal \/ FreeRecord

\* The timer of an expired record whose event is still to be raised.
Expiring == IF pc = "signal" /\ rec[freeTimer].timeout = 0
            THEN {rec[freeTimer].timer} \ {NoTimer} ELSE {}

-----------------------------------------------------------------------------
Next ==
    \/ \E t \in Timer, n \in Timeout :
          osal_start_timerEx(t, n) \/ osal_start_reload_timer(t, n)
    \/ \E t \in Timer : osal_stop_timerEx(t) \/ Process(t)
    \/ Tick
    \/ osalTimeUpdate
    \/ osalTimerUpdate

Spec == Init /\ [][Next]_vars

-----------------------------------------------------------------------------
(* Properties.                                                             *)

\* Whatever is appended while the loop walks: the list ends, its records and
\* the one being freed are exactly the allocated ones (no leak, no record used
\* after it is freed), the cursors stand on neighbours, and a timer has one
\* record, also while an expired one is still to be freed.
ListSound ==
    /\ Nth[Cardinality(Block)] = NULL
    /\ heap = Listed \cup ({freeTimer} \ {NULL})
    /\ freeTimer \notin Listed
    /\ pc # "idle" /\ srchTimer # NULL =>
          /\ srchTimer \in Listed
          /\ srchTimer = IF prevTimer = NULL THEN timerHead ELSE next[prevTimer]
    /\ pc # "idle" /\ prevTimer # NULL => prevTimer \in Listed
    /\ \A b, c \in Listed :
          rec[b].timer = rec[c].timer /\ rec[b].timer # NoTimer => b = c

\* The records the walk still has to visit.
ToVisit == {b \in Listed : pc # "idle" /\ srchTimer # NULL /\
              \E i, j \in DOMAIN Nth : i <= j /\ Nth[i] = srchTimer /\ Nth[j] = b}

\* By how much a timer may be early: a pass of the main loop is charged with the
\* time before the timer was started, and a timer that an interrupt starts
\* during the walk is charged with the time that the walk brings, too.
EarlyBy(t) == IF t \in IsrTimer THEN 2 * MaxElapsed ELSE MaxElapsed

\* The error of a running timer does not accumulate, over any number of passes,
\* restarts and reloads: what its record has counted is the time since its
\* start, except for what the walk has not brought to it yet, and for what had
\* passed before that start.
CountsRealTime ==
    \A b \in Listed : rec[b].timer # NoTimer =>
        LET counted == rec[b].want - rec[b].timeout
            pending == elapsed + (IF b \in ToVisit THEN updateTime ELSE 0)
        IN  /\ rec[b].age <= counted + pending
            /\ counted + pending <= rec[b].age + EarlyBy(rec[b].timer)

\* A timer expires when the walk takes its record out or reloads it.  It is then
\* early by no more than EarlyBy, late by no more than the time this update
\* brings and the time since it began, and its event is raised.
ExpiresOnTime ==
    [][osalTimerUpdate => \A t \in Timer : \A b \in Of(t) :
          b \notin Listed' \/ rec'[b].age < rec[b].age =>
              /\ rec[b].want <= rec[b].age + EarlyBy(t)
              /\ rec[b].age <= rec[b].want + 2 * MaxElapsed
              /\ t \in (raised \cup Expiring)']_vars

Service == INSTANCE TimerService WITH
    running <- {t \in Timer : Of(t) # {}},
    reloads <- {t \in Timer : \E b \in Of(t) : rec[b].reloadTimeout # 0},
    raised  <- raised \cup Expiring

\* A timer that is started raises its event once for each time it expires and
\* never after it was stopped, although records are unlinked, signalled and
\* freed in separate steps, and interrupts start timers between them.
TimersServe == Service!Spec

=============================================================================
