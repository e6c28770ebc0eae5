------------------------------ MODULE OsalTasks ------------------------------
(***************************************************************************)
(* The OSAL task system: event flags, the message queue and the main loop  *)
(* (Components/osal/common/OSAL.c), run by the main loop and preempted by  *)
(* interrupt service routines.                                             *)
(*                                                                         *)
(* Thread 0 is the main loop.  Threads 1 .. NIsr are interrupt priorities: *)
(* HAL_ENTER_ISR enables interrupts again, so an interrupt of a higher     *)
(* priority preempts one of a lower priority, and every interrupt preempts *)
(* the main loop.  What the code does between HAL_ENTER_CRITICAL_SECTION   *)
(* and HAL_EXIT_CRITICAL_SECTION is one action; what it does in two        *)
(* critical sections is two.                                               *)
(*                                                                         *)
(* The linked list at osal_qHead is a sequence of buffers.  Headers keep   *)
(* their dest_id, the `next' pointer of a header is not NULL only in the   *)
(* queue.  A call that is refused (MSG_BUFFER_NOT_AVAIL for a queued       *)
(* buffer, INVALID_MSG_POINTER, a NULL from the allocator) changes nothing *)
(* and is a stuttering step.                                               *)
(***************************************************************************)
EXTENDS Integers, Sequences

CONSTANTS tasksCnt,       \* number of entries of tasksArr
          NIsr,           \* number of interrupt priorities that call OSAL
          Msg,            \* the message buffers the heap has room for
          NoMsg,          \* the NULL message pointer
          AppEvent,       \* the event flags other than SYS_EVENT_MSG
          SYS_EVENT_MSG   \* the flag that announces a queued message

ASSUME ConstantsAssumption ==
    /\ tasksCnt \in Nat \ {0}
    /\ NIsr \in Nat
    /\ NoMsg \notin Msg
    /\ SYS_EVENT_MSG \notin AppEvent

Task         == 0 .. tasksCnt - 1
TASK_NO_TASK == tasksCnt          \* 0xFF in the code: no index of tasksArr
Thread       == 0 .. NIsr
Loop         == 0
Event        == AppEvent \cup {SYS_EVENT_MSG}

VARIABLES
    tasksEvents,   \* tasksEvents[t]: the set of flags raised for task t
    osal_qHead,    \* the queue of sent messages, oldest first
    dest_id,       \* dest_id[m]: the destination in the header of m
    heap,          \* the buffers that are allocated
    hold,          \* hold[th]: the buffers thread th has a pointer to
    send,          \* send[th]: where th stands in osal_msg_send
    running,       \* the interrupt priorities being served
    pc,            \* where osal_run_system stands
    idx,           \* its local idx
    events,        \* its local events, later the handler's return value
    polled,        \* the handler has called osal_msg_receive
    activeTaskID

queueVars == <<osal_qHead, dest_id, heap, hold, send>>
loopVars  == <<pc, idx, events, polled, activeTaskID>>
vars      == <<tasksEvents, queueVars, running, loopVars>>

Idle       == [stage |-> "idle", msg |-> NoMsg, to |-> TASK_NO_TASK]
SendStates == [stage : {"idle", "enqueue", "signal"},
               msg : Msg \cup {NoMsg}, to : Task \cup {TASK_NO_TASK}]

TypeOK ==
    /\ tasksEvents \in [Task -> SUBSET Event]
    /\ osal_qHead \in Seq(Msg)
    /\ dest_id \in [Msg -> Task \cup {TASK_NO_TASK}]
    /\ heap \in SUBSET Msg
    /\ hold \in [Thread -> SUBSET Msg]
    /\ send \in [Thread -> SendStates]
    /\ running \in SUBSET (Thread \ {Loop})
    /\ pc \in {"poll", "scan", "take", "run", "putback"}
    /\ idx \in Task
    /\ events \in SUBSET Event
    /\ polled \in BOOLEAN
    /\ activeTaskID \in Task \cup {TASK_NO_TASK}

Init ==
    /\ tasksEvents = [t \in Task |-> {}]
    /\ osal_qHead = <<>>
    /\ dest_id = [m \in Msg |-> TASK_NO_TASK]
    /\ heap = {}
    /\ hold = [th \in Thread |-> {}]
    /\ send = [th \in Thread |-> Idle]
    /\ running = {}
    /\ pc = "poll"
    /\ idx = 0
    /\ events = {}
    /\ polled = FALSE
    /\ activeTaskID = TASK_NO_TASK

-----------------------------------------------------------------------------
(* Preemption.                                                             *)

CanRun(th) ==
    /\ th = Loop \/ th \in running
    /\ \A i \in running : i <= th

\* Thread th is in code that may call the API: an interrupt service routine,
\* the polling of the drivers and timers, or a task's event processor.
InCode(th) ==
    /\ CanRun(th)
    /\ send[th].stage = "idle"
    /\ th = Loop => pc \in {"poll", "run"}

\* The documented contract of a receiver: it has freed, or sent on, every
\* buffer it was given or has allocated.
Settled(th) == \A m \in hold[th] : dest_id[m] # TASK_NO_TASK

Interrupt(i) ==
    /\ i \notin running
    /\ \A j \in running : j < i
    /\ running' = running \cup {i}
    /\ UNCHANGED <<tasksEvents, queueVars, loopVars>>

ReturnFromIsr(i) ==
    /\ i \in running
    /\ InCode(i)
    /\ Settled(i)
    /\ running' = running \ {i}
    /\ hold' = [hold EXCEPT ![i] = {}]
    /\ UNCHANGED <<tasksEvents, osal_qHead, dest_id, heap, send, loopVars>>

-----------------------------------------------------------------------------
(* The API that every thread may call.                                     *)

osal_set_event(th, t, e) ==
    /\ InCode(th)
    /\ tasksEvents' = [tasksEvents EXCEPT ![t] = @ \cup {e}]
    /\ UNCHANGED <<queueVars, running, loopVars>>

osal_msg_allocate(th, m) ==
    /\ InCode(th)
    /\ m \notin heap
    /\ heap' = heap \cup {m}
    /\ dest_id' = [dest_id EXCEPT ![m] = TASK_NO_TASK]
    /\ hold' = [hold EXCEPT ![th] = @ \cup {m}]
    /\ UNCHANGED <<tasksEvents, osal_qHead, send, running, loopVars>>

\* Mutant: the buffer is freed without a look at its header.
osal_msg_deallocate_AnyBuffer(th, m) ==
    /\ InCode(th)
    /\ m \in hold[th]
    /\ heap' = heap \ {m}
    /\ hold' = [hold EXCEPT ![th] = @ \ {m}]
    /\ UNCHANGED <<tasksEvents, osal_qHead, dest_id, send, running, loopVars>>

\* Also what osal_msg_send does with a destination that is no task.
osal_msg_deallocate(th, m) ==
    /\ InCode(th)
    /\ m \in hold[th]
    /\ dest_id[m] = TASK_NO_TASK
    /\ heap' = heap \ {m}
    /\ hold' = [hold EXCEPT ![th] = @ \ {m}]
    /\ UNCHANGED <<tasksEvents, osal_qHead, dest_id, send, running, loopVars>>

\* osal_msg_send, up to the assignment of the destination.  The caller keeps
\* its pointer, and may go on using it until it returns.
osal_msg_send(th, t, m) ==
    /\ InCode(th)
    /\ m \in hold[th]
    /\ dest_id[m] = TASK_NO_TASK
    /\ dest_id' = [dest_id EXCEPT ![m] = t]
    /\ send' = [send EXCEPT ![th] = [stage |-> "enqueue", msg |-> m, to |-> t]]
    /\ UNCHANGED <<tasksEvents, osal_qHead, heap, hold, running, loopVars>>

\* Mutant: the message becomes the head of the list (osal_msg_push).
osal_msg_enqueue_AtHead(th) ==
    /\ CanRun(th)
    /\ send[th].stage = "enqueue"
    /\ osal_qHead' = <<send[th].msg>> \o osal_qHead
    /\ send' = [send EXCEPT ![th] = [stage |-> "signal", msg |-> @.msg, to |-> @.to]]
    /\ UNCHANGED <<tasksEvents, dest_id, heap, hold, running, loopVars>>

osal_msg_enqueue(th) ==
    /\ CanRun(th)
    /\ send[th].stage = "enqueue"
    /\ osal_qHead' = Append(osal_qHead, send[th].msg)
    /\ send' = [send EXCEPT ![th] = [stage |-> "signal", msg |-> @.msg, to |-> @.to]]
    /\ UNCHANGED <<tasksEvents, dest_id, heap, hold, running, loopVars>>

SignalTask(th) ==
    /\ CanRun(th)
    /\ send[th].stage = "signal"
    /\ tasksEvents' = [tasksEvents EXCEPT ![send[th].to] = @ \cup {SYS_EVENT_MSG}]
    /\ send' = [send EXCEPT ![th] = Idle]
    /\ UNCHANGED <<osal_qHead, dest_id, heap, hold, running, loopVars>>

-----------------------------------------------------------------------------
(* osal_msg_receive, called by a task's event processor for its own task,  *)
(* in the branch that handles SYS_EVENT_MSG.                               *)

\* The positions of the queue that hold a message for task t.
ForTask(t) == {i \in 1 .. Len(osal_qHead) : dest_id[osal_qHead[i]] = t}

\* Mutant: the predecessor's link is set to NULL.
Extract_Truncates(i) == SubSeq(osal_qHead, 1, i - 1)

\* The queue without its element at position i (osal_msg_extract).
Extract(i) == [j \in 1 .. Len(osal_qHead) - 1 |->
                  IF j < i THEN osal_qHead[j] ELSE osal_qHead[j + 1]]

\* Mutant: the flag is cleared although another message waits.
FlagsAfterSearch_AlwaysClears(t, found) == tasksEvents[t] \ {SYS_EVENT_MSG}

\* What the search leaves in the task's flags: a second message raises
\* SYS_EVENT_MSG again, otherwise the flag is cleared.
FlagsAfterSearch(t, found) ==
    IF \E i, j \in found : i # j
    THEN tasksEvents[t] \cup {SYS_EVENT_MSG}
    ELSE tasksEvents[t] \ {SYS_EVENT_MSG}

Receiving ==
    /\ InCode(Loop)
    /\ pc = "run"
    /\ SYS_EVENT_MSG \in events
    /\ polled' = TRUE
    /\ tasksEvents' = [tasksEvents EXCEPT ![idx] = FlagsAfterSearch(idx, ForTask(idx))]
    /\ UNCHANGED <<heap, send, running, pc, idx, events, activeTaskID>>

osal_msg_receive ==
    /\ Receiving
    /\ \E i \in ForTask(idx) :
          /\ \A j \in ForTask(idx) : i <= j
          /\ osal_qHead' = Extract(i)
          /\ dest_id' = [dest_id EXCEPT ![osal_qHead[i]] = TASK_NO_TASK]
          /\ hold' = [hold EXCEPT ![Loop] = @ \cup {osal_qHead[i]}]

osal_msg_receive_NULL ==
    /\ Receiving
    /\ ForTask(idx) = {}
    /\ UNCHANGED <<osal_qHead, dest_id, hold>>

-----------------------------------------------------------------------------
(* osal_run_system: one pass.  `poll' is osalTimeUpdate and                *)
(* Hal_ProcessPoll, whose callbacks use the API.                           *)

StartScan ==
    /\ InCode(Loop)
    /\ pc = "poll"
    /\ Settled(Loop)
    /\ hold' = [hold EXCEPT ![Loop] = {}]
    /\ pc' = "scan"
    /\ idx' = 0
    /\ UNCHANGED <<tasksEvents, osal_qHead, dest_id, heap, send, running,
                   events, polled, activeTaskID>>

\* The scan reads the flags without a critical section.
ScanReady ==
    /\ CanRun(Loop)
    /\ pc = "scan"
    /\ tasksEvents[idx] # {}
    /\ pc' = "take"
    /\ UNCHANGED <<tasksEvents, queueVars, running, idx, events, polled, activeTaskID>>

\* Mutant: the scan runs past the last task.
ScanNext_PastTheEnd ==
    /\ CanRun(Loop)
    /\ pc = "scan"
    /\ tasksEvents[idx] = {}
    /\ idx' = idx + 1
    /\ UNCHANGED <<tasksEvents, queueVars, running, pc, events, polled, activeTaskID>>

ScanNext ==
    /\ CanRun(Loop)
    /\ pc = "scan"
    /\ tasksEvents[idx] = {}
    /\ idx + 1 \in Task
    /\ idx' = idx + 1
    /\ UNCHANGED <<tasksEvents, queueVars, running, pc, events, polled, activeTaskID>>

ScanEnd ==
    /\ CanRun(Loop)
    /\ pc = "scan"
    /\ tasksEvents[idx] = {}
    /\ idx + 1 \notin Task
    /\ pc' = "poll"
    /\ UNCHANGED <<tasksEvents, queueVars, running, idx, events, polled, activeTaskID>>

TakeEvents ==
    /\ CanRun(Loop)
    /\ pc = "take"
    /\ events' = tasksEvents[idx]
    /\ tasksEvents' = [tasksEvents EXCEPT ![idx] = {}]
    /\ activeTaskID' = idx
    /\ polled' = FALSE
    /\ pc' = "run"
    /\ UNCHANGED <<queueVars, running, idx>>

\* An event processor handles one event and returns the others.  It tests
\* SYS_EVENT_MSG first, and then receives at least once (MT_ProcessEvent) or
\* until the queue has no message for it (CommonApp_ProcessEvent).
HandlerReturns ==
    /\ InCode(Loop)
    /\ pc = "run"
    /\ Settled(Loop)
    /\ \E e \in events :
          /\ SYS_EVENT_MSG \in events => e = SYS_EVENT_MSG /\ polled
          /\ events' = events \ {e}
    /\ hold' = [hold EXCEPT ![Loop] = {}]
    /\ activeTaskID' = TASK_NO_TASK
    /\ pc' = "putback"
    /\ UNCHANGED <<tasksEvents, osal_qHead, dest_id, heap, send, running, idx, polled>>

\* Mutant: the handler's return value replaces the flags raised meanwhile.
PutBack_Overwrites ==
    /\ CanRun(Loop)
    /\ pc = "putback"
    /\ tasksEvents' = [tasksEvents EXCEPT ![idx] = events]
    /\ events' = {}
    /\ pc' = "poll"
    /\ UNCHANGED <<queueVars, running, idx, polled, activeTaskID>>

PutBack ==
    /\ CanRun(Loop)
    /\ pc = "putback"
    /\ tasksEvents' = [tasksEvents EXCEPT ![idx] = @ \cup events]
    /\ events' = {}
    /\ pc' = "poll"
    /\ UNCHANGED <<queueVars, running, idx, polled, activeTaskID>>

-----------------------------------------------------------------------------
ApiCall(th) ==
    \/ \E t \in Task, e \in AppEvent : osal_set_event(th, t, e)
    \/ \E m \in Msg : osal_msg_allocate(th, m)
    \/ \E m \in Msg : osal_msg_deallocate(th, m)
    \/ \E t \in Task, m \in Msg : osal_msg_send(th, t, m)
    \/ osal_msg_enqueue(th)
    \/ SignalTask(th)

osal_run_system ==
    \/ StartScan \/ ScanReady \/ ScanNext \/ ScanEnd
    \/ TakeEvents \/ HandlerReturns \/ PutBack
    \/ osal_msg_receive \/ osal_msg_receive_NULL

Isr(i) == Interrupt(i) \/ ReturnFromIsr(i)

Next ==
    \/ \E th \in Thread : ApiCall(th)
    \/ \E i \in Thread \ {Loop} : Isr(i)
    \/ osal_run_system

Spec == Init /\ [][Next]_vars

-----------------------------------------------------------------------------
(* Fairness.  The main loop gets on with its work whenever interrupts let  *)
(* it, service routines and event processors return, and so does the       *)
(* polling of the drivers.  Nothing is assumed about how often events are  *)
(* raised or messages are sent.                                            *)

LoopControl ==
    \/ StartScan \/ ScanReady \/ ScanNext \/ ScanEnd \/ TakeEvents \/ PutBack
    \/ osal_msg_enqueue(Loop) \/ SignalTask(Loop)

Fairness ==
    /\ SF_vars(LoopControl)
    /\ []<>(running = {})
    /\ []<>(pc # "run") /\ []<>(pc # "poll")

FairSpec == Spec /\ Fairness

-----------------------------------------------------------------------------
(* Properties.                                                             *)

Queued == {osal_qHead[i] : i \in 1 .. Len(osal_qHead)}

\* Somebody is going to make task t call osal_msg_receive.
WakeUpPending(t) ==
    \/ SYS_EVENT_MSG \in tasksEvents[t]
    \/ \E th \in Thread : send[th].stage = "signal" /\ send[th].to = t
    \/ pc = "run" /\ idx = t /\ SYS_EVENT_MSG \in events /\ ~polled

\* No message is stranded: at every instant, also between the two critical
\* sections of osal_msg_send and while a handler drains its messages, a task
\* with a queued message is flagged, about to be flagged, or about to receive.
NoLostWakeup == \A m \in Queued : WakeUpPending(dest_id[m])

\* "don't deallocate queued buffer" (OSAL.c:464): every buffer in the queue is
\* allocated, is linked once, and is addressed to a task, whatever its sender
\* goes on doing with the pointer it still has.
QueueSound ==
    /\ Queued \subseteq heap
    /\ \A i, j \in 1 .. Len(osal_qHead) : osal_qHead[i] = osal_qHead[j] => i = j
    /\ \A m \in Queued : dest_id[m] \in Task

\* Every allocated buffer is in the queue or with one thread that will free or
\* send it, and never with two: no leak and no second free inside OSAL.
OneOwner ==
    /\ \A m \in heap : m \in Queued \/ \E th \in Thread : m \in hold[th]
    /\ \A th1, th2 \in Thread : th1 # th2 => hold[th1] \cap hold[th2] = {}
    /\ \A th \in Thread : hold[th] \subseteq heap

\* The flags of task t that are raised or in the hands of its handler.
Raised(t) ==
    tasksEvents[t] \cup (IF pc \in {"run", "putback"} /\ idx = t THEN events ELSE {})

\* A flag leaves Raised(t) in no other step than the return of t's handler.
ConsumedByHandler ==
    \A t \in Task : \A e \in AppEvent :
        e \in Raised(t) /\ e \notin Raised(t)'
            => pc = "run" /\ pc' = "putback" /\ idx = t /\ e \in events

\* An application flag, once raised, is withdrawn only by the return of the
\* handler of its own task that processed it: not by the read-and-clear of
\* osal_run_system, by osal_msg_receive, or by adding back what is left while
\* interrupts raise flags.
EventsOnlyConsumed == [][ConsumedByHandler]_vars

\* Only work of a higher priority keeps a message waiting: a message for task
\* t leaves the queue, unless flags of tasks before t in tasksArr are raised
\* again and again.
ServedUnlessPreempted ==
    \A t \in Task, m \in Msg :
        \/ []<>~(m \in Queued /\ dest_id[m] = t)
        \/ []<>(\E u \in 0 .. t - 1 : tasksEvents[u] # {})

\* What task t sees of the queue q whose headers are d: box[n] is its share of
\* the first n messages.
BoxUpTo(q, d, t) ==
    LET box[n \in 0 .. Len(q)] ==
            IF n = 0 THEN <<>>
            ELSE IF d[q[n]] = t THEN Append(box[n - 1], q[n]) ELSE box[n - 1]
    IN  box

Box(q, d, t) == BoxUpTo(q, d, t)[Len(q)]

Mailbox == INSTANCE TaskMailbox WITH box <- [t \in Task |-> Box(osal_qHead, dest_id, t)]

\* The shared queue is a FIFO mailbox for each task: messages of one task are
\* received once and in the order they were sent, whatever interrupts send in
\* between and however the tasks' messages are mixed in the list.
FifoPerTask == Mailbox!Spec

=============================================================================
