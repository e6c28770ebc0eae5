-------------------------- MODULE OsalTasks_proofs --------------------------
(***************************************************************************)
(* Proofs about OsalTasks, for every number of tasks, of interrupt         *)
(* priorities and of buffers.                                              *)
(*                                                                         *)
(* QueueSound, OneOwner and NoLostWakeup are not inductive: what keeps a   *)
(* buffer out of two hands is the agreement between its header, the queue  *)
(* and the senders that stand between writing the header and linking the   *)
(* buffer.  SendAgrees and HeaderAgrees state that agreement; IInv is the  *)
(* conjunction.                                                            *)
(***************************************************************************)
EXTENDS OsalTasks, SequenceTheorems, WellFoundedInduction, TLAPS

Linking(th, m) == send[th].stage = "enqueue" /\ send[th].msg = m

\* A thread inside osal_msg_send has a buffer and a task, the buffer is its
\* own until it is linked, and the main loop sends only from its handlers and
\* from the polling of the drivers.
SendAgrees ==
    /\ \A th \in Thread : send[th].stage # "idle" =>
          send[th].msg \in Msg /\ send[th].to \in Task
    /\ \A th \in Thread : \A m \in Msg : Linking(th, m) =>
          m \in hold[th] /\ m \notin Queued /\ dest_id[m] = send[th].to
    /\ send[Loop].stage # "idle" => pc \in {"poll", "run"}

\* The header of an allocated buffer names a task just when the buffer is in
\* the queue or being linked to it.
HeaderAgrees ==
    \A m \in heap : dest_id[m] # TASK_NO_TASK =>
        m \in Queued \/ \E th \in Thread : Linking(th, m)

\* An interrupt priority that is not being served has no pointers.
IsrAtRest == \A i \in Thread \ {Loop} : i \notin running => hold[i] = {}

Own == SendAgrees /\ HeaderAgrees /\ QueueSound /\ OneOwner /\ IsrAtRest

IInv == TypeOK /\ Own /\ NoLostWakeup

-----------------------------------------------------------------------------
(* The queue as a set.                                                     *)

\* Extract(i) removes one element, keeps the others, and repeats none.
LEMMA ExtractRemoves ==
    ASSUME TypeOK, QueueSound,
           NEW i \in 1 .. Len(osal_qHead), osal_qHead' = Extract(i)
    PROVE  /\ osal_qHead' \in Seq(Msg)
           /\ Queued' = Queued \ {osal_qHead[i]}
           /\ \A j, k \in 1 .. Len(osal_qHead') :
                 osal_qHead'[j] = osal_qHead'[k] => j = k
  <1> DEFINE n == Len(osal_qHead)
  <1>1. n \in Nat /\ \A j \in 1 .. n : osal_qHead[j] \in Msg
    BY DEF TypeOK
  <1>2. \A j \in 1 .. n - 1 : (IF j < i THEN osal_qHead[j] ELSE osal_qHead[j + 1]) \in Msg
    BY <1>1
  <1>3. osal_qHead' \in Seq(Msg) /\ Len(osal_qHead') = n - 1
    BY <1>1, <1>2 DEF Extract
  <1>4. \A j \in 1 .. n - 1 :
           osal_qHead'[j] = IF j < i THEN osal_qHead[j] ELSE osal_qHead[j + 1]
    BY <1>1 DEF Extract
  <1>5. \A j, k \in 1 .. n - 1 : osal_qHead'[j] = osal_qHead'[k] => j = k
    BY <1>1, <1>4 DEF QueueSound
  <1>6. Queued' \subseteq Queued \ {osal_qHead[i]}
    <2> SUFFICES ASSUME NEW j \in 1 .. n - 1
                 PROVE  osal_qHead'[j] \in Queued \ {osal_qHead[i]}
      BY <1>3 DEF Queued
    <2>1. CASE j < i
      BY <2>1, <1>1, <1>4 DEF Queued, QueueSound
    <2>2. CASE ~(j < i)
      BY <2>2, <1>1, <1>4 DEF Queued, QueueSound
    <2> QED BY <2>1, <2>2
  <1>7. Queued \ {osal_qHead[i]} \subseteq Queued'
    <2> SUFFICES ASSUME NEW j \in 1 .. n, j # i
                 PROVE  osal_qHead[j] \in Queued'
      BY DEF Queued
    <2>1. CASE j < i
      <3>1. j \in 1 .. n - 1 /\ osal_qHead'[j] = osal_qHead[j]
        BY <2>1, <1>1, <1>4
      <3> QED BY <3>1, <1>3 DEF Queued
    <2>2. CASE j > i
      <3>1. j - 1 \in 1 .. n - 1 /\ osal_qHead'[j - 1] = osal_qHead[j]
        BY <2>2, <1>1, <1>4
      <3> QED BY <3>1, <1>3 DEF Queued
    <2> QED BY <2>1, <2>2
  <1> QED BY <1>3, <1>5, <1>6, <1>7

\* Linking a buffer that is not in the queue adds it, once.
LEMMA AppendAdds ==
    ASSUME TypeOK, QueueSound,
           NEW m \in Msg, m \notin Queued, osal_qHead' = Append(osal_qHead, m)
    PROVE  /\ osal_qHead' \in Seq(Msg)
           /\ Queued' = Queued \cup {m}
           /\ \A j, k \in 1 .. Len(osal_qHead') :
                 osal_qHead'[j] = osal_qHead'[k] => j = k
  <1> DEFINE n == Len(osal_qHead)
  <1>1. n \in Nat /\ osal_qHead \in Seq(Msg)
    BY DEF TypeOK
  <1>2. /\ osal_qHead' \in Seq(Msg)
        /\ Len(osal_qHead') = n + 1
        /\ \A j \in 1 .. n : osal_qHead'[j] = osal_qHead[j]
        /\ osal_qHead'[n + 1] = m
    BY <1>1
  <1>3. \A j \in 1 .. n : osal_qHead[j] # m
    BY DEF Queued
  <1>4. \A j, k \in 1 .. n + 1 : osal_qHead'[j] = osal_qHead'[k] => j = k
    BY <1>1, <1>2, <1>3 DEF QueueSound
  <1>5. Queued' = Queued \cup {m}
    <2>1. \A j \in 1 .. n + 1 : osal_qHead'[j] \in Queued \cup {m}
      BY <1>1, <1>2 DEF Queued
    <2>2. \A j \in 1 .. n : j \in 1 .. n + 1
      BY <1>1
    <2>3. n + 1 \in 1 .. n + 1
      BY <1>1
    <2> QED BY <1>2, <2>1, <2>2, <2>3 DEF Queued
  <1> QED BY <1>2, <1>4, <1>5

-----------------------------------------------------------------------------
(* Type correctness.                                                       *)

LEMMA InitType == Init => TypeOK
  <1>1. 0 \in Task
    BY ConstantsAssumption DEF Task
  <1>2. Idle \in SendStates
    BY DEF Idle, SendStates
  <1>3. Init => /\ tasksEvents \in [Task -> SUBSET Event]
                /\ dest_id \in [Msg -> Task \cup {TASK_NO_TASK}]
                /\ hold \in [Thread -> SUBSET Msg]
                /\ send \in [Thread -> SendStates]
    BY <1>2 DEF Init
  <1>4. Init => /\ osal_qHead \in Seq(Msg)
                /\ heap \in SUBSET Msg
                /\ running \in SUBSET (Thread \ {Loop})
                /\ pc \in {"poll", "scan", "take", "run", "putback"}
                /\ idx \in Task
                /\ events \in SUBSET Event
                /\ polled \in BOOLEAN
                /\ activeTaskID \in Task \cup {TASK_NO_TASK}
    <2>1. <<>> \in Seq(Msg)
      OBVIOUS
    <2> QED BY <1>1, <2>1 DEF Init
  <1> QED BY <1>3, <1>4 DEF TypeOK

LEMMA TypeStep == TypeOK /\ QueueSound /\ SendAgrees /\ [Next]_vars => TypeOK'
  <1> SUFFICES ASSUME TypeOK, QueueSound, SendAgrees, [Next]_vars
               PROVE  TypeOK'
    OBVIOUS
  <1> USE ConstantsAssumption DEF TypeOK, Event, Idle, SendStates, queueVars, loopVars
  <1>1. CASE UNCHANGED vars
    BY <1>1 DEF vars
  <1>2. ASSUME NEW th \in Thread, ApiCall(th)
        PROVE  TypeOK'
    <2>1. CASE \E t \in Task, e \in AppEvent : osal_set_event(th, t, e)
      BY <2>1 DEF osal_set_event
    <2>2. CASE \E m \in Msg : osal_msg_allocate(th, m)
      BY <2>2 DEF osal_msg_allocate
    <2>3. CASE \E m \in Msg : osal_msg_deallocate(th, m)
      BY <2>3 DEF osal_msg_deallocate
    <2>4. CASE \E t \in Task, m \in Msg : osal_msg_send(th, t, m)
      BY <2>4 DEF osal_msg_send
    <2>5. CASE osal_msg_enqueue(th)
      <3>1. send[th].msg \in Msg
        BY <2>5 DEF osal_msg_enqueue, SendAgrees
      <3> QED BY <2>5, <3>1 DEF osal_msg_enqueue
    <2>6. CASE SignalTask(th)
      BY <2>6 DEF SignalTask
    <2> QED BY <1>2, <2>1, <2>2, <2>3, <2>4, <2>5, <2>6 DEF ApiCall
  <1>3. ASSUME NEW i \in Thread \ {Loop}, Isr(i)
        PROVE  TypeOK'
    BY <1>3 DEF Isr, Interrupt, ReturnFromIsr
  <1>4. CASE StartScan
    <2>1. 0 \in Task
      BY DEF Task
    <2>2. Loop \in Thread
      BY DEF Loop, Thread
    <2> QED BY <1>4, <2>1, <2>2 DEF StartScan
  <1>5. CASE ScanReady \/ ScanNext \/ ScanEnd
    BY <1>5 DEF ScanReady, ScanNext, ScanEnd
  <1>6. CASE TakeEvents
    BY <1>6 DEF TakeEvents
  <1>7. CASE HandlerReturns
    BY <1>7 DEF HandlerReturns
  <1>8. CASE PutBack
    BY <1>8 DEF PutBack
  <1>9. CASE osal_msg_receive
    <2>1. PICK i \in ForTask(idx) : osal_qHead' = Extract(i)
                                 /\ dest_id' = [dest_id EXCEPT ![osal_qHead[i]] = TASK_NO_TASK]
                                 /\ hold' = [hold EXCEPT ![Loop] = @ \cup {osal_qHead[i]}]
      BY <1>9 DEF osal_msg_receive
    <2>2. i \in 1 .. Len(osal_qHead) /\ osal_qHead[i] \in Msg
      BY DEF ForTask
    <2>3. osal_qHead' \in Seq(Msg)
      BY <2>1, <2>2, ExtractRemoves
    <2> QED BY <1>9, <2>1, <2>2, <2>3 DEF osal_msg_receive, Receiving, FlagsAfterSearch
  <1>10. CASE osal_msg_receive_NULL
    BY <1>10 DEF osal_msg_receive_NULL, Receiving, FlagsAfterSearch
  <1> QED BY <1>1, <1>2, <1>3, <1>4, <1>5, <1>6, <1>7, <1>8, <1>9, <1>10
          DEF Next, osal_run_system

-----------------------------------------------------------------------------
(* Ownership of the buffers.                                               *)

LEMMA InitOwn == Init => Own
  BY DEF Init, Own, IsrAtRest, SendAgrees, HeaderAgrees, QueueSound, OneOwner, Queued,
     Linking, Idle, Thread, Loop

\* A task is not TASK_NO_TASK, and the main loop is a thread.
LEMMA NoTaskIsNoTask == TASK_NO_TASK \notin Task /\ Loop \in Thread
  BY ConstantsAssumption DEF Task, TASK_NO_TASK, Loop, Thread

LEMMA AtRestStep == TypeOK /\ IsrAtRest /\ [Next]_vars => IsrAtRest'
  <1> SUFFICES ASSUME TypeOK, IsrAtRest, [Next]_vars
               PROVE  IsrAtRest'
    OBVIOUS
  <1> USE NoTaskIsNoTask DEF TypeOK, IsrAtRest, queueVars, loopVars
  <1>1. CASE UNCHANGED vars
    BY <1>1 DEF vars
  <1>2. ASSUME NEW th \in Thread, ApiCall(th)
        PROVE  IsrAtRest'
    <2>1. CASE \E t \in Task, e \in AppEvent : osal_set_event(th, t, e)
      BY <2>1 DEF osal_set_event
    <2>2. CASE \E m \in Msg : osal_msg_allocate(th, m)
      BY <2>2 DEF osal_msg_allocate, InCode, CanRun
    <2>3. CASE \E m \in Msg : osal_msg_deallocate(th, m)
      BY <2>3 DEF osal_msg_deallocate
    <2>4. CASE \E t \in Task, m \in Msg : osal_msg_send(th, t, m)
      BY <2>4 DEF osal_msg_send
    <2>5. CASE osal_msg_enqueue(th) \/ SignalTask(th)
      BY <2>5 DEF osal_msg_enqueue, SignalTask
    <2> QED BY <1>2, <2>1, <2>2, <2>3, <2>4, <2>5 DEF ApiCall
  <1>3. ASSUME NEW i \in Thread \ {Loop}, Isr(i)
        PROVE  IsrAtRest'
    BY <1>3 DEF Isr, Interrupt, ReturnFromIsr
  <1>4. CASE osal_run_system
    <2>1. CASE osal_msg_receive
      BY <2>1 DEF osal_msg_receive, Receiving
    <2>2. CASE osal_msg_receive_NULL
      BY <2>2 DEF osal_msg_receive_NULL, Receiving
    <2>3. CASE StartScan \/ HandlerReturns
      BY <2>3 DEF StartScan, HandlerReturns
    <2>4. CASE ScanReady \/ ScanNext \/ ScanEnd \/ TakeEvents \/ PutBack
      BY <2>4 DEF ScanReady, ScanNext, ScanEnd, TakeEvents, PutBack
    <2> QED BY <1>4, <2>1, <2>2, <2>3, <2>4 DEF osal_run_system
  <1> QED BY <1>1, <1>2, <1>3, <1>4 DEF Next

LEMMA OwnStep == TypeOK /\ Own /\ [Next]_vars => Own'
  <1> SUFFICES ASSUME TypeOK, Own, [Next]_vars
               PROVE  (SendAgrees /\ HeaderAgrees /\ QueueSound /\ OneOwner)'
    BY AtRestStep DEF Own
  <1> USE NoTaskIsNoTask DEF Own
  <1>1. CASE UNCHANGED vars
    BY <1>1 DEF vars, queueVars, loopVars, SendAgrees, HeaderAgrees, QueueSound,
            OneOwner, Queued, Linking
  <1>2. ASSUME NEW th \in Thread, ApiCall(th)
        PROVE  (SendAgrees /\ HeaderAgrees /\ QueueSound /\ OneOwner)'
    <2>1. CASE \E t \in Task, e \in AppEvent : osal_set_event(th, t, e)
      BY <2>1 DEF osal_set_event, queueVars, loopVars, SendAgrees, HeaderAgrees,
              QueueSound, OneOwner, Queued, Linking
    <2>2. ASSUME NEW m \in Msg, osal_msg_allocate(th, m)
          PROVE  (SendAgrees /\ HeaderAgrees /\ QueueSound /\ OneOwner)'
      <3> USE <2>2 DEF osal_msg_allocate, loopVars
      <3>1. Queued' = Queued /\ UNCHANGED <<send, osal_qHead, pc>>
        BY DEF Queued
      <3>2. m \notin Queued /\ \A i \in Thread : m \notin hold[i]
        BY DEF QueueSound, OneOwner
      <3>3. SendAgrees'
        BY <3>1, <3>2 DEF SendAgrees, Linking, TypeOK
      <3>4. HeaderAgrees'
        BY <3>1, <3>2 DEF HeaderAgrees, Linking, TypeOK
      <3>5. QueueSound'
        BY <3>1, <3>2 DEF QueueSound, TypeOK, Queued
      <3>6. OneOwner'
        BY <3>1, <3>2 DEF OneOwner, TypeOK
      <3> QED BY <3>3, <3>4, <3>5, <3>6
    <2>3. ASSUME NEW m \in Msg, osal_msg_deallocate(th, m)
          PROVE  (SendAgrees /\ HeaderAgrees /\ QueueSound /\ OneOwner)'
      <3> USE <2>3 DEF osal_msg_deallocate, loopVars
      <3>1. Queued' = Queued /\ UNCHANGED <<send, osal_qHead, pc, dest_id>>
        BY DEF Queued
      <3>2. m \notin Queued /\ \A i \in Thread : ~Linking(i, m)
        BY DEF QueueSound, SendAgrees, Linking
      <3>3. SendAgrees'
        BY <3>1, <3>2 DEF SendAgrees, Linking, TypeOK
      <3>4. HeaderAgrees'
        BY <3>1, <3>2 DEF HeaderAgrees, Linking, TypeOK
      <3>5. QueueSound'
        BY <3>1, <3>2 DEF QueueSound, TypeOK
      <3>6. OneOwner'
        BY <3>1, <3>2 DEF OneOwner, TypeOK
      <3> QED BY <3>3, <3>4, <3>5, <3>6
    <2>4. ASSUME NEW t \in Task, NEW m \in Msg, osal_msg_send(th, t, m)
          PROVE  (SendAgrees /\ HeaderAgrees /\ QueueSound /\ OneOwner)'
      <3> USE <2>4 DEF osal_msg_send, loopVars
      <3>1. Queued' = Queued /\ UNCHANGED <<osal_qHead, pc, heap, hold>>
        BY DEF Queued
      <3>2. m \notin Queued /\ \A i \in Thread : ~Linking(i, m)
        BY DEF QueueSound, SendAgrees, Linking
      <3>3. send[th].stage = "idle" /\ (th = Loop => pc \in {"poll", "run"})
        BY DEF InCode
      <3>4. /\ send'[th] = [stage |-> "enqueue", msg |-> m, to |-> t]
            /\ \A i \in Thread : i # th => send'[i] = send[i]
            /\ dest_id'[m] = t
            /\ \A k \in Msg : k # m => dest_id'[k] = dest_id[k]
        BY DEF TypeOK
      <3>5. SendAgrees'
        BY <3>1, <3>2, <3>3, <3>4 DEF SendAgrees, Linking
      <3>6. HeaderAgrees'
        BY <3>1, <3>2, <3>3, <3>4 DEF HeaderAgrees, Linking, TypeOK
      <3>7. QueueSound'
        BY <3>1, <3>2, <3>4 DEF QueueSound, TypeOK
      <3>8. OneOwner'
        BY <3>1 DEF OneOwner
      <3> QED BY <3>5, <3>6, <3>7, <3>8
    <2>5. CASE osal_msg_enqueue(th)
      <3> USE <2>5 DEF osal_msg_enqueue, loopVars
      <3> DEFINE m == send[th].msg
      <3>1. m \in Msg /\ Linking(th, m) /\ m \in hold[th] /\ m \notin Queued
            /\ dest_id[m] = send[th].to /\ send[th].to \in Task
        BY DEF SendAgrees, Linking
      <3>2. /\ Queued' = Queued \cup {m}
            /\ \A j, k \in 1 .. Len(osal_qHead') :
                  osal_qHead'[j] = osal_qHead'[k] => j = k
        BY <3>1, AppendAdds
      <3>3. /\ send'[th] = [stage |-> "signal", msg |-> m, to |-> send[th].to]
            /\ \A i \in Thread : i # th => send'[i] = send[i]
        BY DEF TypeOK
      <3>4. \A i \in Thread : i # th => ~Linking(i, m)
        BY <3>1 DEF SendAgrees, OneOwner
      <3>5. SendAgrees'
        BY <3>1, <3>2, <3>3, <3>4 DEF SendAgrees, Linking
      <3>6. HeaderAgrees'
        BY <3>1, <3>2, <3>3, <3>4 DEF HeaderAgrees, Linking
      <3>7. QueueSound'
        BY <3>1, <3>2 DEF QueueSound, OneOwner
      <3>8. OneOwner'
        BY <3>2 DEF OneOwner
      <3> QED BY <3>5, <3>6, <3>7, <3>8
    <2>6. CASE SignalTask(th)
      <3> USE <2>6 DEF SignalTask, loopVars
      <3>1. Queued' = Queued
        BY DEF Queued
      <3>2. /\ send'[th] = Idle
            /\ \A i \in Thread : i # th => send'[i] = send[i]
        BY DEF TypeOK
      <3>3. \A i \in Thread, m \in Msg : Linking(i, m)' <=> Linking(i, m)
        BY <3>2 DEF Linking, Idle
      <3>4. SendAgrees'
        BY <3>1, <3>2, <3>3 DEF SendAgrees, Idle, Linking
      <3>5. HeaderAgrees'
        BY <3>1, <3>3 DEF HeaderAgrees, TypeOK
      <3>6. QueueSound' /\ OneOwner'
        BY <3>1 DEF QueueSound, OneOwner
      <3> QED BY <3>4, <3>5, <3>6
    <2> QED BY <1>2, <2>1, <2>2, <2>3, <2>4, <2>5, <2>6 DEF ApiCall
  <1>3. ASSUME NEW i \in Thread \ {Loop}, Isr(i)
        PROVE  (SendAgrees /\ HeaderAgrees /\ QueueSound /\ OneOwner)'
    <2>1. CASE Interrupt(i)
      BY <2>1 DEF Interrupt, queueVars, loopVars, SendAgrees, HeaderAgrees,
              QueueSound, OneOwner, Queued, Linking
    <2>2. CASE ReturnFromIsr(i)
      <3> USE <2>2 DEF ReturnFromIsr, loopVars
      <3>1. Queued' = Queued /\ UNCHANGED <<send, dest_id, heap, pc, osal_qHead>>
        BY DEF Queued
      <3>2. \A m \in hold[i] : m \in Queued
        BY DEF Settled, InCode, HeaderAgrees, SendAgrees, OneOwner, Linking, TypeOK
      <3>3. SendAgrees'
        BY <3>1 DEF SendAgrees, Linking, InCode, TypeOK
      <3>4. HeaderAgrees' /\ QueueSound'
        BY <3>1 DEF HeaderAgrees, QueueSound, Linking
      <3>5. OneOwner'
        BY <3>1, <3>2 DEF OneOwner, TypeOK
      <3> QED BY <3>3, <3>4, <3>5
    <2> QED BY <1>3, <2>1, <2>2 DEF Isr
  <1>4. CASE StartScan \/ HandlerReturns
    <2> USE <1>4 DEF StartScan, HandlerReturns
    <2>1. /\ InCode(Loop) /\ Settled(Loop)
          /\ hold' = [hold EXCEPT ![Loop] = {}]
          /\ UNCHANGED <<send, dest_id, heap, osal_qHead>>
      OBVIOUS
    <2>2. Queued' = Queued
      BY DEF Queued
    <2>3. \A m \in hold[Loop] : m \in Queued
      BY <2>1 DEF Settled, InCode, HeaderAgrees, SendAgrees, OneOwner, Linking, TypeOK
    <2>4. SendAgrees'
      BY <2>1, <2>2 DEF SendAgrees, Linking, InCode, TypeOK
    <2>5. HeaderAgrees' /\ QueueSound'
      BY <2>1, <2>2 DEF HeaderAgrees, QueueSound, Linking
    <2>6. OneOwner'
      BY <2>1, <2>2, <2>3 DEF OneOwner, TypeOK
    <2> QED BY <2>4, <2>5, <2>6
  <1>5. CASE ScanReady \/ ScanNext \/ ScanEnd \/ TakeEvents \/ PutBack
    BY <1>5 DEF ScanReady, ScanNext, ScanEnd, TakeEvents, PutBack, queueVars,
            SendAgrees, HeaderAgrees, QueueSound, OneOwner, Queued, Linking
  <1>6. CASE osal_msg_receive
    <2>1. PICK i \in ForTask(idx) : osal_qHead' = Extract(i)
                                 /\ dest_id' = [dest_id EXCEPT ![osal_qHead[i]] = TASK_NO_TASK]
                                 /\ hold' = [hold EXCEPT ![Loop] = @ \cup {osal_qHead[i]}]
      BY <1>6 DEF osal_msg_receive
    <2> DEFINE m == osal_qHead[i]
    <2>2. i \in 1 .. Len(osal_qHead) /\ m \in Msg /\ m \in Queued /\ m \in heap
      BY DEF ForTask, TypeOK, Queued, QueueSound
    <2>3. /\ Queued' = Queued \ {m}
          /\ \A j, k \in 1 .. Len(osal_qHead') :
                osal_qHead'[j] = osal_qHead'[k] => j = k
      BY <2>1, <2>2, ExtractRemoves
    <2>4. UNCHANGED <<heap, send, pc>>
      BY <1>6 DEF osal_msg_receive, Receiving
    <2>5. \A th \in Thread : ~Linking(th, m)
      BY <2>2 DEF SendAgrees
    <2>6. /\ dest_id'[m] = TASK_NO_TASK
          /\ \A k \in Msg : k # m => dest_id'[k] = dest_id[k]
          /\ hold'[Loop] = hold[Loop] \cup {m}
          /\ \A th \in Thread : th # Loop => hold'[th] = hold[th]
      BY <2>1, <2>2 DEF TypeOK
    <2>7. SendAgrees'
      BY <2>3, <2>4, <2>5, <2>6 DEF SendAgrees, Linking
    <2>8. HeaderAgrees'
      BY <2>3, <2>4, <2>6 DEF HeaderAgrees, Linking, TypeOK
    <2>9. QueueSound'
      BY <2>3, <2>4, <2>6 DEF QueueSound, TypeOK
    <2>10. \A th \in Thread : th # Loop => hold[th] = {}
      <3>1. running = {}
        BY <1>6 DEF osal_msg_receive, Receiving, InCode, CanRun, TypeOK, Thread, Loop
      <3> QED BY <3>1 DEF IsrAtRest
    <2>11. OneOwner'
      BY <2>2, <2>3, <2>4, <2>6, <2>10 DEF OneOwner
    <2> QED BY <2>7, <2>8, <2>9, <2>11
  <1>7. CASE osal_msg_receive_NULL
    BY <1>7 DEF osal_msg_receive_NULL, Receiving, SendAgrees, HeaderAgrees,
            QueueSound, OneOwner, Queued, Linking
  <1> QED BY <1>1, <1>2, <1>3, <1>4, <1>5, <1>6, <1>7 DEF Next, osal_run_system

-----------------------------------------------------------------------------
(* Wake-ups.                                                               *)

LEMMA InitWakeup == Init => NoLostWakeup
  BY DEF Init, NoLostWakeup, Queued

LEMMA WakeupStep == TypeOK /\ Own /\ NoLostWakeup /\ [Next]_vars => NoLostWakeup'
  <1> SUFFICES ASSUME TypeOK, Own, NoLostWakeup, [Next]_vars
               PROVE  NoLostWakeup'
    OBVIOUS
  <1> USE NoTaskIsNoTask DEF Own
  <1>0. \A m \in Queued : m \in Msg /\ dest_id[m] \in Task
    BY DEF QueueSound, TypeOK
  <1>1. CASE UNCHANGED vars
    BY <1>1 DEF vars, queueVars, loopVars, NoLostWakeup, WakeUpPending, Queued
  <1>2. ASSUME NEW th \in Thread, ApiCall(th)
        PROVE  NoLostWakeup'
    <2>1. CASE \E t \in Task, e \in AppEvent : osal_set_event(th, t, e)
      <3>1. PICK t \in Task, e \in AppEvent : osal_set_event(th, t, e)
        BY <2>1
      <3>2. \A u \in Task : tasksEvents[u] \subseteq tasksEvents'[u]
        BY <3>1 DEF osal_set_event, TypeOK
      <3>3. UNCHANGED <<queueVars, loopVars>> /\ Queued' = Queued
        BY <3>1 DEF osal_set_event, queueVars, Queued
      <3> QED BY <1>0, <3>2, <3>3 DEF NoLostWakeup, WakeUpPending, queueVars, loopVars
    <2>2. CASE \E m \in Msg : osal_msg_allocate(th, m) \/ osal_msg_deallocate(th, m)
      <3>1. PICK m \in Msg : osal_msg_allocate(th, m) \/ osal_msg_deallocate(th, m)
        BY <2>2
      <3>2. /\ UNCHANGED <<tasksEvents, send, loopVars>> /\ Queued' = Queued
            /\ \A k \in Queued : dest_id'[k] = dest_id[k]
        BY <3>1, <1>0 DEF osal_msg_allocate, osal_msg_deallocate, Queued, QueueSound, TypeOK
      <3> QED BY <3>2 DEF NoLostWakeup, WakeUpPending, loopVars
    <2>3. CASE \E t \in Task, m \in Msg : osal_msg_send(th, t, m)
      <3>1. PICK t \in Task, m \in Msg : osal_msg_send(th, t, m)
        BY <2>3
      <3>2. UNCHANGED <<tasksEvents, loopVars, osal_qHead>> /\ Queued' = Queued
        BY <3>1 DEF osal_msg_send, Queued
      <3>3. \A k \in Queued : dest_id'[k] = dest_id[k]
        BY <3>1, <1>0 DEF osal_msg_send, TypeOK
      <3>4. \A i \in Thread : send[i].stage = "signal" => send'[i] = send[i]
        BY <3>1 DEF osal_msg_send, InCode, TypeOK
      <3> QED BY <3>2, <3>3, <3>4 DEF NoLostWakeup, WakeUpPending, loopVars
    <2>4. CASE osal_msg_enqueue(th)
      <3>0. PICK m \in Msg : m = send[th].msg
        BY <2>4 DEF osal_msg_enqueue, SendAgrees
      <3>1. m \notin Queued /\ dest_id[m] = send[th].to
        BY <2>4, <3>0 DEF osal_msg_enqueue, SendAgrees, Linking
      <3>2. Queued' = Queued \cup {m} /\ UNCHANGED <<tasksEvents, dest_id, loopVars>>
        BY <2>4, <3>0, <3>1, AppendAdds DEF osal_msg_enqueue
      <3>3. /\ send'[th].stage = "signal" /\ send'[th].to = send[th].to
            /\ \A i \in Thread : i # th => send'[i] = send[i]
            /\ send[th].stage # "signal"
        BY <2>4 DEF osal_msg_enqueue, TypeOK
      <3>4. WakeUpPending(dest_id[m])'
        BY <3>1, <3>2, <3>3 DEF WakeUpPending
      <3>5. \A k \in Queued : WakeUpPending(dest_id[k])'
        BY <3>2, <3>3 DEF NoLostWakeup, WakeUpPending, loopVars
      <3> QED BY <3>2, <3>4, <3>5 DEF NoLostWakeup
    <2>5. CASE SignalTask(th)
      <3>1. send[th].to \in Task
        BY <2>5 DEF SignalTask, SendAgrees
      <3>2. /\ SYS_EVENT_MSG \in tasksEvents'[send[th].to]
            /\ \A u \in Task : tasksEvents[u] \subseteq tasksEvents'[u]
            /\ \A i \in Thread : i # th => send'[i] = send[i]
        BY <2>5, <3>1 DEF SignalTask, TypeOK
      <3>3. UNCHANGED <<dest_id, loopVars>> /\ Queued' = Queued
        BY <2>5 DEF SignalTask, Queued
      <3> QED BY <1>0, <3>1, <3>2, <3>3 DEF NoLostWakeup, WakeUpPending, loopVars
    <2> QED BY <1>2, <2>1, <2>2, <2>3, <2>4, <2>5 DEF ApiCall
  <1>3. ASSUME NEW i \in Thread \ {Loop}, Isr(i)
        PROVE  NoLostWakeup'
    BY <1>3 DEF Isr, Interrupt, ReturnFromIsr, NoLostWakeup, WakeUpPending,
            queueVars, loopVars, Queued
  <1>4. CASE StartScan \/ ScanReady \/ ScanNext \/ ScanEnd
    BY <1>4 DEF StartScan, ScanReady, ScanNext, ScanEnd, NoLostWakeup,
            WakeUpPending, queueVars, Queued
  <1>5. CASE TakeEvents
    <2>1. UNCHANGED <<send, dest_id, idx>> /\ Queued' = Queued
      BY <1>5 DEF TakeEvents, queueVars, Queued
    <2>2. /\ pc = "take" /\ pc' = "run" /\ events' = tasksEvents[idx] /\ polled' = FALSE
          /\ \A u \in Task : u # idx => tasksEvents'[u] = tasksEvents[u]
      BY <1>5 DEF TakeEvents, TypeOK
    <2> QED BY <1>0, <2>1, <2>2 DEF NoLostWakeup, WakeUpPending
  <1>6. CASE HandlerReturns
    BY <1>6 DEF HandlerReturns, NoLostWakeup, WakeUpPending, Queued
  <1>7. CASE PutBack
    <2>1. UNCHANGED <<send, dest_id>> /\ Queued' = Queued /\ pc = "putback"
      BY <1>7 DEF PutBack, queueVars, Queued
    <2>2. \A u \in Task : tasksEvents[u] \subseteq tasksEvents'[u]
      BY <1>7 DEF PutBack, TypeOK
    <2> QED BY <1>0, <2>1, <2>2 DEF NoLostWakeup, WakeUpPending
  <1>8. CASE osal_msg_receive
    <2>1. PICK i \in ForTask(idx) : osal_qHead' = Extract(i)
                                 /\ dest_id' = [dest_id EXCEPT ![osal_qHead[i]] = TASK_NO_TASK]
      BY <1>8 DEF osal_msg_receive
    <2> DEFINE m == osal_qHead[i]
    <2>2. i \in 1 .. Len(osal_qHead) /\ m \in Msg
      BY DEF ForTask, TypeOK
    <2>3. Queued' = Queued \ {m} /\ \A k \in Queued' : dest_id'[k] = dest_id[k]
      BY <1>0, <2>1, <2>2, ExtractRemoves DEF TypeOK
    <2>4. /\ UNCHANGED <<send, pc, idx, events>>
          /\ \A u \in Task : u # idx => tasksEvents'[u] = tasksEvents[u]
          /\ tasksEvents'[idx] = FlagsAfterSearch(idx, ForTask(idx))
      BY <1>8 DEF osal_msg_receive, Receiving, TypeOK
    <2>5. ASSUME NEW k \in Queued', dest_id[k] = idx
          PROVE  SYS_EVENT_MSG \in tasksEvents'[idx]
      <3>1. PICK j \in 1 .. Len(osal_qHead) : osal_qHead[j] = k
        BY <2>3, <2>5 DEF Queued
      <3>2. j \in ForTask(idx) /\ j # i
        BY <2>3, <2>5, <3>1 DEF ForTask
      <3> QED BY <2>4, <3>2 DEF FlagsAfterSearch
    <2> QED BY <1>0, <2>3, <2>4, <2>5 DEF NoLostWakeup, WakeUpPending
  <1>9. CASE osal_msg_receive_NULL
    <2>1. UNCHANGED <<dest_id, send, pc, idx, events>> /\ Queued' = Queued
      BY <1>9 DEF osal_msg_receive_NULL, Receiving, Queued
    <2>2. \A u \in Task : u # idx => tasksEvents'[u] = tasksEvents[u]
      BY <1>9 DEF osal_msg_receive_NULL, Receiving, TypeOK
    <2>3. \A k \in Queued : dest_id[k] # idx
      BY <1>9 DEF osal_msg_receive_NULL, ForTask, Queued
    <2> QED BY <1>0, <2>1, <2>2, <2>3 DEF NoLostWakeup, WakeUpPending
  <1> QED BY <1>1, <1>2, <1>3, <1>4, <1>5, <1>6, <1>7, <1>8, <1>9
          DEF Next, osal_run_system

-----------------------------------------------------------------------------
(* The theorems.                                                           *)

\* The inductive invariant.
THEOREM Invariance == Spec => []IInv
  <1>1. Init => IInv
    BY InitType, InitOwn, InitWakeup DEF IInv
  <1>2. IInv /\ [Next]_vars => IInv'
    BY TypeStep, OwnStep, WakeupStep DEF IInv, Own
  <1> QED BY <1>1, <1>2, PTL DEF Spec

\* Every variable has its type.
THEOREM TypeCorrect == Spec => []TypeOK
  BY Invariance, PTL DEF IInv

\* No message is stranded in the queue: interrupts that send, handlers that
\* drain one message or all of them, and the read-and-clear of the main loop
\* leave every queued message with a wake-up that is on its way.
THEOREM NoStrandedMessage == Spec => []NoLostWakeup
  BY Invariance, PTL DEF IInv

\* A queued buffer is allocated, linked once and addressed to a task.
THEOREM QueueIsSound == Spec => []QueueSound
  BY Invariance, PTL DEF IInv, Own

\* OSAL neither leaks a buffer nor gives it to two threads.
THEOREM BuffersHaveOneOwner == Spec => []OneOwner
  BY Invariance, PTL DEF IInv, Own

\* A raised application flag is withdrawn only by the handler that processed it.
THEOREM FlagsAreNotLost == Spec => EventsOnlyConsumed
  <1>1. TypeOK /\ [Next]_vars => [ConsumedByHandler]_vars
    <2> SUFFICES ASSUME TypeOK, Next,
                        NEW t \in Task, NEW e \in AppEvent,
                        e \in Raised(t), e \notin Raised(t)'
                 PROVE  pc = "run" /\ pc' = "putback" /\ idx = t /\ e \in events
      BY DEF ConsumedByHandler
    <2> USE ConstantsAssumption DEF TypeOK, Raised
    <2>1. CASE \E th \in Thread : ApiCall(th)
      BY <2>1 DEF ApiCall, osal_set_event, osal_msg_allocate, osal_msg_deallocate,
              osal_msg_send, osal_msg_enqueue, SignalTask, loopVars, queueVars
    <2>2. CASE \E i \in Thread \ {Loop} : Isr(i)
      BY <2>2 DEF Isr, Interrupt, ReturnFromIsr, loopVars, queueVars
    <2>3. CASE StartScan \/ ScanReady \/ ScanNext \/ ScanEnd
      BY <2>3 DEF StartScan, ScanReady, ScanNext, ScanEnd
    <2>4. CASE TakeEvents
      BY <2>4 DEF TakeEvents
    <2>5. CASE HandlerReturns
      BY <2>5 DEF HandlerReturns
    <2>6. CASE PutBack
      BY <2>6 DEF PutBack
    <2>7. CASE osal_msg_receive \/ osal_msg_receive_NULL
      <3>1. Receiving
        BY <2>7 DEF osal_msg_receive, osal_msg_receive_NULL
      <3> QED BY <3>1 DEF Receiving, FlagsAfterSearch
    <2> QED BY <2>1, <2>2, <2>3, <2>4, <2>5, <2>6, <2>7 DEF Next, osal_run_system
  <1> QED BY <1>1, TypeCorrect, PTL DEF Spec, EventsOnlyConsumed

-----------------------------------------------------------------------------
(* The mailboxes.  A task's box is computed along the queue, so its facts  *)
(* are shown by induction on the length of the part that has been read.    *)

LessNat == {ss \in Nat \X Nat : ss[1] < ss[2]}

LEMMA SetInduction ==
    ASSUME NEW S, 0 \in S, \A n \in Nat : n \in S => n + 1 \in S
    PROVE  Nat \subseteq S
  <1>1. SUFFICES ASSUME Nat \ S # {} PROVE FALSE
    OBVIOUS
  <1>2. IsWellFoundedOn(LessNat, Nat)
    BY NatLessThanWellFounded DEF OpToRel, LessNat
  <1>3. PICK m \in Nat \ S : \A k \in Nat \ S : ~(<<k, m>> \in LessNat)
    BY <1>1, <1>2, WFMin
  <1>4. m - 1 \in Nat /\ <<m - 1, m>> \in LessNat /\ (m - 1) + 1 = m
    BY <1>3 DEF LessNat
  <1>5. m - 1 \in S
    BY <1>3, <1>4
  <1> QED BY <1>3, <1>4, <1>5

\* BoxUpTo satisfies the equation that defines it.
LEMMA BoxEquation ==
    ASSUME NEW M, NEW q \in Seq(M), NEW d, NEW t
    PROVE  /\ BoxUpTo(q, d, t)[0] = <<>>
           /\ \A n \in 1 .. Len(q) :
                 BoxUpTo(q, d, t)[n] = IF d[q[n]] = t
                                       THEN Append(BoxUpTo(q, d, t)[n - 1], q[n])
                                       ELSE BoxUpTo(q, d, t)[n - 1]
  <1> DEFINE Eq(L, f) == f = [n \in 0 .. L |->
                 IF n = 0 THEN <<>>
                 ELSE IF d[q[n]] = t THEN Append(f[n - 1], q[n]) ELSE f[n - 1]]
             S == {L \in Nat : \E f : Eq(L, f)}
  <1>1. 0 \in S
    <2>1. Eq(0, [n \in 0 .. 0 |-> <<>>])
      OBVIOUS
    <2> QED BY <2>1
  <1>2. ASSUME NEW L \in Nat, L \in S
        PROVE  L + 1 \in S
    <2>1. PICK f : Eq(L, f)
      BY <1>2
    <2> DEFINE last == IF d[q[L + 1]] = t THEN Append(f[L], q[L + 1]) ELSE f[L]
               g == [n \in 0 .. L + 1 |-> IF n <= L THEN f[n] ELSE last]
    <2>2. \A n \in 0 .. L + 1 : g[n] = IF n = 0 THEN <<>>
                 ELSE IF d[q[n]] = t THEN Append(g[n - 1], q[n]) ELSE g[n - 1]
      <3>1. TAKE n \in 0 .. L + 1
      <3>2. CASE n = 0
        BY <2>1, <3>2
      <3>3. CASE n # 0 /\ n <= L
        <4>1. n \in 0 .. L /\ n - 1 \in 0 .. L + 1 /\ n - 1 <= L
          BY <3>3
        <4>2. f[n] = IF d[q[n]] = t THEN Append(f[n - 1], q[n]) ELSE f[n - 1]
          BY <2>1, <3>3, <4>1
        <4>3. g[n] = f[n] /\ g[n - 1] = f[n - 1]
          BY <3>3, <4>1
        <4> QED BY <3>3, <4>2, <4>3
      <3>4. CASE n = L + 1
        <4>1. g[n] = last /\ g[n - 1] = f[L] /\ n # 0
          BY <3>4
        <4> QED BY <3>4, <4>1
      <3> QED BY <3>2, <3>3, <3>4
    <2>3. Eq(L + 1, g)
      BY <2>2
    <2>4. L + 1 \in Nat
      OBVIOUS
    <2> HIDE DEF Eq, g
    <2> QED BY <2>3, <2>4
  <1>3. Len(q) \in S
    <2>1. Len(q) \in Nat
      OBVIOUS
    <2> HIDE DEF S
    <2> QED BY <1>1, <1>2, <2>1, SetInduction
  <1>4. \E f : Eq(Len(q), f)
    BY <1>3
  <1>5. BoxUpTo(q, d, t) = CHOOSE f : Eq(Len(q), f)
    BY DEF BoxUpTo
  <1>6. Eq(Len(q), BoxUpTo(q, d, t))
    <2> HIDE DEF Eq
    <2> QED BY <1>4, <1>5
  <1> DEFINE F == BoxUpTo(q, d, t)
  <1>7. F = [n \in 0 .. Len(q) |-> IF n = 0 THEN <<>>
                 ELSE IF d[q[n]] = t THEN Append(F[n - 1], q[n]) ELSE F[n - 1]]
    BY <1>6
  <1>8. Len(q) \in Nat
    OBVIOUS
  <1> HIDE DEF F
  <1>9. F[0] = <<>>
    <2>1. 0 \in 0 .. Len(q)
      BY <1>8
    <2> QED BY <1>7, <2>1
  <1>10. ASSUME NEW n \in 1 .. Len(q)
         PROVE  F[n] = IF d[q[n]] = t THEN Append(F[n - 1], q[n]) ELSE F[n - 1]
    <2>1. n \in 0 .. Len(q) /\ n # 0
      BY <1>8
    <2> QED BY <1>7, <2>1
  <1> QED BY <1>9, <1>10 DEF F

\* A box holds messages of the queue that are addressed to its task.
LEMMA BoxHolds ==
    ASSUME NEW M, NEW q \in Seq(M), NEW d, NEW t, NEW n \in 0 .. Len(q)
    PROVE  /\ BoxUpTo(q, d, t)[n] \in Seq(M)
           /\ \A i \in 1 .. Len(BoxUpTo(q, d, t)[n]) :
                 \E j \in 1 .. n : BoxUpTo(q, d, t)[n][i] = q[j] /\ d[q[j]] = t
  <1> DEFINE U == BoxUpTo(q, d, t)
             Good(m) == /\ U[m] \in Seq(M)
                        /\ \A i \in 1 .. Len(U[m]) : \E j \in 1 .. m : U[m][i] = q[j] /\ d[q[j]] = t
             S == {m \in Nat : m <= Len(q) => Good(m)}
  <1>0. Len(q) \in Nat
    OBVIOUS
  <1>1. 0 \in S
    <2>1. U[0] = <<>>
      BY BoxEquation
    <2>2. <<>> \in Seq(M) /\ Len(<<>>) = 0
      OBVIOUS
    <2> HIDE DEF U
    <2>3. Good(0)
      BY <2>1, <2>2
    <2> QED BY <2>3
  <1>2. ASSUME NEW m \in Nat, m \in S
        PROVE  m + 1 \in S
    <2>1. SUFFICES ASSUME m + 1 <= Len(q) PROVE Good(m + 1)
      OBVIOUS
    <2>2. m + 1 \in 1 .. Len(q) /\ (m + 1) - 1 = m /\ m <= Len(q) /\ q[m + 1] \in M
      BY <1>0, <2>1
    <2>3. U[m + 1] = IF d[q[m + 1]] = t THEN Append(U[m], q[m + 1]) ELSE U[m]
      BY <2>2, BoxEquation
    <2>4. Good(m)
      BY <1>2, <2>2
    <2> HIDE DEF U
    <2>5. CASE d[q[m + 1]] = t
      <3>1. U[m + 1] \in Seq(M) /\ Len(U[m + 1]) = Len(U[m]) + 1
            /\ U[m + 1][Len(U[m]) + 1] = q[m + 1]
            /\ \A i \in 1 .. Len(U[m]) : U[m + 1][i] = U[m][i]
        BY <2>2, <2>3, <2>4, <2>5
      <3>2. ASSUME NEW i \in 1 .. Len(U[m + 1])
            PROVE  \E j \in 1 .. m + 1 : U[m + 1][i] = q[j] /\ d[q[j]] = t
        <4>1. CASE i = Len(U[m]) + 1
          BY <2>5, <3>1, <4>1
        <4>2. CASE i \in 1 .. Len(U[m])
          <5>1. PICK j \in 1 .. m : U[m][i] = q[j] /\ d[q[j]] = t
            BY <2>4, <4>2
          <5>2. j \in 1 .. m + 1
            OBVIOUS
          <5> QED BY <3>1, <4>2, <5>1, <5>2
        <4> QED BY <2>4, <3>1, <4>1, <4>2
      <3> QED BY <3>1, <3>2
    <2>6. CASE d[q[m + 1]] # t
      <3>1. U[m + 1] = U[m]
        BY <2>3, <2>6
      <3>2. \A j \in 1 .. m : j \in 1 .. m + 1
        OBVIOUS
      <3> QED BY <2>4, <3>1, <3>2
    <2> QED BY <2>5, <2>6
  <1>3. Nat \subseteq S
    <2> HIDE DEF S
    <2> QED BY <1>1, <1>2, SetInduction
  <1>4. n \in S /\ n <= Len(q)
    BY <1>0, <1>3
  <1> QED BY <1>4

LEMMA BoxEmpty ==
    ASSUME NEW M, NEW q \in Seq(M), NEW d, NEW t, NEW n \in 0 .. Len(q),
           \A j \in 1 .. n : d[q[j]] # t
    PROVE  BoxUpTo(q, d, t)[n] = <<>>
  <1> DEFINE u == BoxUpTo(q, d, t)[n]
  <1>1. u \in Seq(M)
    BY BoxHolds
  <1>2. \A i \in 1 .. Len(u) : \E j \in 1 .. n : u[i] = q[j] /\ d[q[j]] = t
    BY BoxHolds
  <1> HIDE DEF u
  <1>3. Len(u) \in Nat /\ ~(1 \in 1 .. Len(u))
    BY <1>1, <1>2
  <1>4. Len(u) = 0
    BY <1>3
  <1>5. u = <<>>
    BY <1>1, <1>4, EmptySeq
  <1> QED BY <1>5 DEF u

\* A box depends only on the messages read and on which of them are its task's.
SameUpTo(q, r, d, e, t, n) ==
    \A i \in 1 .. n : r[i] = q[i] /\ (e[q[i]] = t <=> d[q[i]] = t)

LEMMA BoxSame ==
    ASSUME NEW M, NEW q \in Seq(M), NEW r \in Seq(M), NEW d, NEW e, NEW t,
           NEW n \in 0 .. Len(q), n <= Len(r), SameUpTo(q, r, d, e, t, n)
    PROVE  BoxUpTo(r, e, t)[n] = BoxUpTo(q, d, t)[n]
  <1> DEFINE S == {m \in Nat : m <= n => BoxUpTo(r, e, t)[m] = BoxUpTo(q, d, t)[m]}
  <1>0. Len(q) \in Nat /\ Len(r) \in Nat
    OBVIOUS
  <1>1. 0 \in S
    BY BoxEquation
  <1>2. ASSUME NEW m \in Nat, m \in S
        PROVE  m + 1 \in S
    <2>1. SUFFICES ASSUME m + 1 <= n
                   PROVE  BoxUpTo(r, e, t)[m + 1] = BoxUpTo(q, d, t)[m + 1]
      OBVIOUS
    <2>2. m + 1 \in 1 .. Len(q) /\ m + 1 \in 1 .. Len(r) /\ m + 1 \in 1 .. n
          /\ (m + 1) - 1 = m
      BY <1>0, <2>1
    <2>3. BoxUpTo(r, e, t)[m] = BoxUpTo(q, d, t)[m]
      BY <1>2, <2>1
    <2>4. r[m + 1] = q[m + 1] /\ (e[q[m + 1]] = t <=> d[q[m + 1]] = t)
      BY <2>2 DEF SameUpTo
    <2>5. BoxUpTo(r, e, t)[m + 1] = IF e[r[m + 1]] = t
                                    THEN Append(BoxUpTo(r, e, t)[m], r[m + 1])
                                    ELSE BoxUpTo(r, e, t)[m]
      BY <2>2, BoxEquation
    <2>6. BoxUpTo(q, d, t)[m + 1] = IF d[q[m + 1]] = t
                                    THEN Append(BoxUpTo(q, d, t)[m], q[m + 1])
                                    ELSE BoxUpTo(q, d, t)[m]
      BY <2>2, BoxEquation
    <2> QED BY <2>3, <2>4, <2>5, <2>6
  <1>3. Nat \subseteq S
    <2> HIDE DEF S
    <2> QED BY <1>1, <1>2, SetInduction
  <1>4. n \in Nat /\ n \in S
    BY <1>0, <1>3
  <1> QED BY <1>4

\* What a message adds to the box of task t when it is read.
Share(m, d, t) == IF d[m] = t THEN <<m>> ELSE <<>>

LEMMA ShareIsSeq ==
    ASSUME NEW M, NEW m \in M, NEW d, NEW t
    PROVE  Share(m, d, t) \in Seq(M)
  <1>1. <<m>> \in Seq(M) /\ <<>> \in Seq(M)
    OBVIOUS
  <1> QED BY <1>1 DEF Share

\* A box grows by shares.
LEMMA BoxGrows ==
    ASSUME NEW M, NEW q \in Seq(M), NEW d, NEW t, NEW n \in 1 .. Len(q)
    PROVE  BoxUpTo(q, d, t)[n] = BoxUpTo(q, d, t)[n - 1] \o Share(q[n], d, t)
  <1> DEFINE U == BoxUpTo(q, d, t)
  <1>1. n - 1 \in 0 .. Len(q) /\ q[n] \in M
    OBVIOUS
  <1>2. U[n - 1] \in Seq(M)
    BY <1>1, BoxHolds
  <1>3. U[n] = IF d[q[n]] = t THEN Append(U[n - 1], q[n]) ELSE U[n - 1]
    BY BoxEquation
  <1> HIDE DEF U
  <1>4. CASE d[q[n]] = t
    <2>1. Append(U[n - 1], q[n]) = U[n - 1] \o <<q[n]>>
      BY <1>1, <1>2, AppendIsConcat
    <2> QED BY <1>2, <1>3, <1>4, <2>1 DEF Share, U
  <1>5. CASE d[q[n]] # t
    <2>1. U[n - 1] \o <<>> = U[n - 1]
      BY <1>2, ConcatEmptySeq
    <2> QED BY <1>2, <1>3, <1>5, <2>1 DEF Share, U
  <1> QED BY <1>4, <1>5

\* Linking a message at the end adds its share to every box.
LEMMA BoxAppend ==
    ASSUME NEW M, NEW q \in Seq(M), NEW m \in M, NEW d, NEW t
    PROVE  Box(Append(q, m), d, t) = Box(q, d, t) \o Share(m, d, t)
  <1> DEFINE r == Append(q, m)
             n == Len(q)
  <1>1. /\ r \in Seq(M) /\ n \in Nat /\ Len(r) = n + 1 /\ r[n + 1] = m
        /\ \A i \in 1 .. n : r[i] = q[i]
    OBVIOUS
  <1>2. n \in 0 .. Len(q) /\ n <= Len(r) /\ n + 1 \in 1 .. Len(r) /\ (n + 1) - 1 = n
    BY <1>1
  <1> HIDE DEF r, n
  <1>3. BoxUpTo(r, d, t)[n] = BoxUpTo(q, d, t)[n]
    <2>1. SameUpTo(q, r, d, d, t, n)
      BY <1>1 DEF SameUpTo
    <2>2. r \in Seq(M) /\ n \in 0 .. Len(q) /\ n <= Len(r)
      BY <1>1, <1>2
    <2> QED BY <2>1, <2>2, BoxSame
  <1>4. BoxUpTo(r, d, t)[n + 1] = BoxUpTo(r, d, t)[(n + 1) - 1] \o Share(r[n + 1], d, t)
    <2>1. r \in Seq(M) /\ n + 1 \in 1 .. Len(r)
      BY <1>1, <1>2
    <2> QED BY <2>1, BoxGrows
  <1>5. Len(r) = n + 1
    BY <1>1
  <1> QED BY <1>1, <1>2, <1>3, <1>4, <1>5 DEF Box, r, n

\* Taking the message at i out of the queue takes its share out of the front
\* of a box, when it is the first message of that box's task.
Skips(q, r, d, e, t, i) ==
    /\ Len(r) = Len(q) - 1
    /\ SameUpTo(q, r, d, e, t, i - 1)
    /\ \A j \in i .. Len(q) - 1 :
          r[j] = q[j + 1] /\ (e[q[j + 1]] = t <=> d[q[j + 1]] = t)
    /\ d[q[i]] = t => \A j \in 1 .. i - 1 : d[q[j]] # t

LEMMA BoxSkips ==
    ASSUME NEW M, NEW q \in Seq(M), NEW r \in Seq(M), NEW d, NEW e, NEW t,
           NEW i \in 1 .. Len(q), Skips(q, r, d, e, t, i)
    PROVE  /\ Box(r, e, t) \in Seq(M)
           /\ Box(q, d, t) = Share(q[i], d, t) \o Box(r, e, t)
  <1> DEFINE A == BoxUpTo(q, d, t)
             B == BoxUpTo(r, e, t)
             n == Len(q)
             x == Share(q[i], d, t)
             S == {k \in Nat : (i - 1) + k <= n - 1 =>
                                 A[i + k] = x \o B[(i - 1) + k]}
  <1>1. n \in Nat /\ i \in Nat /\ i >= 1 /\ i <= n /\ q[i] \in M /\ Len(r) = n - 1
    BY DEF Skips
  <1>2. x \in Seq(M)
    BY <1>1, ShareIsSeq
  <1>3. \A k \in 0 .. n - 1 : B[k] \in Seq(M)
    <2>1. \A k \in 0 .. Len(r) : B[k] \in Seq(M)
      BY BoxHolds
    <2> QED BY <1>1, <2>1
  <1>12. \A k \in 0 .. n : A[k] \in Seq(M)
    BY BoxHolds
  <1>4. A[i - 1] \in Seq(M) /\ A[i] = A[i - 1] \o x
    <2>1. i - 1 \in 0 .. Len(q)
      BY <1>1
    <2>2. A[i - 1] \in Seq(M)
      BY <1>12, <2>1
    <2>3. A[i] = A[i - 1] \o x
      BY BoxGrows
    <2> QED BY <2>2, <2>3
  <1>5. A[i - 1] = B[i - 1]
    <2>1. i - 1 \in 0 .. Len(q) /\ i - 1 <= Len(r)
      BY <1>1
    <2>2. SameUpTo(q, r, d, e, t, i - 1)
      BY DEF Skips
    <2> QED BY <2>1, <2>2, BoxSame
  <1>6. A[i] = x \o B[i - 1]
    <2>1. CASE d[q[i]] = t
      <3>1. i - 1 \in 0 .. Len(q)
        BY <1>1
      <3>2. \A j \in 1 .. i - 1 : d[q[j]] # t
        BY <2>1 DEF Skips
      <3>3. A[i - 1] = <<>>
        BY <3>1, <3>2, BoxEmpty
      <3> HIDE DEF A, B, x
      <3> QED BY <1>2, <1>4, <1>5, <3>3, ConcatEmptySeq
    <2>2. CASE d[q[i]] # t
      <3>1. x = <<>>
        BY <2>2 DEF Share
      <3> HIDE DEF A, B, x
      <3> QED BY <1>4, <1>5, <3>1, ConcatEmptySeq
    <2> QED BY <2>1, <2>2
  <1>7. 0 \in S
    <2> HIDE DEF A, B, x
    <2>1. i + 0 = i /\ (i - 1) + 0 = i - 1
      BY <1>1
    <2> QED BY <1>6, <2>1
  <1>8. ASSUME NEW k \in Nat, k \in S
        PROVE  k + 1 \in S
    <2>1. SUFFICES ASSUME (i - 1) + (k + 1) <= n - 1
                   PROVE  A[i + (k + 1)] = x \o B[(i - 1) + (k + 1)]
      <3> HIDE DEF A, B, x, n
      <3> QED OBVIOUS
    <2> DEFINE a == i + (k + 1)
               b == (i - 1) + (k + 1)
    <2>2. /\ a \in 1 .. Len(q) /\ b \in 1 .. Len(r) /\ b \in i .. n - 1 /\ b + 1 = a
          /\ a - 1 = i + k /\ b - 1 = (i - 1) + k /\ b - 1 \in 0 .. n - 1
          /\ (i - 1) + k <= n - 1 /\ q[a] \in M
      BY <1>1, <2>1
    <2>3. A[a - 1] = x \o B[b - 1]
      <3> HIDE DEF A, B, x, a, b
      <3> QED BY <1>8, <2>2
    <2> HIDE DEF a, b, n
    <2>4. A[a] = A[a - 1] \o Share(q[a], d, t)
      BY <2>2, BoxGrows
    <2>5. B[b] = B[b - 1] \o Share(r[b], e, t)
      BY <2>2, BoxGrows
    <2>6. Share(r[b], e, t) = Share(q[a], d, t)
      <3>1. r[b] = q[b + 1] /\ (e[q[b + 1]] = t <=> d[q[b + 1]] = t)
        BY <2>2 DEF Skips, n
      <3> QED BY <2>2, <3>1 DEF Share
    <2>7. Share(q[a], d, t) \in Seq(M)
      BY <2>2, ShareIsSeq
    <2>8. B[b - 1] \in Seq(M)
      BY <1>3, <2>2
    <2> HIDE DEF A, B, x
    <2>9. (x \o B[b - 1]) \o Share(q[a], d, t) = x \o (B[b - 1] \o Share(q[a], d, t))
      <3> DEFINE y == B[b - 1]
                 z == Share(q[a], d, t)
      <3>1. x \in Seq(M) /\ y \in Seq(M) /\ z \in Seq(M)
        BY <1>2, <2>7, <2>8
      <3> HIDE DEF y, z
      <3>2. (x \o y) \o z = x \o (y \o z)
        BY <3>1, ConcatAssociative
      <3> QED BY <3>2 DEF y, z
    <2>10. A[a] = x \o B[b]
      BY <2>3, <2>4, <2>5, <2>6, <2>9
    <2> QED BY <2>10 DEF a, b
  <1>9. Nat \subseteq S
    <2> HIDE DEF S
    <2> QED BY <1>7, <1>8, SetInduction
  <1>10. A[n] = x \o B[n - 1]
    <2>1. n - i \in Nat /\ i + (n - i) = n /\ (i - 1) + (n - i) = n - 1 /\ n - 1 <= n - 1
      BY <1>1
    <2>2. n - i \in S
      BY <1>9, <2>1
    <2> HIDE DEF A, B, x, n
    <2> QED BY <2>1, <2>2
  <1>11. n - 1 \in 0 .. n - 1
    BY <1>1
  <1>13. Box(q, d, t) = A[n] /\ Box(r, e, t) = B[n - 1]
    BY <1>1 DEF Box
  <1> HIDE DEF A, B, x, n
  <1>14. x = Share(q[i], d, t)
    BY DEF x
  <1> QED BY <1>3, <1>10, <1>11, <1>13, <1>14

\* The first message of a box is the oldest queued message of its task.
LEMMA ShareFirst ==
    ASSUME NEW M, NEW m \in M, NEW s \in Seq(M)
    PROVE  <<m>> \o s # <<>> /\ Tail(<<m>> \o s) = s
  <1>1. <<m>> \in Seq(M) /\ Len(<<m>>) = 1 /\ <<m>>[1] = m
    OBVIOUS
  <1> DEFINE w == <<m>> \o s
  <1>2. /\ w \in Seq(M) /\ Len(w) = 1 + Len(s)
        /\ \A i \in 1 .. Len(s) : w[i + 1] = s[i]
    BY <1>1, ConcatProperties
  <1>3. Len(s) \in Nat /\ \A i \in 1 .. Len(s) : s[i] \in M
    OBVIOUS
  <1> HIDE DEF w
  <1>4. w # <<>>
    BY <1>2, <1>3
  <1>5. Tail(w) \in Seq(M) /\ Len(Tail(w)) = Len(s)
    BY <1>2, <1>3, <1>4
  <1>6. \A i \in 1 .. Len(s) : Tail(w)[i] = s[i]
    BY <1>2, <1>3, <1>4
  <1>7. Tail(w) = s
    BY <1>5, <1>6, SeqEqual
  <1> QED BY <1>4, <1>7 DEF w

-----------------------------------------------------------------------------
(* The queue implements the mailboxes.                                     *)

boxOf(t)  == Box(osal_qHead, dest_id, t)
boxes     == [t \in Task |-> boxOf(t)]

\* The headers of messages that are not in the queue are nobody's business.
LEMMA BoxesSame ==
    ASSUME TypeOK, osal_qHead' = osal_qHead,
           \A m \in Queued : dest_id'[m] = dest_id[m]
    PROVE  boxes' = boxes
  <1>1. osal_qHead \in Seq(Msg) /\ Len(osal_qHead) \in Nat
    BY DEF TypeOK
  <1>2. ASSUME NEW t \in Task
        PROVE  boxOf(t)' = boxOf(t)
    <2>1. SameUpTo(osal_qHead, osal_qHead, dest_id, dest_id', t, Len(osal_qHead))
      BY DEF SameUpTo, Queued
    <2>2. Len(osal_qHead) \in 0 .. Len(osal_qHead) /\ Len(osal_qHead) <= Len(osal_qHead)
      BY <1>1
    <2>3. BoxUpTo(osal_qHead, dest_id', t)[Len(osal_qHead)]
             = BoxUpTo(osal_qHead, dest_id, t)[Len(osal_qHead)]
      BY <1>1, <2>1, <2>2, BoxSame
    <2> QED BY <2>3 DEF boxOf, Box
  <1> QED BY <1>2 DEF boxes

\* Linking a message posts it in the mailbox of its task.
LEMMA EnqueuePosts ==
    ASSUME IInv, NEW th \in Thread, osal_msg_enqueue(th)
    PROVE  \E t \in Task, m \in Msg : Mailbox!Post(t, m)
  <1> DEFINE m == send[th].msg
             u == send[th].to
  <1>1. osal_qHead \in Seq(Msg)
    BY DEF IInv, TypeOK
  <1>2. /\ m \in Msg /\ u \in Task /\ m \notin Queued /\ dest_id[m] = u
        /\ osal_qHead' = Append(osal_qHead, m) /\ dest_id' = dest_id
    BY DEF osal_msg_enqueue, IInv, Own, SendAgrees, Linking
  <1> HIDE DEF m, u
  <1>3. ASSUME NEW t \in Task, NEW i \in DOMAIN boxes[t], boxes[t][i] = m
        PROVE  FALSE
    <2>1. boxes[t] = BoxUpTo(osal_qHead, dest_id, t)[Len(osal_qHead)]
      BY DEF boxes, boxOf, Box
    <2>2. Len(osal_qHead) \in 0 .. Len(osal_qHead)
      BY <1>1
    <2> DEFINE b == BoxUpTo(osal_qHead, dest_id, t)[Len(osal_qHead)]
    <2>3. b \in Seq(Msg)
      BY <1>1, <2>2, BoxHolds
    <2>4. \A k \in 1 .. Len(b) :
             \E j \in 1 .. Len(osal_qHead) : b[k] = osal_qHead[j] /\ dest_id[osal_qHead[j]] = t
      BY <1>1, <2>2, BoxHolds
    <2> HIDE DEF b
    <2>5. i \in 1 .. Len(b) /\ b[i] = m
      BY <1>3, <2>1, <2>3 DEF b
    <2> QED BY <1>2, <2>4, <2>5 DEF Queued
  <1>4. ASSUME NEW t \in Task
        PROVE  boxOf(t)' = IF t = u THEN Append(boxOf(t), m) ELSE boxOf(t)
    <2>1. boxOf(t)' = boxOf(t) \o Share(m, dest_id, t)
      BY <1>1, <1>2, BoxAppend DEF boxOf
    <2>2. boxOf(t) \in Seq(Msg)
      <3>1. Len(osal_qHead) \in 0 .. Len(osal_qHead)
        BY <1>1
      <3> QED BY <1>1, <3>1, BoxHolds DEF boxOf, Box
    <2>3. CASE t = u
      <3>1. boxOf(t) \o <<m>> = Append(boxOf(t), m)
        BY <1>2, <2>2, AppendIsConcat
      <3> QED BY <1>2, <2>1, <2>3, <3>1 DEF Share
    <2>4. CASE t # u
      <3>1. boxOf(t) \o <<>> = boxOf(t)
        BY <2>2, ConcatEmptySeq
      <3> QED BY <1>2, <2>1, <2>4, <3>1 DEF Share
    <2> QED BY <2>3, <2>4
  <1>5. boxes' = [boxes EXCEPT ![u] = Append(boxes[u], m)]
    BY <1>2, <1>4 DEF boxes
  <1>6. Mailbox!Post(u, m)
    BY <1>2, <1>3, <1>5 DEF Mailbox!Post, Mailbox!Waiting, boxes, boxOf
  <1> QED BY <1>2, <1>6

\* osal_msg_receive fetches the oldest message of its task.
LEMMA ReceiveFetches ==
    ASSUME IInv, osal_msg_receive
    PROVE  Mailbox!Fetch(idx)
  <1> DEFINE q == osal_qHead
             n == Len(q)
  <1>1. q \in Seq(Msg) /\ n \in Nat /\ idx \in Task /\ \A j \in 1 .. n : q[j] \in Msg
    BY DEF IInv, TypeOK
  <1>2. PICK i \in ForTask(idx) :
            /\ \A j \in ForTask(idx) : i <= j
            /\ osal_qHead' = Extract(i)
            /\ dest_id' = [dest_id EXCEPT ![q[i]] = TASK_NO_TASK]
    BY DEF osal_msg_receive
  <1>3. i \in 1 .. n /\ dest_id[q[i]] = idx
    BY DEF ForTask
  <1>4. QueueSound
    BY DEF IInv, Own
  <1>5. \A j \in 1 .. n : j # i => dest_id'[q[j]] = dest_id[q[j]]
    BY <1>1, <1>2, <1>3, <1>4 DEF QueueSound, IInv, TypeOK
  <1>6. /\ osal_qHead' \in Seq(Msg) /\ Len(osal_qHead') = n - 1
        /\ \A j \in 1 .. n - 1 :
              osal_qHead'[j] = IF j < i THEN q[j] ELSE q[j + 1]
    <2>1. osal_qHead' \in Seq(Msg)
      BY <1>2, <1>3, <1>4, ExtractRemoves DEF IInv
    <2> QED BY <1>1, <1>2, <1>3, <2>1 DEF Extract
  <1>7. \A j \in 1 .. i - 1 : dest_id[q[j]] # idx
    BY <1>1, <1>2, <1>3 DEF ForTask
  <1>8. ASSUME NEW t \in Task
        PROVE  Skips(osal_qHead, osal_qHead', dest_id, dest_id', t, i)
    <2>1. SameUpTo(osal_qHead, osal_qHead', dest_id, dest_id', t, i - 1)
      <3>1. \A j \in 1 .. i - 1 : j \in 1 .. n - 1 /\ j \in 1 .. n /\ j < i /\ j # i
        BY <1>1, <1>3
      <3> QED BY <1>5, <1>6, <3>1 DEF SameUpTo
    <2>2. ASSUME NEW j \in i .. n - 1
          PROVE  osal_qHead'[j] = q[j + 1]
                 /\ (dest_id'[q[j + 1]] = t <=> dest_id[q[j + 1]] = t)
      <3>1. j \in 1 .. n - 1 /\ ~(j < i) /\ j + 1 \in 1 .. n /\ j + 1 # i
        BY <1>1, <1>3
      <3> QED BY <1>5, <1>6, <3>1
    <2>3. dest_id[q[i]] = t => \A j \in 1 .. i - 1 : dest_id[q[j]] # t
      BY <1>3, <1>7
    <2> QED BY <1>6, <2>1, <2>2, <2>3 DEF Skips
  <1>9. ASSUME NEW t \in Task
        PROVE  /\ Box(osal_qHead', dest_id', t) \in Seq(Msg)
               /\ boxOf(t) = Share(q[i], dest_id, t) \o Box(osal_qHead', dest_id', t)
    <2>1. Skips(osal_qHead, osal_qHead', dest_id, dest_id', t, i)
      BY <1>8
    <2>2. osal_qHead \in Seq(Msg) /\ osal_qHead' \in Seq(Msg) /\ i \in 1 .. Len(osal_qHead)
      BY <1>1, <1>3, <1>6
    <2> QED BY ONLY <2>1, <2>2, BoxSkips DEF boxOf
  <1>10. boxOf(idx) # <<>> /\ Box(osal_qHead', dest_id', idx) = Tail(boxOf(idx))
    <2> DEFINE b == Box(osal_qHead', dest_id', idx)
    <2>1. b \in Seq(Msg) /\ boxOf(idx) = <<q[i]>> \o b
      BY <1>1, <1>3, <1>9 DEF Share
    <2>2. q[i] \in Msg
      BY <1>1, <1>3
    <2> HIDE DEF b
    <2>3. <<q[i]>> \o b # <<>> /\ Tail(<<q[i]>> \o b) = b
      BY <2>1, <2>2, ShareFirst
    <2>4. boxOf(idx) # <<>> /\ b = Tail(boxOf(idx))
      BY <2>1, <2>3
    <2> QED BY <2>4 DEF b
  <1>11. ASSUME NEW t \in Task, t # idx
         PROVE  Box(osal_qHead', dest_id', t) = boxOf(t)
    <2> DEFINE b == Box(osal_qHead', dest_id', t)
    <2>1. b \in Seq(Msg) /\ boxOf(t) = <<>> \o b
      BY <1>3, <1>9, <1>11 DEF Share
    <2> HIDE DEF b
    <2>2. <<>> \o b = b
      BY <2>1, ConcatEmptySeq
    <2>3. b = boxOf(t)
      BY <2>1, <2>2
    <2> QED BY <2>3 DEF b
  <1>12. [t \in Task |-> Box(osal_qHead', dest_id', t)]
            = [boxes EXCEPT ![idx] = Tail(boxes[idx])]
    BY <1>1, <1>10, <1>11 DEF boxes
  <1> QED BY <1>1, <1>10, <1>12 DEF Mailbox!Fetch, boxes, boxOf

LEMMA InitIsEmpty == Init => Mailbox!Init
  <1> SUFFICES ASSUME Init PROVE Mailbox!Init
    OBVIOUS
  <1>1. osal_qHead = <<>> /\ Len(osal_qHead) = 0 /\ osal_qHead \in Seq(Msg)
    BY DEF Init
  <1>2. ASSUME NEW t \in Task
        PROVE  boxOf(t) = <<>>
    <2> DEFINE q == osal_qHead
    <2>1. q \in Seq(Msg)
      BY <1>1
    <2> HIDE DEF q
    <2>2. BoxUpTo(q, dest_id, t)[0] = <<>>
      BY <2>1, BoxEquation
    <2> QED BY <1>1, <2>2 DEF boxOf, Box, q
  <1> QED BY <1>2 DEF Mailbox!Init, boxOf

\* The other steps leave the queue alone, and write the headers of messages
\* that are not in it.
LEMMA NextIsFifo == IInv /\ [Next]_vars => [Mailbox!Next]_(boxes)
  <1> SUFFICES ASSUME IInv, [Next]_vars
               PROVE  Mailbox!Next \/ boxes' = boxes
    OBVIOUS
  <1> USE DEF IInv
  <1>1. CASE UNCHANGED vars
    BY <1>1, BoxesSame DEF vars, queueVars
  <1>2. ASSUME NEW th \in Thread, ApiCall(th)
        PROVE  Mailbox!Next \/ boxes' = boxes
    <2>1. CASE \E t \in Task, e \in AppEvent : osal_set_event(th, t, e)
      BY <2>1, BoxesSame DEF osal_set_event, queueVars
    <2>2. ASSUME NEW m \in Msg, osal_msg_allocate(th, m)
          PROVE  boxes' = boxes
      BY <2>2, BoxesSame DEF osal_msg_allocate, TypeOK, Own, QueueSound
    <2>3. CASE \E m \in Msg : osal_msg_deallocate(th, m)
      BY <2>3, BoxesSame DEF osal_msg_deallocate
    <2>4. ASSUME NEW t \in Task, NEW m \in Msg, osal_msg_send(th, t, m)
          PROVE  boxes' = boxes
      <3>1. m \notin Queued
        BY <2>4, NoTaskIsNoTask DEF osal_msg_send, Own, QueueSound
      <3>2. osal_qHead' = osal_qHead /\ \A k \in Queued : dest_id'[k] = dest_id[k]
        BY <2>4, <3>1 DEF osal_msg_send, TypeOK
      <3> QED BY <3>2, BoxesSame
    <2>5. CASE osal_msg_enqueue(th)
      BY <2>5, EnqueuePosts DEF Mailbox!Next
    <2>6. CASE SignalTask(th)
      BY <2>6, BoxesSame DEF SignalTask
    <2> QED BY <1>2, <2>1, <2>2, <2>3, <2>4, <2>5, <2>6 DEF ApiCall
  <1>3. CASE \E i \in Thread \ {Loop} : Isr(i)
    BY <1>3, BoxesSame DEF Isr, Interrupt, ReturnFromIsr, queueVars
  <1>4. CASE osal_msg_receive
    BY <1>4, ReceiveFetches DEF Mailbox!Next, TypeOK
  <1>5. CASE osal_msg_receive_NULL
    BY <1>5, BoxesSame DEF osal_msg_receive_NULL
  <1>6. CASE StartScan \/ ScanReady \/ ScanNext \/ ScanEnd \/ TakeEvents
             \/ HandlerReturns \/ PutBack
    BY <1>6, BoxesSame DEF StartScan, ScanReady, ScanNext, ScanEnd, TakeEvents,
            HandlerReturns, PutBack, queueVars
  <1> QED BY <1>1, <1>2, <1>3, <1>4, <1>5, <1>6 DEF Next, osal_run_system

\* The shared queue is a FIFO mailbox for each task: whatever interrupts send
\* in between, a task receives each of its messages once, in the order in which
\* they were linked.
THEOREM QueueIsFifoPerTask == Spec => FifoPerTask
  <1>1. Init => Mailbox!Init
    BY InitIsEmpty
  <1>2. IInv /\ [Next]_vars => [Mailbox!Next]_(boxes)
    BY NextIsFifo
  <1>3. Mailbox!Init /\ [][Mailbox!Next]_(boxes) => FifoPerTask
    BY DEF FifoPerTask, Mailbox!Spec, boxes, boxOf
  <1> QED BY <1>1, <1>2, <1>3, Invariance, PTL DEF Spec

=============================================================================
