------------------------------ MODULE UserEvents ------------------------------
(***************************************************************************)
(* User events of the application task (Manage/Callbacks/api_events.c) and *)
(* everything that uses them: permit-join on the key, the heart beat, the  *)
(* boards of the demo base, the power-on counter.                          *)
(*                                                                         *)
(* A user event is a block on the list puser_event.  It fires through an   *)
(* OSAL timer (or at once) as a flag of CommonApp_TaskID; process_event    *)
(* runs the callback of the first listed event whose flag is raised.       *)
(*                                                                         *)
(* The module's memory is one record, ue, and each function of the source  *)
(* is an operator from a record to the set of records it may leave: a set  *)
(* because of the NULL pointer that Query_User_Event reads when the list   *)
(* is empty.  A freed block keeps its contents until it is allocated       *)
(* again, so process_event reads the right `next' from the block it has    *)
(* just freed.  Time is abstract: a running timer expires at any moment.   *)
(***************************************************************************)
EXTENDS Integers, Sequences

CONSTANTS Roles,   \* what the image may have been built as
          Board,   \* the boards the demo base may report (SETID changes it)
          Block    \* the heap blocks an event can be in

ASSUME ParametersAssumption ==
    /\ Roles \subseteq {"coordinator", "router", "enddevice"}
    /\ Board \subseteq {"none", "rfid", "sensor"} /\ Board # {}
    /\ Block \subseteq Nat \ {0}

Event == {"HEARTBERAT_EVT", "PERMIT_JOIN_EVT", "POWERSETTING_COUNT_EVT",
          "DEMOBASE_RFID_QUERY_EVT", "DEMOBASE_RFID_BEE_EVT", "SENSOR_EVT"}

\* The source does not check its allocations (it would write through NULL):
\* this module is about a heap with a block for every event.
ASSUME EnoughBlocks ==
    \E own \in [Event -> Block] : \A e, f \in Event : own[e] = own[f] => e = f

NULL == 0
WILD == -1                \* what a NULL pointer that is followed may yield
MAX_UINT16            == 65535
TIMER_LOWER_LIMIT     == 99
TIMER_CLEAR_EXECUTION == 0
TIMER_ONE_EXECUTION   == 1
TIMER_LOOP_EXECUTION  == 127

VARIABLES
    ue,    \* the memory of api_events.c, its timers and its flags
    app    \* the state its callbacks and users keep

vars == <<ue, app>>

RTR_NWK == app.role \in {"coordinator", "router"}

Callback == {"NULL", "HeartBeat", "PermitLedOff", "PowerSettingCount",
             "RfidQuery", "StopBee", "Sensor"}

ssaUserEvent_t == [event : Event, duration : 0 .. MAX_UINT16,
                   count : 0 .. TIMER_LOOP_EXECUTION, resident : BOOLEAN,
                   cb : Callback]

TypeOK ==
    /\ ue.list \in Seq(Block)                          \* puser_event
    /\ ue.map \in [Event -> Block \cup {NULL}]         \* userevent_map
    /\ ue.heap \subseteq Block
    /\ \A b \in ue.heap : ue.block[b] \in ssaUserEvent_t
    /\ ue.timers \subseteq Event
    /\ ue.raised \subseteq Event
    /\ ue.status \in {"boot", "ok", "wild", "stuck"}
    /\ app \in [role : Roles, isPermitJoining : BOOLEAN, isFirstState : BOOLEAN,
                isBee : BOOLEAN, bee : BOOLEAN]

-----------------------------------------------------------------------------
(* The list.                                                               *)

Entry(u, i)  == u.block[u.list[i]]
Listed(u)    == {u.list[i] : i \in 1 .. Len(u.list)}
Least(S)     == CHOOSE i \in S : \A j \in S : i <= j
Fresh(u)     == Least(Block \ u.heap)

\* Where an event of this duration goes: before the first one that is longer.
Place(u, duration) ==
    Least({i \in 1 .. Len(u.list) : duration < Entry(u, i).duration}
              \cup {Len(u.list) + 1})

\* Add_User_Event compares events as far as it walks, and gives up on a match.
Refused(u, e) ==
    \E i \in 1 .. Len(u.list) :
        i <= Place(u, e.duration) /\ Entry(u, i).event = e.event

\* Appending to a list that is not empty does not enter the block in the map.
Add_User_Event(u, b, e) ==
    LET p == Place(u, e.duration)
    IN  [u EXCEPT !.list = SubSeq(@, 1, p - 1) \o <<b>> \o SubSeq(@, p, Len(@)),
                  !.block = [@ EXCEPT ![b] = e],
                  !.heap = @ \cup {b},
                  !.map = IF p = 1 \/ p <= Len(u.list)
                          THEN [@ EXCEPT ![e.event] = b] ELSE @]

\* The block of an event, from the map or from the list.  With an empty list
\* and no map entry the code reads through a NULL pointer, which this part
\* does not trap: what it finds there may match or not.
Query_User_Event(u, event) ==
    LET found == {b \in Listed(u) : u.block[b].event = event}
    IN  CASE u.map[event] # NULL -> {u.map[event]}
          [] u.map[event] = NULL /\ u.list = <<>> -> {NULL, WILD}
          [] OTHER -> IF found = {} THEN {NULL} ELSE {Least(found)}

\* A list without the blocks of D.
Without(list, D) ==
    LET kept[n \in 0 .. Len(list)] ==
            IF n = 0 THEN <<>>
            ELSE IF list[n] \in D THEN kept[n - 1] ELSE Append(kept[n - 1], list[n])
    IN  kept[Len(list)]

\* Mutant: the map keeps pointing to the freed block.
Del_User_Event_KeepsMap(u, D) ==
    [u EXCEPT !.list = Without(@, D), !.heap = @ \ D]

\* Delete the events in the blocks of D.
Del_User_Event(u, D) ==
    [u EXCEPT !.list = Without(@, D),
              !.heap = @ \ D,
              !.map = [ev \in Event |->
                          IF \E b \in D : u.block[b].event = ev THEN NULL ELSE @[ev]]]

-----------------------------------------------------------------------------
(* Setting and updating events.                                            *)

\* Mutant: an event that is to fire once is not started.
set_app_event_NotOnce(u, b) ==
    IF u.block[b].count <= 1 THEN u
    ELSE [u EXCEPT !.timers = @ \cup {u.block[b].event}]

\* Stopping the timer first makes no difference to a timer that is started
\* again; a flag that is raised already stays raised.
set_app_event(u, b) ==
    LET e == u.block[b]
    IN  CASE e.count = 0 -> u
          [] e.count > 0 /\ e.duration > TIMER_LOWER_LIMIT ->
                [u EXCEPT !.timers = @ \cup {e.event}]
          [] OTHER -> [u EXCEPT !.raised = @ \cup {e.event}]

set_user_event(u, e) ==
    IF Refused(u, e) THEN u
    ELSE set_app_event(Add_User_Event(u, Fresh(u), e), Fresh(u))

\* The position on the list is not changed with the duration.
Overwrite(u, b, e) ==
    set_app_event([u EXCEPT !.block = [@ EXCEPT ![b] = e]], b)

update_user_event(u, e) ==
    { CASE q = NULL   -> set_user_event(u, e)
        [] q = WILD -> [u EXCEPT !.status = "wild"]
        [] OTHER      -> Overwrite(u, q, e) : q \in Query_User_Event(u, e.event) }

New(event, cb, duration, count, resident) ==
    [event |-> event, duration |-> duration, count |-> count,
     resident |-> resident, cb |-> cb]

HeartBeat == New("HEARTBERAT_EVT", "HeartBeat", 30000, TIMER_LOOP_EXECUTION, TRUE)
PowerOn   == New("POWERSETTING_COUNT_EVT", "PowerSettingCount", 3000,
                 TIMER_ONE_EXECUTION, FALSE)
RfidQuery == New("DEMOBASE_RFID_QUERY_EVT", "RfidQuery", 500, TIMER_LOOP_EXECUTION, TRUE)
RfidBee   == New("DEMOBASE_RFID_BEE_EVT", "StopBee", 500, TIMER_ONE_EXECUTION, TRUE)
Sensor    == New("SENSOR_EVT", "Sensor", 2000, TIMER_LOOP_EXECUTION, TRUE)
Permit    == New("PERMIT_JOIN_EVT", "PermitLedOff", 30000, TIMER_ONE_EXECUTION, FALSE)
Forbid    == New("PERMIT_JOIN_EVT", "NULL", 0, TIMER_CLEAR_EXECUTION, FALSE)

CommonApp_PermitJoiningRequest(u, on) ==
    update_user_event(u, IF on THEN Permit ELSE Forbid)

\* HalStatesInit: rfid_init, or the init of a sensor board; the other boards
\* use no events.
HalStatesInit(u, board) ==
    CASE board = "rfid"   -> update_user_event(u, RfidQuery)
      [] board = "sensor" -> update_user_event(u, Sensor)
      [] OTHER            -> {u}

-----------------------------------------------------------------------------
(* process_event.                                                          *)

\* Mutant: resident events are not kept.
Alive_ByCount(e) == e.count > 0

Alive(e) == e.count > 0 \/ e.resident

\* Callbacks: the memory and the application state each may leave.  The card
\* reader finds a card or not.
RunCallback(u, a, cb) ==
    CASE cb = "PermitLedOff" -> {<<u, [a EXCEPT !.isPermitJoining = FALSE]>>}
      [] cb = "StopBee"      -> {<<u, [a EXCEPT !.bee = FALSE]>>}
      [] cb = "RfidQuery"    ->
            {<<u, [a EXCEPT !.isBee = FALSE]>>} \cup
            (IF a.isBee THEN {<<u, a>>}
             ELSE {<<v, [a EXCEPT !.isBee = TRUE, !.bee = TRUE]>> :
                       v \in update_user_event(u, RfidBee)})
      [] OTHER               -> {<<u, a>>}

\* Mutant: the count is a plain byte.
Count_Byte(u, b) ==
    IF u.block[b].count = TIMER_LOOP_EXECUTION THEN u
    ELSE [u EXCEPT !.block = [@ EXCEPT ![b] =
             [u.block[b] EXCEPT !.count = (@ + 255) % 256]]]

\* What process_event does to an entry after its callback: the count is a
\* bit-field of seven bits.
Count(u, b) ==
    IF u.block[b].count = TIMER_LOOP_EXECUTION THEN u
    ELSE [u EXCEPT !.block = [@ EXCEPT ![b] =
             [u.block[b] EXCEPT !.count = (@ + TIMER_LOOP_EXECUTION) % 128]]]

\* Mutant: an event that fires always is not started again.
Fired_OnceOnly(u, b) ==
    IF u.block[b].count = TIMER_LOOP_EXECUTION THEN u ELSE set_app_event(Count(u, b), b)

Fired(u, b) == set_app_event(Count(u, b), b)

\* The positions process_event can stop at.
Matches(u) == {i \in 1 .. Len(u.list) :
                  Alive(Entry(u, i)) /\ Entry(u, i).event \in u.raised}

\* The dead entries process_event meets, and deletes, before position n.
DeadBefore(u, n) == {u.list[i] : i \in {j \in 1 .. n - 1 : ~Alive(Entry(u, j))}}

process_event ==
    IF Matches(ue) # {}
    THEN LET i == Least(Matches(ue))
             b == ue.list[i]
             e == ue.block[b]
             u == Del_User_Event([ue EXCEPT !.raised = @ \ {e.event}], DeadBefore(ue, i))
         IN  \E r \in RunCallback(u, app, e.cb) :
                 /\ ue' = Fired(r[1], b)
                 /\ app' = r[2]
    ELSE \* the tail call on the same events: there is no match next time either
         /\ ue' = [Del_User_Event(ue, DeadBefore(ue, Len(ue.list) + 1))
                      EXCEPT !.status = "stuck"]
         /\ UNCHANGED app

-----------------------------------------------------------------------------
Init ==
    /\ ue = [list |-> <<>>, map |-> [ev \in Event |-> NULL], heap |-> {},
             block |-> [b \in Block |-> Forbid], timers |-> {}, raised |-> {},
             status |-> "boot"]
    /\ \E role \in Roles :
          app = [role |-> role, isPermitJoining |-> FALSE, isFirstState |-> TRUE,
                 isBee |-> FALSE, bee |-> FALSE]

\* CommonApp_InitConfirm forbids joining before any event has been set.
CommonApp_InitConfirm ==
    /\ ue.status = "boot"
    /\ \E u \in IF RTR_NWK THEN CommonApp_PermitJoiningRequest(ue, FALSE) ELSE {ue} :
          ue' = [u EXCEPT !.status = IF @ = "wild" THEN "wild" ELSE "ok"]
    /\ UNCHANGED app

\* The key permits joining for 30 seconds, or forbids it again.
HandleKey ==
    /\ ue.status = "ok"
    /\ RTR_NWK
    /\ ue' \in CommonApp_PermitJoiningRequest(ue, ~app.isPermitJoining)
    /\ app' = [app EXCEPT !.isPermitJoining = ~@]

\* A ZDO_STATE_CHANGE message; joined: the state is ROUTER or END_DEVICE.
ZdoStateChange(joined) ==
    /\ ue.status = "ok"
    /\ LET first == IF ~RTR_NWK /\ app.isFirstState
                    THEN set_user_event(ue, PowerOn) ELSE ue
       IN  IF joined /\ app.role # "coordinator"
           THEN \E board \in Board :
                   ue' \in HalStatesInit(set_user_event(first, HeartBeat), board)
           ELSE ue' = first
    /\ app' = [app EXCEPT !.isFirstState = FALSE]

TimerExpires(ev) ==
    /\ ue.status = "ok"
    /\ ev \in ue.timers
    /\ ue' = [ue EXCEPT !.timers = @ \ {ev}, !.raised = @ \cup {ev}]
    /\ UNCHANGED app

HandleEvents ==
    /\ ue.status = "ok"
    /\ ue.raised # {}
    /\ process_event

Next ==
    \/ CommonApp_InitConfirm
    \/ HandleKey
    \/ \E joined \in BOOLEAN : ZdoStateChange(joined)
    \/ \E ev \in Event : TimerExpires(ev)
    \/ HandleEvents

Spec == Init /\ [][Next]_vars

\* Timers run out, and the main loop serves the task.  A flag is served when it
\* is the first one with an event: the periods, of 500 ms and more, are long
\* compared with a pass of the main loop, so that every flag has its turn, as
\* long as the program runs.
Fairness ==
    /\ WF_vars(CommonApp_InitConfirm)
    /\ \A ev \in Event :
          /\ []<>(ue.status # "ok" \/ ev \notin ue.timers)
          /\ []<>(ue.status # "ok" \/ ev \notin ue.raised)

FairSpec == Spec /\ Fairness

-----------------------------------------------------------------------------
(* Properties.                                                             *)

\* Whatever the order of set, update, firing and lazy deletion: an event is
\* listed once, the blocks of the list are the allocated ones (no leak, no use
\* after free), the map never points to a freed or a foreign block, and an
\* event that is to fire again has a timer running or a flag raised: no
\* periodic event (heart beat, card query, sensor) ever dies.
ListSound ==
    /\ Listed(ue) = ue.heap
    /\ \A i, j \in 1 .. Len(ue.list) :
          i # j => Entry(ue, i).event # Entry(ue, j).event
    /\ \A ev \in Event :
          ue.map[ev] # NULL => ue.map[ev] \in ue.heap /\ ue.block[ue.map[ev]].event = ev
    /\ \A b \in Listed(ue) :
          ue.block[b].count > 0 => ue.block[b].event \in ue.timers \cup ue.raised

\* process_event comes back from every flag the task can be given ("Discard
\* unknown events", api_events.c:375).
ProcessEventReturns == ue.status # "stuck"

\* An end device, which has no permit-join key and sets its first events before
\* it updates one, meets neither the flag that process_event never comes back
\* from nor the empty list that Query_User_Event reads through NULL.
EndDeviceGoesOn == ~RTR_NWK => ue.status \notin {"stuck", "wild"}

Beating == \E b \in ue.heap : ue.block[b].event = "HEARTBERAT_EVT"

\* Once a device has joined, its heart beat is raised for ever, on a program
\* that goes on.
HeartBeatGoesOn ==
    Beating ~> "HEARTBERAT_EVT" \in ue.raised \/ ue.status = "stuck"

=============================================================================
