------------------------------- MODULE StartUp -------------------------------
(***************************************************************************)
(* How a node that joins (router or end device) starts, joins, resumes,    *)
(* leaves and is reset to factory settings: ZDApp, the start-up options of *)
(* ZGlobals, ZDO_UpdateNwkStatus, and the application's keys and power-on  *)
(* counter.                                                                *)
(*                                                                         *)
(* All tasks run in one main loop, so a handler is one action; but each of *)
(* its writes to NV is a step of its own (`todo' holds those left),        *)
(* because power may fail, and the watchdog bite, between any two.  Every  *)
(* write is all or nothing (module OsalNv).  ZDApp precedes the            *)
(* application in the task table, hence AppTurn.  The network layer is     *)
(* external: it answers one request at a time.  Time is abstract: any      *)
(* running timer may expire.                                               *)
(***************************************************************************)
EXTENDS Naturals, Sequences, Functions

CONSTANTS Roles,        \* what the image may have been built as
          NUM_DISC_ATTEMPTS,
          POWERSETTING_COUNT,
          MaxCuts,      \* power failures
          MaxTrouble    \* radio outages, lost parents, leaves, factory keys, address
                        \* conflicts, refused requests and allocations, late keys

ASSUME ParametersAssumption ==
    /\ Roles \subseteq {"ROUTER", "DEVICE"}
    /\ {NUM_DISC_ATTEMPTS, POWERSETTING_COUNT, MaxCuts, MaxTrouble} \subseteq Nat

MAX_RESUME_RETRY == 3

VARIABLES
    role,      \* ZDO_Config_Node_Descriptor.LogicalType, zgDeviceLogicalType:
               \* constant, as all networks have the stack profile of the image
    nv,        \* the NV items of this story
    todo,      \* what the running handler has still to do, write by write
    zdo,       \* ZDApp: state, start mode, events, timers, request out
    msgs,      \* messages queued for ZDAppTaskID
    app,       \* the application: its message and the power-on counter
    wdt,       \* WatchDogEnable was called: the reset comes
    up,        \* the network can be heard
    cuts, trouble,
    lives      \* history: starts since the application recorded a connection

vars == <<role, nv, todo, zdo, msgs, app, wdt, up, cuts, trouble, lives>>

devStates == {"HOLD", "INIT", "NWK_DISC", "NWK_JOINING", "NWK_ORPHAN",
              "NWK_REJOIN", "END_DEVICE_UNAUTH", "END_DEVICE", "ROUTER"}
Connected == {"END_DEVICE", "ROUTER"}

Flag  == {"NETWORK_INIT", "ROUTER_START", "STATE_CHANGE", "NWK_UPDATE_NV",
          "DEVICE_RESET", "DEVICE_AUTH", "FRAMECOUNTER_CHANGE"}
Timer == {"NETWORK_INIT", "NWK_UPDATE_NV", "DEVICE_RESET"}

\* The order in which ZDApp_event_loop looks at its flags.
Order == <<"NETWORK_INIT", "ROUTER_START", "STATE_CHANGE", "NWK_UPDATE_NV",
           "DEVICE_RESET", "DEVICE_AUTH", "FRAMECOUNTER_CHANGE">>

TypeOK ==
    /\ role \in Roles
    /\ nv \in [hold : {"HOLD", "INIT"}, default : BOOLEAN, net : BOOLEAN,
               key : BOOLEAN, leave : {"no", "leave", "rejoin"}, count : Nat]
    /\ \A i \in 1 .. Len(todo) : todo[i][1] \in DOMAIN nv \cup {"watchdog", "reset"}
    /\ zdo \in [devState : devStates, devStartMode : {"JOIN", "RESUME", "REJOIN"},
                retryCnt : 0 .. 1,   \* so MAX_RESUME_RETRY is never reached
                zdoDiscCounter : 1 .. NUM_DISC_ATTEMPTS + 1, nwkStatus : BOOLEAN,
                events : SUBSET Flag, timers : SUBSET Timer,
                asked : {"none", "disc", "join", "rejoin", "orphan", "router"}]
    /\ \A i \in 1 .. Len(msgs) :
          msgs[i] \in {"DISC_CNF", "DISC_CNF_EMPTY", "JOIN_IND", "JOIN_REQ", "TRANSPORT_KEY"}
    /\ app \in [msg : devStates \cup {"none"}, NwkState : devStates,
                isFirstState : BOOLEAN, hasConn : BOOLEAN, isNotTimeOut : BOOLEAN,
                timer : BOOLEAN, isPowerSetCount : BOOLEAN, powerSetCount : Nat]
    /\ {wdt, up} \subseteq BOOLEAN
    /\ cuts \in 0 .. MaxCuts /\ trouble \in 0 .. MaxTrouble
    /\ lives \in 0 .. POWERSETTING_COUNT + 1

-----------------------------------------------------------------------------
(* ZDOInitDevice, at reset and on the key of a held device.                *)

\* What the restart reads from NV.  NLME_RestoreFromNV fails without a network.
Restored(n) == ~n.default /\ n.net

Wipe(n) == IF n.default THEN << <<"net", FALSE>>, <<"key", FALSE>> >> ELSE <<>>

\* Leaving without rejoin holds the device for this one start.
LeaveHolds(n, hold) == ~hold /\ n.leave = "leave"

InitWrites(n, hold) ==
    Wipe(n) \o (IF hold \/ n.leave = "no" THEN <<>> ELSE << <<"leave", "no">> >>)
            \o (IF LeaveHolds(n, hold) THEN << <<"default", TRUE>> >> ELSE <<>>)

\* A restored device starts at once, a new one after a delay.
ZDOInitDevice(n, hold) ==
    LET starts == ~hold /\ ~LeaveHolds(n, hold)
    IN  [devState |-> IF starts THEN "INIT" ELSE "HOLD",
         devStartMode |-> IF Restored(n) THEN "RESUME" ELSE "JOIN",
         retryCnt |-> 0, zdoDiscCounter |-> 1, nwkStatus |-> TRUE,
         events |-> IF LeaveHolds(n, hold) THEN {"STATE_CHANGE"}
                    ELSE IF starts /\ Restored(n) THEN {"NETWORK_INIT"} ELSE {},
         timers |-> IF starts /\ ~Restored(n) THEN {"NETWORK_INIT"} ELSE {},
         asked |-> "none"]

AppAtReset ==
    [msg |-> "none", NwkState |-> "INIT", isFirstState |-> TRUE, hasConn |-> FALSE,
     isNotTimeOut |-> TRUE, timer |-> FALSE, isPowerSetCount |-> FALSE,
     powerSetCount |-> 0]

Init ==
    \* The first start creates the items; the hold item gets the value of an
    \* uninitialised variable, and the device is held whatever that is.
    /\ role \in Roles
    /\ \E h \in {"HOLD", "INIT"} :
          nv = [hold |-> h, default |-> FALSE, net |-> FALSE, key |-> FALSE,
                leave |-> "no", count |-> 0]
    /\ zdo = ZDOInitDevice(nv, TRUE)
    /\ todo = <<>> /\ msgs = <<>>
    /\ app = AppAtReset
    /\ wdt = FALSE /\ up = TRUE
    /\ cuts = 0 /\ trouble = 0 /\ lives = 1

\* Everything but NV is lost; zgInit reads the hold item.
Restart ==
    /\ zdo' = ZDOInitDevice(nv, nv.hold # "INIT")
    /\ todo' = InitWrites(nv, nv.hold # "INIT")
    /\ msgs' = <<>> /\ app' = AppAtReset
    /\ wdt' = FALSE
    /\ lives' = IF lives > POWERSETTING_COUNT THEN lives ELSE lives + 1
    /\ UNCHANGED <<role, nv, up, trouble>>

-----------------------------------------------------------------------------
(* NV and resets.                                                          *)

Ready   == todo = <<>>
Serves(e) ==
    /\ Ready /\ msgs = <<>> /\ e \in zdo.events
    /\ \A f \in zdo.events : \E i, j \in 1 .. Len(Order) :
          i <= j /\ Order[i] = e /\ Order[j] = f
AppTurn == Ready /\ msgs = <<>> /\ zdo.events = {}

Troubles == trouble < MaxTrouble /\ trouble' = trouble + 1

\* The next write of the running handler.  The connection counts as recorded
\* when the handler that noted it has done its writes.
FlashStep ==
    /\ todo # <<>> /\ todo[1][1] \in DOMAIN nv
    /\ nv' = [nv EXCEPT ![todo[1][1]] = todo[1][2]]
    /\ todo' = Tail(todo)
    /\ lives' = IF todo[1][1] = "count" /\ todo[1][2] = 0 THEN 0 ELSE lives
    /\ UNCHANGED <<role, zdo, msgs, app, wdt, up, cuts, trouble>>

PowerLoss == cuts < MaxCuts /\ cuts' = cuts + 1 /\ Restart

\* The watchdog bites after a second; until then the program runs on.
WatchDogEnable ==
    /\ todo # <<>> /\ todo[1][1] = "watchdog"
    /\ todo' = Tail(todo)
    /\ wdt' = TRUE
    /\ UNCHANGED <<role, nv, zdo, msgs, app, up, cuts, trouble, lives>>

WatchdogReset == wdt /\ UNCHANGED cuts /\ Restart

SystemResetSoft ==
    todo # <<>> /\ todo[1][1] = "reset" /\ UNCHANGED cuts /\ Restart

-----------------------------------------------------------------------------
(* ZDApp: its flags.  A handler's request to the network layer is `asked'. *)

\* What stays the same when a handler of ZDApp changes zdo and what `also' says.
ZdoOnly == UNCHANGED <<role, nv, app, wdt, up, cuts, lives>>

\* ZDApp_NetworkInit with a delay, and without one.
Later(z) == [z EXCEPT !.timers = @ \cup {"NETWORK_INIT"}]
AtOnce(z) == [z EXCEPT !.events = @ \cup {"NETWORK_INIT"}]
Notify(z) == [z EXCEPT !.events = @ \cup {"STATE_CHANGE"}]
Done(z, e) == [z EXCEPT !.events = @ \ {e}]

\* A request to the network layer; one that is refused is tried again later.
Request(z, req, refused) == IF refused THEN Later(z) ELSE [z EXCEPT !.asked = req]

\* Discovery to join or rejoin, an orphan scan to resume.  A router does not
\* scan to resume: the scan that succeeds is made up.
ZDO_StartDevice(z, refused) ==
    IF z.devStartMode = "RESUME"
    THEN Request([z EXCEPT !.devState = "NWK_ORPHAN"], "orphan", refused /\ role = "DEVICE")
    ELSE Request([z EXCEPT !.devState = "NWK_DISC"], "disc", refused)

NetworkInit ==
    /\ Serves("NETWORK_INIT")
    /\ \E refused \in BOOLEAN :
          /\ zdo' = ZDO_StartDevice(Notify(Done(zdo, "NETWORK_INIT")), refused)
          /\ IF refused THEN Troubles ELSE UNCHANGED trouble
    /\ UNCHANGED <<todo, msgs>> /\ ZdoOnly

RouterStart ==
    /\ Serves("ROUTER_START")
    /\ zdo' = [Notify(Done(zdo, "ROUTER_START")) EXCEPT
                  !.devState = IF zdo.nwkStatus /\ @ = "END_DEVICE" THEN "ROUTER" ELSE @]
    /\ UNCHANGED <<todo, msgs, trouble>> /\ ZdoOnly

\* Mutant: only routers are released from the hold.
HoldWrites_RoutersOnly ==
    IF zdo.devState = "ROUTER" /\ nv.hold # "INIT"
    THEN << <<"hold", "INIT">> >> ELSE <<>>

\* A device that has joined starts by itself from now on.
HoldWrites ==
    IF zdo.devState \in Connected /\ nv.hold # "INIT"
    THEN << <<"hold", "INIT">> >> ELSE <<>>

\* Mutant: without memory the change of state is not told.
StateChange_GivesUp ==
    /\ Serves("STATE_CHANGE")
    /\ todo' = HoldWrites
    /\ zdo' = Done(zdo, "STATE_CHANGE")
    /\ \/ app' = [app EXCEPT !.msg = zdo.devState] /\ UNCHANGED trouble
       \/ app.msg = "none" /\ Troubles /\ UNCHANGED app
    /\ UNCHANGED <<role, nv, msgs, wdt, up, cuts, lives>>

\* ZDO_UpdateNwkStatus: the message in the queue is changed in place; without
\* memory for a new one the flag is raised again.
StateChange ==
    /\ Serves("STATE_CHANGE")
    /\ todo' = HoldWrites
    /\ \/ /\ app' = [app EXCEPT !.msg = zdo.devState]
          /\ zdo' = Done(zdo, "STATE_CHANGE")
          /\ UNCHANGED trouble
       \/ /\ app.msg = "none" /\ Troubles
          /\ UNCHANGED <<app, zdo>>
    /\ UNCHANGED <<role, nv, msgs, wdt, up, cuts, lives>>

SaveNetworkStateEvt ==
    /\ Serves("NWK_UPDATE_NV")
    /\ zdo' = Done(zdo, "NWK_UPDATE_NV")
    /\ todo' = << <<"net", TRUE>>, <<"default", FALSE>> >>
    /\ UNCHANGED <<msgs, trouble>> /\ ZdoOnly

DeviceReset ==
    /\ Serves("DEVICE_RESET")
    /\ zdo' = Done(zdo, "DEVICE_RESET")
    /\ todo' = << <<"default", TRUE>>, <<"reset">> >>
    /\ UNCHANGED <<msgs, trouble>> /\ ZdoOnly

\* ZDApp_NVUpdate: save the network after ZDAPP_UPDATE_NWK_NV_TIME.
NVUpdate(z) == [z EXCEPT !.timers = @ \cup {"NWK_UPDATE_NV"}]

\* The router's part of becoming END_DEVICE.
StartRouter(z) == IF role = "ROUTER" THEN [z EXCEPT !.asked = "router"] ELSE z

\* Mutant: the key is left to the next change of the frame counter.
DeviceAuthEvt_KeyLater ==
    /\ Serves("DEVICE_AUTH")
    /\ LET z == NVUpdate(Done(zdo, "DEVICE_AUTH"))
       IN  zdo' = IF zdo.devState = "END_DEVICE_UNAUTH"
                  THEN StartRouter([Notify(z) EXCEPT !.devState = "END_DEVICE",
                                                     !.timers = @ \ {"DEVICE_RESET"}])
                  ELSE z
    /\ UNCHANGED <<todo, msgs, trouble>> /\ ZdoOnly

DeviceAuthEvt ==
    /\ Serves("DEVICE_AUTH")
    /\ LET z == NVUpdate(Done(zdo, "DEVICE_AUTH"))
       IN  IF zdo.devState = "END_DEVICE_UNAUTH"
           THEN /\ zdo' = StartRouter([Notify(z) EXCEPT !.devState = "END_DEVICE",
                                                        !.timers = @ \ {"DEVICE_RESET"}])
                /\ todo' = << <<"key", TRUE>> >>
           ELSE zdo' = z /\ UNCHANGED todo
    /\ UNCHANGED <<msgs, trouble>> /\ ZdoOnly

\* ZDApp_SaveNwkKey once the frame counter has moved far enough.
FrameCounterChange ==
    /\ Serves("FRAMECOUNTER_CHANGE")
    /\ zdo' = Done(zdo, "FRAMECOUNTER_CHANGE")
    /\ todo' \in {<<>>, << <<"key", TRUE>> >>}
    /\ UNCHANGED <<msgs, trouble>> /\ ZdoOnly

-----------------------------------------------------------------------------
(* ZDApp: its messages.                                                    *)

\* A scan counts as enough after NUM_DISC_ATTEMPTS of them.  The counter stops
\* where it counts as enough; the code's is a uint8 and starts again after 255
\* scans that found nothing, which puts the join off by as many scans again.
DiscCnf(z, found, refused) ==
    IF z.devState # "NWK_DISC" THEN z
    ELSE IF found /\ z.zdoDiscCounter > NUM_DISC_ATTEMPTS
    THEN IF z.devStartMode = "JOIN"
         THEN Request([z EXCEPT !.devState = "NWK_JOINING"], "join", refused)
         ELSE Request([z EXCEPT !.devState = "NWK_REJOIN"], "rejoin", refused)
    ELSE Later([z EXCEPT !.zdoDiscCounter =
                    IF @ > NUM_DISC_ATTEMPTS THEN @ ELSE @ + 1])

\* The first branch of ZDApp_ProcessNetworkJoin: a new member, or a router that
\* resumes.
AsRouterOrNew(z) ==
    \/ z.devState = "NWK_JOINING"
    \/ z.devState = "NWK_ORPHAN" /\ role = "ROUTER"

\* Mutant: a failed rejoin is not tried again.
JoinFailed_NoRetry(z) ==
    IF AsRouterOrNew(z) THEN Later([z EXCEPT !.zdoDiscCounter = 1])
    ELSE IF z.devStartMode = "RESUME"
    THEN Later([z EXCEPT !.retryCnt = @ + 1, !.devStartMode = "REJOIN"])
    ELSE z

\* Mutant: every failure is counted, whatever the mode.
JoinFailed_CountsAll(z) ==
    Later([z EXCEPT !.zdoDiscCounter = IF AsRouterOrNew(z) THEN 1 ELSE @,
              !.retryCnt = @ + 1,
              !.devStartMode = IF @ = "RESUME" THEN "REJOIN" ELSE @])

\* The device knows its PAN whenever it resumes, so the mode after that is REJOIN.
JoinFailed(z) ==
    LET again == [z EXCEPT !.retryCnt = IF z.devStartMode = "RESUME" THEN @ + 1 ELSE @]
    IN  IF AsRouterOrNew(z)
        THEN Later([again EXCEPT !.zdoDiscCounter = 1,
                       !.devStartMode = IF @ = "RESUME" /\ again.retryCnt >= MAX_RESUME_RETRY
                                        THEN "REJOIN" ELSE @])
        ELSE Later([again EXCEPT
                       !.devStartMode = IF @ # "RESUME" THEN @
                                        ELSE IF again.retryCnt <= MAX_RESUME_RETRY
                                        THEN "REJOIN" ELSE "JOIN"])

Joined(z) == StartRouter([Notify(z) EXCEPT !.devState = "END_DEVICE"])

\* Who joins, or resumes as a router, without a network key in NV waits for
\* the trust center; who rejoins or finds its parent has joined.
ZDApp_ProcessNetworkJoin(z) ==
    CASE z.devState \notin {"NWK_JOINING", "NWK_ORPHAN", "NWK_REJOIN"} -> Notify(z)
      [] z.devState \in {"NWK_JOINING", "NWK_ORPHAN", "NWK_REJOIN"} /\ ~z.nwkStatus ->
            JoinFailed(z)
      [] OTHER ->
            IF AsRouterOrNew(z) /\ ~nv.key
            THEN [Notify(z) EXCEPT !.devState = "END_DEVICE_UNAUTH",
                                   !.timers = @ \cup {"DEVICE_RESET"}]
            ELSE Joined(z)

JoinReq(z) == AtOnce([z EXCEPT !.retryCnt = 0, !.devStartMode = "RESUME"])

ZDSecMgrAuthNwkKey(z) ==
    IF z.devState = "END_DEVICE_UNAUTH"
    THEN [z EXCEPT !.events = @ \cup {"DEVICE_AUTH"}] ELSE z

Handle(z, msg, refused) ==
    CASE msg = "DISC_CNF"       -> DiscCnf(z, TRUE, refused)
      [] msg = "DISC_CNF_EMPTY" -> DiscCnf(z, FALSE, refused)
      [] msg = "JOIN_IND"       -> ZDApp_ProcessNetworkJoin(z)
      [] msg = "JOIN_REQ"       -> JoinReq(z)
      [] msg = "TRANSPORT_KEY"  -> ZDSecMgrAuthNwkKey(z)

\* One visit handles all the messages that are queued.
ProcessOSALMsg ==
    /\ Ready /\ msgs # <<>> /\ msgs' = <<>>
    /\ \E refused \in BOOLEAN :
          /\ LET after[i \in 0 .. Len(msgs)] ==
                     IF i = 0 THEN zdo ELSE Handle(after[i - 1], msgs[i], refused)
             IN  zdo' = after[Len(msgs)]
          /\ IF refused THEN "DISC_CNF" \in Range(msgs) /\ Troubles ELSE UNCHANGED trouble
    /\ UNCHANGED todo /\ ZdoOnly

-----------------------------------------------------------------------------
(* The network layer and the timers, outside ZDApp.                        *)

Post(m) == msgs' = Append(msgs, m)
OutsideOnly == UNCHANGED <<role, nv, app, wdt, cuts, lives>>

DiscoveryConfirm ==
    /\ Ready /\ zdo.asked = "disc"
    /\ zdo' = [zdo EXCEPT !.asked = "none"]
    /\ Post(IF up THEN "DISC_CNF" ELSE "DISC_CNF_EMPTY")
    /\ UNCHANGED <<todo, up, trouble>> /\ OutsideOnly

ZDO_JoinConfirmCB ==
    /\ Ready /\ zdo.asked \in {"join", "rejoin", "orphan"}
    /\ zdo' = [zdo EXCEPT !.asked = "none",
                  !.nwkStatus = up \/ (role = "ROUTER" /\ zdo.asked = "orphan")]
    /\ Post("JOIN_IND")
    /\ UNCHANGED <<todo, up, trouble>> /\ OutsideOnly

ZDO_StartRouterConfirmCB ==
    /\ Ready /\ zdo.asked = "router"
    /\ \E ok \in BOOLEAN :
          /\ zdo' = [zdo EXCEPT !.asked = "none", !.nwkStatus = ok,
                                !.events = @ \cup {"ROUTER_START"}]
          /\ IF ok THEN UNCHANGED trouble ELSE Troubles
    /\ UNCHANGED <<todo, msgs, up>> /\ OutsideOnly

TransportKeyInd ==
    /\ Ready /\ up /\ zdo.devState = "END_DEVICE_UNAUTH"
    /\ "TRANSPORT_KEY" \notin Range(msgs) /\ "DEVICE_AUTH" \notin zdo.events
    /\ Post("TRANSPORT_KEY")
    /\ UNCHANGED <<zdo, todo, up, trouble>> /\ OutsideOnly

\* The network layer changed what is to be saved: addresses, channel, PAN.  It is
\* assumed to do so in a connected device only (NoKeylessResume rests on this).
ZDApp_NwkStateUpdateCB ==
    /\ Ready /\ zdo.devState \in Connected /\ "NWK_UPDATE_NV" \notin zdo.timers
    /\ zdo' = NVUpdate(zdo)
    /\ UNCHANGED <<msgs, todo, up, trouble>> /\ OutsideOnly

\* The network layer settled an address conflict.
ZDO_AddrChangeIndicationCB ==
    /\ Ready /\ zdo.devState \in Connected /\ Troubles
    /\ zdo' = Notify(NVUpdate(zdo))
    /\ UNCHANGED <<msgs, todo, up>> /\ OutsideOnly

\* The network layer sent a frame under the network key.
SecuredFrame ==
    /\ Ready /\ zdo.devState \in Connected
    /\ zdo' = [zdo EXCEPT !.events = @ \cup {"FRAMECOUNTER_CHANGE"}]
    /\ UNCHANGED <<msgs, todo, up, trouble>> /\ OutsideOnly

\* Only an end device follows a parent.
ZDO_SyncIndicationCB ==
    /\ Ready /\ role = "DEVICE" /\ zdo.devState = "END_DEVICE" /\ Troubles
    /\ Post("JOIN_REQ")
    /\ UNCHANGED <<zdo, todo, up>> /\ OutsideOnly

\* The parent, or this device's own request: LeaveReset.
ZDO_LeaveInd ==
    /\ Ready /\ zdo.devState \in Connected /\ Troubles
    /\ \E kind \in {"leave", "rejoin"} : todo' = << <<"leave", kind>> >>
    /\ zdo' = [zdo EXCEPT !.timers = @ \cup {"DEVICE_RESET"}]
    /\ UNCHANGED <<msgs, up>> /\ OutsideOnly

\* The network goes out of reach, and comes back.
Radio ==
    /\ up' = ~up
    /\ IF up THEN Troubles ELSE UNCHANGED trouble
    /\ UNCHANGED <<zdo, msgs, todo>> /\ OutsideOnly

\* The ten seconds of an unauthenticated device run out before the key has
\* come and been handled only if the network is out of reach, or in trouble.
TimerExpires(t) ==
    /\ Ready /\ t \in zdo.timers
    /\ zdo' = [zdo EXCEPT !.timers = @ \ {t}, !.events = @ \cup {t}]
    /\ IF t = "DEVICE_RESET" /\ zdo.devState = "END_DEVICE_UNAUTH" /\ up
       THEN Troubles ELSE UNCHANGED trouble
    /\ UNCHANGED <<msgs, todo, up>> /\ OutsideOnly

-----------------------------------------------------------------------------
(* The application, which runs when ZDApp has nothing to do.               *)

FactoryReset == << <<"hold", "HOLD">>, <<"default", TRUE>>, <<"watchdog">> >>

\* Mutant: a connection clears the count in RAM only.
PowerOnFactorySetting_RamOnly(a, status) ==
    LET b == IF a.isFirstState
             THEN [a EXCEPT !.powerSetCount = nv.count, !.timer = TRUE] ELSE a
        counts == /\ ~nv.default /\ ~b.hasConn /\ ~b.isNotTimeOut
                  /\ ~b.isPowerSetCount
        c == b.powerSetCount + 1
    IN  IF status \in Connected
        THEN [app |-> [b EXCEPT !.hasConn = TRUE, !.powerSetCount = 0], todo |-> <<>>]
        ELSE IF counts
        THEN [app |-> [b EXCEPT !.isPowerSetCount = TRUE, !.powerSetCount = c],
              todo |-> << <<"count", c>> >>
                       \o IF c > POWERSETTING_COUNT /\ zdo.devState # "HOLD"
                          THEN FactoryReset ELSE <<>>]
        ELSE [app |-> b, todo |-> <<>>]

\* What CommonApp_PowerOnFactorySetting leaves: the application, and its writes.
PowerOnFactorySetting(a, status) ==
    LET b == IF a.isFirstState
             THEN [a EXCEPT !.powerSetCount = nv.count, !.timer = TRUE] ELSE a
        counts == /\ ~nv.default /\ ~b.hasConn /\ ~b.isNotTimeOut
                  /\ ~b.isPowerSetCount
        c == b.powerSetCount + 1
        gaveUp == c > POWERSETTING_COUNT /\ zdo.devState # "HOLD"
    IN  IF status \in Connected
        THEN [app |-> [b EXCEPT !.hasConn = TRUE, !.powerSetCount = 0],
              todo |-> IF b.powerSetCount # 0 THEN << <<"count", 0>> >> ELSE <<>>]
        ELSE IF counts
        THEN [app |-> [b EXCEPT !.isPowerSetCount = TRUE, !.powerSetCount = c],
              todo |-> IF gaveUp THEN << <<"count", c>> >> \o FactoryReset
                                 ELSE << <<"count", c>> >>]
        ELSE [app |-> b, todo |-> <<>>]

\* The counter is compiled into end devices only.
StateChangeMsg ==
    /\ AppTurn /\ app.msg # "none"
    /\ LET r == IF role = "DEVICE" THEN PowerOnFactorySetting(app, app.msg)
                ELSE [app |-> app, todo |-> <<>>]
       IN  /\ app' = [r.app EXCEPT !.msg = "none", !.NwkState = app.msg,
                                   !.isFirstState = FALSE]
           /\ todo' = r.todo
           /\ lives' = IF r.app.hasConn /\ r.todo = <<>> THEN 0 ELSE lives
    /\ UNCHANGED <<role, nv, zdo, msgs, wdt, up, cuts, trouble>>

PowerSettingCountCB ==
    /\ AppTurn /\ app.timer
    /\ app' = [app EXCEPT !.timer = FALSE, !.isNotTimeOut = FALSE]
    /\ UNCHANGED <<role, nv, todo, zdo, msgs, wdt, up, cuts, trouble, lives>>

\* The key held down: reset to factory settings, unless the device is held.
FactoryKey ==
    /\ AppTurn /\ zdo.devState # "HOLD" /\ Troubles
    /\ todo' = FactoryReset
    /\ UNCHANGED <<role, nv, zdo, msgs, app, wdt, up, cuts, lives>>

\* The key pressed three times: a held device starts.  (Otherwise it is
\* permit join, module UserEvents.)
StartKey ==
    /\ AppTurn /\ zdo.devState = "HOLD"
    /\ zdo' = ZDOInitDevice(nv, FALSE)
    /\ todo' = InitWrites(nv, FALSE)
    /\ UNCHANGED <<role, nv, msgs, app, wdt, up, cuts, trouble, lives>>

-----------------------------------------------------------------------------
Device ==
    \/ FlashStep \/ SystemResetSoft \/ WatchDogEnable \/ WatchdogReset
    \/ NetworkInit \/ RouterStart \/ StateChange \/ SaveNetworkStateEvt
    \/ DeviceReset \/ DeviceAuthEvt \/ FrameCounterChange \/ ProcessOSALMsg
    \/ StateChangeMsg \/ PowerSettingCountCB
    \/ \E t \in Timer : TimerExpires(t)

Network ==
    \/ DiscoveryConfirm \/ ZDO_JoinConfirmCB \/ ZDO_StartRouterConfirmCB
    \/ TransportKeyInd \/ ZDApp_NwkStateUpdateCB \/ ZDO_SyncIndicationCB
    \/ ZDO_AddrChangeIndicationCB \/ SecuredFrame \/ ZDO_LeaveInd \/ Radio

User == PowerLoss \/ FactoryKey \/ StartKey

Next == Device \/ Network \/ User

Spec == Init /\ [][Next]_vars

\* The main loop runs, timers expire, the network layer answers what it was
\* asked, the trust center sends its key, and an outage ends.
FairSpec ==
    /\ Spec
    /\ WF_vars(FlashStep) /\ WF_vars(SystemResetSoft)
    /\ WF_vars(WatchDogEnable) /\ WF_vars(WatchdogReset)
    /\ WF_vars(NetworkInit) /\ WF_vars(RouterStart) /\ WF_vars(StateChange)
    /\ WF_vars(SaveNetworkStateEvt) /\ WF_vars(DeviceReset) /\ WF_vars(DeviceAuthEvt)
    /\ WF_vars(FrameCounterChange) /\ WF_vars(ProcessOSALMsg) /\ WF_vars(StateChangeMsg)
    /\ \A t \in Timer : WF_vars(TimerExpires(t))
    /\ WF_vars(DiscoveryConfirm) /\ WF_vars(ZDO_JoinConfirmCB)
    /\ WF_vars(ZDO_StartRouterConfirmCB) /\ WF_vars(TransportKeyInd)
    /\ WF_vars(~up /\ Radio)

-----------------------------------------------------------------------------
(* Properties.                                                             *)

\* ZDO_UpdateNwkStatus: the application may miss passing states but not the
\* last one.  With nothing left to do the two agree, whatever was changed in
\* place, refused or overtaken on the way.
AppKnowsSteadyState ==
    AppTurn /\ app.msg = "none" /\ zdo.devState \in Connected \cup {"END_DEVICE_UNAUTH"}
        => app.NwkState = zdo.devState

\* A device whose application was told that it is connected starts by itself
\* after a power failure, until a reset to factory settings is asked for.
ComesBackAlone ==
    Ready /\ app.NwkState \in Connected /\ ~wdt => nv.hold = "INIT"

\* A network that a restart would resume has its key in NV: no power failure
\* between the writes leaves a device that resumes without being able to talk.
NoKeylessResume == Restored(nv) => nv.key

\* Without the key an end device returns to factory settings only after more
\* than POWERSETTING_COUNT starts since it last recorded a connection.
GivesUpLate ==
    [][app.msg # "none" /\ app'.msg = "none" /\ <<"watchdog">> \in Range(todo')
           => lives > POWERSETTING_COUNT]_vars

\* When the troubles end the device is connected, or held for its user.
Settles == <>[](zdo.devState \in Connected \cup {"HOLD"})

=============================================================================
