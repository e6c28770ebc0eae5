--------------------------- MODULE StartUp_proofs ---------------------------
(***************************************************************************)
(* Proofs about StartUp, for any number of power failures and troubles and *)
(* any limits of the counters: the records keep their types, a device      *)
(* whose application was told of its connection starts by itself, no       *)
(* restart resumes a network without its key, the application knows the    *)
(* state ZDApp has settled in, and an end device is slow to give up its    *)
(* network.  The invariant is about what is still to be written (NvInv,    *)
(* HoldInv, KeyInv), the record of ZDApp (ZdoInv) and the counter (Counts).*)
(**************************************************************************)
EXTENDS StartUp, SequenceTheorems, WellFoundedInduction, TLAPS

NvType == [hold : {"HOLD", "INIT"}, default : BOOLEAN, net : BOOLEAN,
           key : BOOLEAN, leave : {"no", "leave", "rejoin"}, count : Nat]

AppFields == {"msg", "NwkState", "isFirstState", "hasConn", "isNotTimeOut",
              "timer", "isPowerSetCount", "powerSetCount"}

\* What a handler may still have to do.
Entry == {<<"hold", "HOLD">>, <<"hold", "INIT">>, <<"leave", "no">>,
          <<"leave", "leave">>, <<"leave", "rejoin">>, <<"default", TRUE>>,
          <<"default", FALSE>>, <<"net", TRUE>>, <<"net", FALSE>>, <<"key", TRUE>>,
          <<"key", FALSE>>, <<"watchdog">>, <<"reset">>}
            \cup {<<"count", n>> : n \in Nat}

ToDo == {todo[i] : i \in 1 .. Len(todo)}

NvInv ==
    /\ nv \in NvType
    /\ todo \in Seq(Entry)
    /\ DOMAIN app = AppFields /\ app.powerSetCount \in Nat

-----------------------------------------------------------------------------
(* The hold item.  Whoever writes HOLD enables the watchdog afterwards.     *)

Told == app.msg \in Connected \/ app.NwkState \in Connected

HoldInv ==
    /\ \A i \in 1 .. Len(todo) : todo[i] = <<"hold", "HOLD">> =>
          \E j \in i + 1 .. Len(todo) : todo[j] = <<"watchdog">>
    /\ Told /\ ~wdt => \/ nv.hold = "INIT"
                       \/ <<"hold", "INIT">> \in ToDo
                       \/ <<"watchdog">> \in ToDo

(* The network key.  A device without a key has done nothing but try to    *)
(* join: one request, answer or delay at a time, and none of it left when  *)
(* it waits for the trust center.                                          *)

SetsKey   == <<"key", TRUE>>
ClearsKey == <<"key", FALSE>>
SavesNet  == <<"net", TRUE>>
KeepsNet  == <<"default", FALSE>>

NoKey == ~nv.key \/ ClearsKey \in ToDo

ZdoType ==
    [devState : {"HOLD", "INIT", "NWK_DISC", "NWK_JOINING", "END_DEVICE_UNAUTH"},
     devStartMode : {"JOIN"}, retryCnt : Nat, zdoDiscCounter : Nat,
     nwkStatus : BOOLEAN, events : SUBSET Flag, timers : SUBSET Timer,
     asked : {"none", "disc", "join"}]

\* Something of joining is under way.
Delayed == "NETWORK_INIT" \in zdo.timers
Starting == "NETWORK_INIT" \in zdo.events
Asking == zdo.asked # "none"
Answered == msgs # <<>>

OneAtATime ==
    /\ Delayed => ~Starting /\ ~Asking /\ ~Answered
    /\ Starting => ~Asking /\ ~Answered
    /\ Asking => ~Answered

Fresh ==
    /\ zdo \in ZdoType
    /\ "NWK_UPDATE_NV" \notin zdo.timers \cup zdo.events
    /\ "DEVICE_AUTH" \in zdo.events => zdo.devState = "END_DEVICE_UNAUTH"
    /\ msgs = <<>> \/ \E m \in {"DISC_CNF", "DISC_CNF_EMPTY", "JOIN_IND", "TRANSPORT_KEY"} :
                          msgs = <<m>>
    /\ zdo.devState = "END_DEVICE_UNAUTH" =>
          /\ ~Delayed /\ ~Starting /\ ~Asking
          /\ msgs \in {<<>>, <<"TRANSPORT_KEY">>}
    /\ OneAtATime

KeyInv ==
    /\ SetsKey \in ToDo => ClearsKey \notin ToDo
    /\ NoKey => /\ nv.default \/ ~nv.net
                /\ SavesNet \notin ToDo /\ KeepsNet \notin ToDo
    /\ NoKey /\ SetsKey \notin ToDo => Fresh

IInv == NvInv /\ HoldInv /\ KeyInv

-----------------------------------------------------------------------------
(* The writes of a handler.                                                *)

\* One write less: what is left was there before.
LEMMA TailLeaves ==
    ASSUME todo \in Seq(Entry), todo # <<>>, todo' = Tail(todo)
    PROVE  /\ todo' \in Seq(Entry)
           /\ todo[1] \in Entry /\ todo[1] \in ToDo
           /\ ToDo' \subseteq ToDo
           /\ ToDo \subseteq ToDo' \cup {todo[1]}
  <1>1. /\ Len(todo) \in Nat \ {0}
        /\ \A i \in 1 .. Len(todo) : todo[i] \in Entry
        /\ todo' \in Seq(Entry) /\ Len(todo') = Len(todo) - 1
        /\ \A i \in 1 .. Len(todo) - 1 : todo'[i] = todo[i + 1]
    OBVIOUS
  <1>2. todo[1] \in Entry /\ todo[1] \in ToDo
    BY <1>1 DEF ToDo
  <1>3. ToDo' \subseteq ToDo
    BY <1>1 DEF ToDo
  <1>4. ASSUME NEW i \in 1 .. Len(todo), i # 1
        PROVE  todo[i] \in ToDo'
    <2>1. i - 1 \in 1 .. Len(todo') /\ todo'[i - 1] = todo[i]
      BY <1>1, <1>4
    <2> QED
      BY <2>1 DEF ToDo
  <1> QED
    BY <1>1, <1>2, <1>3, <1>4 DEF ToDo

\* A restart wipes, answers the leave request and forgets, nothing else; it
\* wipes only with the start-up option set.
AtRestart(n) == {<<"net", FALSE>>, <<"leave", "no">>, <<"default", TRUE>>}
                  \cup {x \in {<<"key", FALSE>>} : n.default}

LEMMA RestartWrites ==
    ASSUME NEW n \in NvType, NEW hold \in BOOLEAN
    PROVE  InitWrites(n, hold) \in Seq(AtRestart(n)) \cap Seq(Entry)
  <1> DEFINE l == IF hold \/ n.leave = "no" THEN <<>> ELSE << <<"leave", "no">> >>
             d == IF LeaveHolds(n, hold) THEN << <<"default", TRUE>> >> ELSE <<>>
  <1>1. <<>> \in Seq(AtRestart(n))
    OBVIOUS
  <1>2. Wipe(n) \in Seq(AtRestart(n))
    <2>1. CASE n.default
      BY <2>1 DEF Wipe, AtRestart
    <2>2. CASE ~n.default
      BY <1>1, <2>2 DEF Wipe
    <2> QED
      BY <2>1, <2>2
  <1>3. l \in Seq(AtRestart(n))
    <2>1. << <<"leave", "no">> >> \in Seq(AtRestart(n))
      BY DEF AtRestart
    <2> QED
      BY <1>1, <2>1, Zenon
  <1>4. d \in Seq(AtRestart(n))
    <2>1. << <<"default", TRUE>> >> \in Seq(AtRestart(n))
      BY DEF AtRestart
    <2> QED
      BY <1>1, <2>1, Zenon
  <1>5. InitWrites(n, hold) = Wipe(n) \o l \o d
    BY DEF InitWrites
  <1> HIDE DEF l, d
  <1>6. Wipe(n) \o l \in Seq(AtRestart(n))
    BY <1>2, <1>3, ConcatProperties
  <1>7. InitWrites(n, hold) \in Seq(AtRestart(n))
    BY <1>4, <1>5, <1>6, ConcatProperties
  <1>8. AtRestart(n) \subseteq Entry
    BY DEF AtRestart, Entry
  <1> QED
    BY <1>7, <1>8, SeqMonotonic

LEMMA ItemAndValue ==
    ASSUME FlashStep, NEW x, NEW v, todo[1] = <<x, v>>
    PROVE  nv' = [nv EXCEPT ![x] = v]
  <1>1. todo[1][1] = x /\ todo[1][2] = v
    OBVIOUS
  <1> QED
    BY <1>1, Zenon DEF FlashStep

\* A write changes its own item, to a value of the item.
LEMMA OneItemWritten ==
    ASSUME NvInv, FlashStep
    PROVE  /\ nv' \in NvType
           /\ todo[1] \in Entry \ {<<"watchdog">>, <<"reset">>}
           /\ todo[1] = <<"hold", "HOLD">> => nv'.hold = "HOLD"
           /\ todo[1] = <<"hold", "INIT">> => nv'.hold = "INIT"
           /\ todo[1] \notin {<<"hold", "HOLD">>, <<"hold", "INIT">>} => nv'.hold = nv.hold
           /\ nv'.default <=>
                todo[1] = <<"default", TRUE>> \/ (nv.default /\ todo[1] # <<"default", FALSE>>)
           /\ nv'.net <=> todo[1] = <<"net", TRUE>> \/ (nv.net /\ todo[1] # <<"net", FALSE>>)
           /\ nv'.key <=> todo[1] = <<"key", TRUE>> \/ (nv.key /\ todo[1] # <<"key", FALSE>>)
  <1> DEFINE Unchanged == /\ nv'.hold = nv.hold /\ nv'.default = nv.default
                          /\ nv'.net = nv.net /\ nv'.key = nv.key
  <1>1. todo[1] \in Entry /\ todo[1][1] \in DOMAIN nv
    BY TailLeaves DEF NvInv, FlashStep
  <1>2. nv \in NvType
    BY DEF NvInv
  <1>3. ASSUME NEW n \in Nat, todo[1] = <<"count", n>>
        PROVE  nv' \in NvType /\ Unchanged
    <2>1. nv' = [nv EXCEPT !["count"] = n]
      BY <1>3, ItemAndValue
    <2> QED
      BY <1>2, <2>1 DEF NvType
  <1>4. ASSUME NEW v \in {"HOLD", "INIT"}, todo[1] = <<"hold", v>>
        PROVE  /\ nv' \in NvType /\ nv'.hold = v
               /\ nv'.default = nv.default /\ nv'.net = nv.net /\ nv'.key = nv.key
    <2>1. nv' = [nv EXCEPT !["hold"] = v]
      BY <1>4, ItemAndValue
    <2> QED
      BY <1>2, <2>1 DEF NvType
  <1>5. ASSUME NEW v \in BOOLEAN, todo[1] = <<"default", v>>
        PROVE  /\ nv' \in NvType /\ nv'.default = v
               /\ nv'.hold = nv.hold /\ nv'.net = nv.net /\ nv'.key = nv.key
    <2>1. nv' = [nv EXCEPT !["default"] = v]
      BY <1>5, ItemAndValue
    <2> QED
      BY <1>2, <2>1 DEF NvType
  <1>6. ASSUME NEW v \in BOOLEAN, todo[1] = <<"net", v>>
        PROVE  /\ nv' \in NvType /\ nv'.net = v
               /\ nv'.hold = nv.hold /\ nv'.default = nv.default /\ nv'.key = nv.key
    <2>1. nv' = [nv EXCEPT !["net"] = v]
      BY <1>6, ItemAndValue
    <2> QED
      BY <1>2, <2>1 DEF NvType
  <1>7. ASSUME NEW v \in BOOLEAN, todo[1] = <<"key", v>>
        PROVE  /\ nv' \in NvType /\ nv'.key = v
               /\ nv'.hold = nv.hold /\ nv'.default = nv.default /\ nv'.net = nv.net
    <2>1. nv' = [nv EXCEPT !["key"] = v]
      BY <1>7, ItemAndValue
    <2> QED
      BY <1>2, <2>1 DEF NvType
  <1>8. ASSUME NEW l \in {"no", "leave", "rejoin"}, todo[1] = <<"leave", l>>
         PROVE  nv' \in NvType /\ Unchanged
    <2>1. nv' = [nv EXCEPT !["leave"] = l]
      BY <1>8, ItemAndValue
    <2> QED
      BY <1>2, <2>1 DEF NvType
  <1>9. todo[1] \notin {<<"watchdog">>, <<"reset">>}
    BY <1>1, <1>2 DEF NvType
  <1> QED
    BY <1>1, <1>3, <1>4, <1>5, <1>6, <1>7, <1>8, <1>9 DEF Entry

\* The application counts and forgets, and does not forget without a reset.
AppWrites == {<<"hold", "HOLD">>, <<"default", TRUE>>, <<"watchdog">>}
               \cup {<<"count", n>> : n \in Nat}

FromApp(t) ==
    /\ t \in Seq(AppWrites)
    /\ \A i \in 1 .. Len(t) : t[i] = <<"hold", "HOLD">> =>
          \E j \in i + 1 .. Len(t) : t[j] = <<"watchdog">>

LEMMA ForgettingResets ==
    /\ FromApp(<<>>)
    /\ FromApp(FactoryReset)
    /\ \A n \in Nat : FromApp(<< <<"count", n>> >>)
    /\ \A n \in Nat : FromApp(<< <<"count", n>> >> \o FactoryReset)
  <1>1. FromApp(<<>>)
    BY DEF FromApp
  <1>2. /\ FactoryReset \in Seq(AppWrites) /\ Len(FactoryReset) = 3
        /\ FactoryReset[1] = <<"hold", "HOLD">>
        /\ FactoryReset[2] = <<"default", TRUE>>
        /\ FactoryReset[3] = <<"watchdog">>
    <2>1. /\ <<"hold", "HOLD">> \in AppWrites /\ <<"default", TRUE>> \in AppWrites
          /\ <<"watchdog">> \in AppWrites
      BY DEF AppWrites
    <2>2. ASSUME NEW a \in AppWrites, NEW b \in AppWrites, NEW c \in AppWrites
          PROVE  /\ <<a, b, c>> \in Seq(AppWrites) /\ Len(<<a, b, c>>) = 3
                 /\ <<a, b, c>>[1] = a /\ <<a, b, c>>[2] = b /\ <<a, b, c>>[3] = c
      OBVIOUS
    <2> QED
      BY <2>1, <2>2, Zenon DEF FactoryReset
  <1>3. FromApp(FactoryReset)
    BY <1>2 DEF FromApp
  <1>4. ASSUME NEW n \in Nat
        PROVE  FromApp(<< <<"count", n>> >>) /\ FromApp(<< <<"count", n>> >> \o FactoryReset)
    <2> DEFINE c == << <<"count", n>> >>
               t == c \o FactoryReset
    <2>1. c \in Seq(AppWrites) /\ Len(c) = 1 /\ c[1] # <<"hold", "HOLD">>
      BY DEF AppWrites
    <2> HIDE DEF c
    <2>2. FromApp(c)
      BY <2>1 DEF FromApp
    <2>3. /\ t \in Seq(AppWrites) /\ Len(t) = 4
          /\ t[1] = c[1] /\ t[4] = FactoryReset[3]
      BY <1>2, <2>1, ConcatProperties
    <2> HIDE DEF t
    <2>4. FromApp(t)
      BY <1>2, <2>1, <2>3 DEF FromApp
    <2> QED
      BY <2>2, <2>4 DEF c, t
  <1> QED
    BY <1>1, <1>3, <1>4

LEMMA CounterWrites ==
    ASSUME NvInv
    PROVE  /\ FromApp(PowerOnFactorySetting(app, app.msg).todo)
           /\ DOMAIN PowerOnFactorySetting(app, app.msg).app = AppFields
           /\ PowerOnFactorySetting(app, app.msg).app.powerSetCount \in Nat
           /\ PowerOnFactorySetting(app, app.msg).app.NwkState = app.NwkState
  <1> DEFINE b == IF app.isFirstState
                  THEN [app EXCEPT !.powerSetCount = nv.count, !.timer = TRUE] ELSE app
             c == b.powerSetCount + 1
             gaveUp == c > POWERSETTING_COUNT /\ zdo.devState # "HOLD"
             counts == /\ ~nv.default /\ ~b.hasConn /\ ~b.isNotTimeOut
                       /\ ~b.isPowerSetCount
             r == PowerOnFactorySetting(app, app.msg)
  <1>1. /\ DOMAIN b = AppFields /\ b.powerSetCount \in Nat
        /\ b.NwkState = app.NwkState
    BY DEF NvInv, NvType, AppFields
  <1>2. c \in Nat
    BY <1>1
  <1>3. CASE app.msg \in Connected
    <2>1. r = [app |-> [b EXCEPT !.hasConn = TRUE, !.powerSetCount = 0],
               todo |-> IF b.powerSetCount # 0 THEN << <<"count", 0>> >> ELSE <<>>]
      BY <1>3, Zenon DEF PowerOnFactorySetting
    <2> HIDE DEF b, r
    <2>2. /\ r.app = [b EXCEPT !.hasConn = TRUE, !.powerSetCount = 0]
          /\ r.todo \in {<<>>, << <<"count", 0>> >>}
      BY <2>1
    <2>3. FromApp(r.todo)
      BY <2>2, ForgettingResets, Zenon
    <2> QED
      BY <1>1, <2>2, <2>3 DEF AppFields, r
  <1>4. CASE app.msg \notin Connected /\ counts
    <2>1. r = [app |-> [b EXCEPT !.isPowerSetCount = TRUE, !.powerSetCount = c],
               todo |-> IF gaveUp THEN << <<"count", c>> >> \o FactoryReset
                                  ELSE << <<"count", c>> >>]
      BY <1>4, Zenon DEF PowerOnFactorySetting
    <2> HIDE DEF b, c, r
    <2>2. /\ r.app = [b EXCEPT !.isPowerSetCount = TRUE, !.powerSetCount = c]
          /\ r.todo \in {<< <<"count", c>> >> \o FactoryReset, << <<"count", c>> >>}
      BY <2>1
    <2>3. FromApp(r.todo)
      BY <1>2, <2>2, ForgettingResets, Zenon
    <2> QED
      BY <1>1, <1>2, <2>2, <2>3 DEF AppFields, r
  <1>5. CASE app.msg \notin Connected /\ ~counts
    <2>1. r = [app |-> b, todo |-> <<>>]
      BY <1>5, Zenon DEF PowerOnFactorySetting
    <2> HIDE DEF b, r
    <2>2. r.app = b /\ r.todo = <<>>
      BY <2>1
    <2> QED
      BY <1>1, <2>2, ForgettingResets, Zenon DEF r
  <1> HIDE DEF counts
  <1> QED
    BY <1>3, <1>4, <1>5

LEMMA ExplicitWrites ==
    ASSUME NEW S
    PROVE  /\ <<>> \in Seq(S)
           /\ \A e \in S : << e >> \in Seq(S)
           /\ \A e, f \in S : << e, f >> \in Seq(S)
    OBVIOUS

-----------------------------------------------------------------------------
(* The handlers that write nothing and do not concern the application.     *)

Silent ==
    \/ NetworkInit \/ RouterStart \/ ProcessOSALMsg
    \/ \E t \in Timer : TimerExpires(t)
    \/ DiscoveryConfirm \/ ZDO_JoinConfirmCB \/ ZDO_StartRouterConfirmCB
    \/ TransportKeyInd \/ ZDApp_NwkStateUpdateCB \/ ZDO_SyncIndicationCB
    \/ ZDO_AddrChangeIndicationCB \/ SecuredFrame \/ Radio

Saves == SaveNetworkStateEvt \/ DeviceReset \/ DeviceAuthEvt \/ FrameCounterChange \/ ZDO_LeaveInd

Restarts == SystemResetSoft \/ WatchdogReset \/ PowerLoss

LEMMA NextIs ==
    Next <=> \/ FlashStep \/ WatchDogEnable \/ Restarts \/ StartKey \/ StateChangeMsg
             \/ FactoryKey \/ StateChange \/ Saves \/ PowerSettingCountCB \/ Silent
  BY Zenon DEF Next, Device, Network, User, Silent, Saves, Restarts

LEMMA SilentKeeps ==
    ASSUME Silent
    PROVE  (todo = <<>> \/ Radio) /\ UNCHANGED <<nv, todo, app, wdt>>
  <1>1. CASE NetworkInit \/ RouterStart \/ ProcessOSALMsg
    BY <1>1 DEF NetworkInit, RouterStart, ProcessOSALMsg, ZdoOnly, Serves, Ready
  <1>2. CASE \E t \in Timer : TimerExpires(t)
    BY <1>2 DEF TimerExpires, OutsideOnly, Ready
  <1>3. CASE DiscoveryConfirm \/ ZDO_JoinConfirmCB \/ ZDO_StartRouterConfirmCB \/ TransportKeyInd
    BY <1>3 DEF DiscoveryConfirm, ZDO_JoinConfirmCB, ZDO_StartRouterConfirmCB,
                TransportKeyInd, OutsideOnly, Ready
  <1>4. CASE ZDApp_NwkStateUpdateCB \/ ZDO_SyncIndicationCB \/ ZDO_AddrChangeIndicationCB
    BY <1>4 DEF ZDApp_NwkStateUpdateCB, ZDO_SyncIndicationCB,
                ZDO_AddrChangeIndicationCB, OutsideOnly, Ready
  <1>5. CASE SecuredFrame \/ Radio
    BY <1>5 DEF SecuredFrame, Radio, OutsideOnly, Ready
  <1> QED
    BY <1>1, <1>2, <1>3, <1>4, <1>5 DEF Silent

LEMMA SavesWrite ==
    ASSUME Saves
    PROVE  /\ UNCHANGED <<nv, app, wdt>>
           /\ todo = <<>>
           /\ todo' \in {<<>>, << <<"net", TRUE>>, <<"default", FALSE>> >>,
                         << <<"default", TRUE>>, <<"reset">> >>, << <<"key", TRUE>> >>,
                         << <<"leave", "leave">> >>, << <<"leave", "rejoin">> >>}
  <1>1. CASE SaveNetworkStateEvt \/ DeviceReset
    BY <1>1 DEF SaveNetworkStateEvt, DeviceReset, Serves, Ready, ZdoOnly
  <1>2. CASE DeviceAuthEvt
    BY <1>2 DEF DeviceAuthEvt, Serves, Ready, ZdoOnly
  <1>3. CASE FrameCounterChange
    BY <1>3 DEF FrameCounterChange, Serves, Ready, ZdoOnly
  <1>4. CASE ZDO_LeaveInd
    BY <1>4 DEF ZDO_LeaveInd, Ready, OutsideOnly
  <1> QED
    BY <1>1, <1>2, <1>3, <1>4 DEF Saves

LEMMA SavesAreWrites ==
    ASSUME Saves
    PROVE  todo' \in Seq(Entry \ {<<"hold", "HOLD">>})
  <1> DEFINE S == Entry \ {<<"hold", "HOLD">>}
  <1>1. /\ <<"net", TRUE>> \in S /\ <<"default", FALSE>> \in S
        /\ <<"default", TRUE>> \in S /\ <<"reset">> \in S
        /\ <<"key", TRUE>> \in S /\ <<"leave", "leave">> \in S
        /\ <<"leave", "rejoin">> \in S
    BY DEF Entry
  <1> HIDE DEF S
  <1>2. todo' \in Seq(S)
    BY <1>1, SavesWrite, ExplicitWrites, Zenon
  <1> QED
    BY <1>2 DEF S

LEMMA HoldWritesAre ==
    ASSUME StateChange
    PROVE  /\ todo = <<>> /\ UNCHANGED <<nv, wdt>>
           /\ todo' = IF zdo.devState \in Connected /\ nv.hold # "INIT"
                      THEN << <<"hold", "INIT">> >> ELSE <<>>
           /\ app' = app \/ app' = [app EXCEPT !.msg = zdo.devState]
    BY DEF StateChange, HoldWrites, Serves, Ready

\* A restart, and the start of a held device.
LEMMA BeginsAnew ==
    ASSUME NvInv, Restarts \/ StartKey
    PROVE  /\ nv' = nv /\ msgs' = <<>>
           /\ todo' \in Seq(AtRestart(nv)) \cap Seq(Entry)
           /\ \A i \in 1 .. Len(todo') : todo'[i] # <<"hold", "HOLD">>
           /\ \E h \in BOOLEAN : zdo' = ZDOInitDevice(nv, h)
  <1>1. ASSUME NEW h \in BOOLEAN, todo' = InitWrites(nv, h)
        PROVE  /\ todo' \in Seq(AtRestart(nv)) \cap Seq(Entry)
               /\ \A i \in 1 .. Len(todo') : todo'[i] # <<"hold", "HOLD">>
    <2>1. todo' \in Seq(AtRestart(nv)) \cap Seq(Entry)
      BY <1>1, RestartWrites DEF NvInv
    <2>2. ASSUME NEW i \in 1 .. Len(todo')
          PROVE  todo'[i] # <<"hold", "HOLD">>
      <3>1. AtRestart(nv) \subseteq Entry \ {<<"hold", "HOLD">>}
        <4>1. /\ <<"net", FALSE>> \in Entry \ {<<"hold", "HOLD">>}
              /\ <<"key", FALSE>> \in Entry \ {<<"hold", "HOLD">>}
              /\ <<"leave", "no">> \in Entry \ {<<"hold", "HOLD">>}
              /\ <<"default", TRUE>> \in Entry \ {<<"hold", "HOLD">>}
          BY DEF Entry
        <4> QED
          BY <4>1, Zenon DEF AtRestart
      <3>2. todo'[i] \in AtRestart(nv)
        BY <2>1
      <3> QED
        BY <3>1, <3>2, Zenon
    <2> QED
      BY <2>1, <2>2
  <1>2. CASE Restarts
    <2>1. /\ nv' = nv /\ msgs' = <<>>
          /\ todo' = InitWrites(nv, nv.hold # "INIT")
          /\ zdo' = ZDOInitDevice(nv, nv.hold # "INIT")
      BY <1>2 DEF Restarts, Restart, SystemResetSoft, WatchdogReset, PowerLoss
    <2>2. (nv.hold # "INIT") \in BOOLEAN
      OBVIOUS
    <2>3. PICK h \in BOOLEAN : h = (nv.hold # "INIT")
      BY <2>2
    <2>4. todo' = InitWrites(nv, h) /\ zdo' = ZDOInitDevice(nv, h)
      BY <2>1, <2>3, Zenon
    <2> QED
      BY <2>1, <2>4, <1>1, Zenon
  <1>3. CASE StartKey
    <2>1. /\ nv' = nv /\ msgs' = <<>>
          /\ todo' = InitWrites(nv, FALSE) /\ zdo' = ZDOInitDevice(nv, FALSE)
      BY <1>3 DEF StartKey, AppTurn
    <2> QED
      BY <2>1, <1>1
  <1> QED
    BY <1>2, <1>3

\* Items, writes and the application's record keep their types.
LEMMA NvStep ==
    ASSUME NvInv, [Next]_vars
    PROVE  NvInv'
  <1>1. CASE FlashStep
    <2>1. todo \in Seq(Entry) /\ todo # <<>> /\ todo' = Tail(todo) /\ app' = app
      BY <1>1 DEF NvInv, FlashStep
    <2> QED
      BY <1>1, <2>1, OneItemWritten, TailLeaves DEF NvInv
  <1>2. CASE WatchDogEnable
    <2>1. todo \in Seq(Entry) /\ todo # <<>> /\ todo' = Tail(todo) /\ UNCHANGED <<nv, app>>
      BY <1>2 DEF NvInv, WatchDogEnable
    <2> QED
      BY <2>1, TailLeaves DEF NvInv
  <1>3. CASE Restarts
    <2>1. app' = AppAtReset
      BY <1>3 DEF Restarts, Restart, SystemResetSoft, WatchdogReset, PowerLoss
    <2>2. DOMAIN AppAtReset = AppFields /\ AppAtReset.powerSetCount = 0
      BY DEF AppAtReset, AppFields
    <2> QED
      BY <1>3, <2>1, <2>2, BeginsAnew DEF NvInv
  <1>4. CASE StartKey
    BY <1>4, RestartWrites DEF NvInv, StartKey
  <1>5. CASE StateChangeMsg
    <2>1. CASE role = "DEVICE"
      <3>1. todo' = PowerOnFactorySetting(app, app.msg).todo /\ nv' = nv
        BY <1>5, <2>1 DEF StateChangeMsg
      <3>2. app' = [PowerOnFactorySetting(app, app.msg).app EXCEPT
                      !.msg = "none", !.NwkState = app.msg, !.isFirstState = FALSE]
        BY <1>5, <2>1 DEF StateChangeMsg
      <3>3. AppWrites \subseteq Entry
        BY DEF AppWrites, Entry
      <3>4. todo' \in Seq(Entry)
        BY <3>1, <3>3, CounterWrites, SeqMonotonic DEF FromApp
      <3>5. DOMAIN app' = AppFields /\ app'.powerSetCount \in Nat
        BY <3>2, CounterWrites DEF AppFields
      <3> QED
        BY <3>1, <3>4, <3>5 DEF NvInv
    <2>2. CASE role # "DEVICE"
      <3>1. /\ todo' = <<>> /\ nv' = nv
            /\ app' = [app EXCEPT !.msg = "none", !.NwkState = app.msg, !.isFirstState = FALSE]
        BY <1>5, <2>2 DEF StateChangeMsg
      <3>2. DOMAIN app' = AppFields /\ app'.powerSetCount \in Nat
        BY <3>1 DEF NvInv, AppFields
      <3> QED
        BY <3>1, <3>2 DEF NvInv
    <2> QED
      BY <2>1, <2>2
  <1>6. CASE FactoryKey
    <2>1. AppWrites \subseteq Entry
      BY DEF AppWrites, Entry
    <2> QED
      BY <1>6, <2>1, ForgettingResets, SeqMonotonic DEF FactoryKey, FromApp, NvInv
  <1>7. CASE StateChange
    <2>1. todo' \in Seq(Entry)
      <3>1. <<"hold", "INIT">> \in Entry
        BY DEF Entry
      <3> QED
        BY <1>7, <3>1, HoldWritesAre, ExplicitWrites, Zenon
    <2>2. DOMAIN app' = AppFields /\ app'.powerSetCount = app.powerSetCount
      BY <1>7, HoldWritesAre DEF NvInv, AppFields
    <2> QED
      BY <1>7, <2>1, <2>2, HoldWritesAre DEF NvInv
  <1>8. CASE Saves
    BY <1>8, SavesWrite, SavesAreWrites, SeqMonotonic DEF NvInv
  <1>9. CASE PowerSettingCountCB
    <2>1. /\ UNCHANGED <<nv, todo>>
          /\ app' = [app EXCEPT !.timer = FALSE, !.isNotTimeOut = FALSE]
      BY <1>9 DEF PowerSettingCountCB
    <2> QED
      BY <2>1 DEF NvInv, AppFields
  <1>10. CASE Silent
    BY <1>10, SilentKeeps DEF NvInv
  <1>11. CASE UNCHANGED vars
    BY <1>11 DEF vars, NvInv
  <1> QED
    BY <1>1, <1>2, <1>3, <1>4, <1>5, <1>6, <1>7, <1>8, <1>9, <1>10, <1>11, NextIs

-----------------------------------------------------------------------------
(* The hold item.                                                          *)

LEMMA HoldStep ==
    ASSUME NvInv, NvInv', HoldInv, [Next]_vars
    PROVE  HoldInv'
  <1> DEFINE Ordered == \A i \in 1 .. Len(todo) : todo[i] = <<"hold", "HOLD">> =>
                           \E j \in i + 1 .. Len(todo) : todo[j] = <<"watchdog">>
  <1>1. ASSUME todo # <<>>, todo' = Tail(todo)
        PROVE  Ordered' /\ (todo[1] = <<"hold", "HOLD">> => <<"watchdog">> \in ToDo')
    <2>1. /\ Len(todo) \in Nat \ {0} /\ Len(todo') = Len(todo) - 1
          /\ \A i \in 1 .. Len(todo') : todo'[i] = todo[i + 1]
      BY <1>1 DEF NvInv
    <2>2. ASSUME NEW i \in 1 .. Len(todo'), todo'[i] = <<"hold", "HOLD">>
          PROVE  \E j \in i + 1 .. Len(todo') : todo'[j] = <<"watchdog">>
      <3>1. PICK k \in 1 .. Len(todo) : k = i + 1
        BY <2>1
      <3>2. PICK j \in k + 1 .. Len(todo) : todo[j] = <<"watchdog">>
        <4>1. todo[k] = <<"hold", "HOLD">>
          BY <2>1, <2>2, <3>1
        <4> QED
          BY <4>1 DEF HoldInv
      <3>3. j - 1 \in i + 1 .. Len(todo') /\ todo'[j - 1] = todo[j]
        BY <2>1, <3>1, <3>2
      <3> QED
        BY <3>2, <3>3
    <2>3. ASSUME todo[1] = <<"hold", "HOLD">>
          PROVE  <<"watchdog">> \in ToDo'
      <3>1. PICK j \in 1 + 1 .. Len(todo) : todo[j] = <<"watchdog">>
        <4>1. 1 \in 1 .. Len(todo)
          BY <2>1
        <4> QED
          BY <2>3, <4>1 DEF HoldInv
      <3>2. j - 1 \in 1 .. Len(todo') /\ todo'[j - 1] = <<"watchdog">>
        BY <2>1, <3>1
      <3> QED
        BY <3>2 DEF ToDo
    <2> QED
      BY <2>2, <2>3
  <1>2. CASE FlashStep
    <2>1. todo \in Seq(Entry) /\ todo # <<>> /\ todo' = Tail(todo) /\ UNCHANGED <<app, wdt>>
      BY <1>2 DEF NvInv, FlashStep
    <2>2. todo[1] # <<"watchdog">>
      BY <1>2, OneItemWritten
    <2> QED
      BY <1>1, <1>2, <2>1, <2>2, OneItemWritten, TailLeaves DEF HoldInv, Told
  <1>3. CASE WatchDogEnable
    BY <1>1, <1>3 DEF HoldInv, WatchDogEnable
  <1>4. CASE Restarts
    <2>1. app'.msg = "none" /\ app'.NwkState = "INIT"
      BY <1>4 DEF Restarts, Restart, SystemResetSoft, WatchdogReset, PowerLoss, AppAtReset
    <2>2. Ordered'
      BY <1>4, BeginsAnew
    <2> QED
      BY <2>1, <2>2 DEF HoldInv, Told, Connected
  <1>5. CASE StartKey
    <2>1. todo = <<>> /\ UNCHANGED <<app, wdt, nv>>
      BY <1>5 DEF StartKey, AppTurn, Ready
    <2>2. Ordered'
      BY <1>5, BeginsAnew
    <2>3. ToDo = {}
      BY <2>1 DEF ToDo
    <2> QED
      BY <2>1, <2>2, <2>3 DEF HoldInv, Told
  <1>6. ASSUME todo = <<>>, nv' = nv, wdt' = wdt, FromApp(todo'), Told' => Told
        PROVE  HoldInv'
    <2>1. ToDo = {}
      BY <1>6 DEF ToDo
    <2>2. Ordered'
      BY <1>6 DEF FromApp
    <2> QED
      BY <1>6, <2>1, <2>2 DEF HoldInv, Told
  <1>7. CASE StateChangeMsg
    <2>1. todo = <<>> /\ UNCHANGED <<nv, wdt>>
      BY <1>7 DEF StateChangeMsg, AppTurn, Ready
    <2>2. FromApp(todo')
      BY <1>7, CounterWrites, ForgettingResets DEF StateChangeMsg
    <2>3. PICK a : /\ DOMAIN a = AppFields
                   /\ app' = [a EXCEPT !.msg = "none", !.NwkState = app.msg, !.isFirstState = FALSE]
      BY <1>7, CounterWrites DEF StateChangeMsg, NvInv
    <2>4. app'.msg = "none" /\ app'.NwkState = app.msg
      BY <2>3 DEF AppFields
    <2> QED
      BY <1>6, <2>1, <2>2, <2>4 DEF Told, Connected
  <1>8. CASE FactoryKey
    BY <1>6, <1>8, ForgettingResets DEF FactoryKey, AppTurn, Ready, Told
  <1>9. CASE PowerSettingCountCB
    <2>1. /\ todo = <<>> /\ UNCHANGED <<todo, nv, wdt>>
          /\ app'.msg = app.msg /\ app'.NwkState = app.NwkState
      BY <1>9 DEF PowerSettingCountCB, AppTurn, Ready, NvInv, AppFields
    <2> QED
      BY <1>6, <2>1, ForgettingResets DEF Told
  <1>10. CASE StateChange
    <2>1. /\ todo = <<>> /\ UNCHANGED <<nv, wdt>>
          /\ app'.NwkState = app.NwkState
          /\ app'.msg = app.msg \/ app'.msg = zdo.devState
      BY <1>10, HoldWritesAre DEF NvInv, AppFields
    <2>2. ToDo = {}
      BY <2>1 DEF ToDo
    <2>3. CASE zdo.devState \in Connected /\ nv.hold # "INIT"
      <3>1. todo' = << <<"hold", "INIT">> >>
        BY <1>10, <2>3, HoldWritesAre
      <3>2. Len(todo') = 1 /\ todo'[1] = <<"hold", "INIT">>
        BY <3>1
      <3> QED
        BY <3>2 DEF HoldInv, ToDo
    <2>4. CASE ~(zdo.devState \in Connected /\ nv.hold # "INIT")
      <3>1. todo' = <<>>
        BY <1>10, <2>4, HoldWritesAre
      <3> QED
        BY <2>1, <2>2, <2>4, <3>1 DEF HoldInv, Told
    <2> QED
      BY <2>3, <2>4
  <1>11. CASE Saves
    <2>1. todo = <<>> /\ UNCHANGED <<nv, app, wdt>>
      BY <1>11, SavesWrite
    <2>2. ToDo = {}
      BY <2>1 DEF ToDo
    <2>3. ASSUME NEW i \in 1 .. Len(todo')
          PROVE  todo'[i] # <<"hold", "HOLD">>
      <3>1. todo'[i] \in Entry \ {<<"hold", "HOLD">>}
        BY <1>11, SavesAreWrites
      <3> QED
        BY <3>1
    <2> QED
      BY <2>1, <2>2, <2>3 DEF HoldInv, Told
  <1>12. CASE Silent
    BY <1>12, SilentKeeps DEF HoldInv, Told, ToDo
  <1>13. CASE UNCHANGED vars
    BY <1>13 DEF vars, HoldInv, Told, ToDo
  <1> QED
    BY <1>2, <1>3, <1>4, <1>5, <1>7, <1>8, <1>9, <1>10, <1>11, <1>12, <1>13, NextIs

-----------------------------------------------------------------------------
(* The network key.                                                        *)

LEMMA Tuples ==
    /\ \A a, b, c, d : <<a, b>> = <<c, d>> <=> a = c /\ b = d
    /\ \A a, b, c : <<a>> # <<b, c>>
  OBVIOUS

KeyWrites == {SetsKey, ClearsKey, SavesNet, KeepsNet}

\* What concerns neither the key nor the saving of the network.
LEMMA OtherWrites ==
    /\ AppWrites \cap KeyWrites = {}
    /\ <<"hold", "INIT">> \notin KeyWrites
    /\ <<"default", TRUE>> \notin KeyWrites
    /\ <<"leave", "no">> \notin KeyWrites
    /\ <<"leave", "leave">> \notin KeyWrites
    /\ <<"leave", "rejoin">> \notin KeyWrites
    /\ <<"reset">> \notin KeyWrites
    /\ <<"net", FALSE>> \notin KeyWrites
    /\ SetsKey # ClearsKey /\ SetsKey # SavesNet /\ SetsKey # KeepsNet
    /\ ClearsKey # SavesNet /\ ClearsKey # KeepsNet
  <1>1. TRUE # FALSE
    OBVIOUS
  <1>2. ASSUME NEW x, NEW v, x \notin {"key", "net", "default"}
        PROVE  <<x, v>> \notin KeyWrites
    BY <1>2, Tuples, Zenon DEF KeyWrites, SetsKey, ClearsKey, SavesNet, KeepsNet
  <1>3. ASSUME NEW x
        PROVE  <<x>> \notin KeyWrites
    BY Tuples, Zenon DEF KeyWrites, SetsKey, ClearsKey, SavesNet, KeepsNet
  <1>4. <<"default", TRUE>> \notin KeyWrites /\ <<"net", FALSE>> \notin KeyWrites
    BY <1>1, Tuples, Zenon DEF KeyWrites, SetsKey, ClearsKey, SavesNet, KeepsNet
  <1>5. /\ SetsKey # ClearsKey /\ SetsKey # SavesNet /\ SetsKey # KeepsNet
        /\ ClearsKey # SavesNet /\ ClearsKey # KeepsNet
    BY <1>1, Tuples, Zenon DEF SetsKey, ClearsKey, SavesNet, KeepsNet
  <1>6. /\ "hold" \notin {"key", "net", "default"}
        /\ "leave" \notin {"key", "net", "default"}
        /\ "count" \notin {"key", "net", "default"}
    OBVIOUS
  <1>7. AppWrites \cap KeyWrites = {}
    BY <1>2, <1>3, <1>4, <1>6, Zenon DEF AppWrites
  <1> QED
    BY <1>2, <1>3, <1>4, <1>5, <1>6, <1>7, Zenon

\* A write that is done.
LEMMA KeyFlash ==
    ASSUME NvInv, KeyInv, FlashStep
    PROVE  KeyInv'
  <1> DEFINE e == todo[1]
  <1>1. /\ e \in ToDo /\ ToDo' \subseteq ToDo /\ ToDo \subseteq ToDo' \cup {e}
        /\ UNCHANGED <<zdo, msgs>>
    BY TailLeaves DEF NvInv, FlashStep
  <1>2. nv'.key <=> e = SetsKey \/ (nv.key /\ e # ClearsKey)
    BY OneItemWritten DEF SetsKey, ClearsKey
  <1>3. e # KeepsNet /\ nv.default => nv'.default
    BY OneItemWritten DEF KeepsNet
  <1>4. e # SavesNet /\ nv'.net => nv.net
    BY OneItemWritten DEF SavesNet
  <1> HIDE DEF e
  <1>5. NoKey' => NoKey /\ (SetsKey \in ToDo => SetsKey \in ToDo')
    BY <1>1, <1>2, OtherWrites, Zenon DEF NoKey, KeyInv
  <1>6. Fresh => Fresh'
    BY <1>1 DEF Fresh, OneAtATime, Delayed, Starting, Asking, Answered
  <1> QED
    BY <1>1, <1>3, <1>4, <1>5, <1>6, Zenon DEF KeyInv

\* A handler that has written nothing of the key keeps the invariant if it keeps
\* a device without key as it was, or as one that is joining.
LEMMA KeyElse ==
    ASSUME KeyInv, todo = <<>>, nv' = nv, ToDo' \cap KeyWrites = {}, ~nv.key /\ Fresh => Fresh'
    PROVE  KeyInv'
  <1>1. ToDo = {}
    BY DEF ToDo
  <1>2. /\ SetsKey \notin ToDo' /\ ClearsKey \notin ToDo'
        /\ SavesNet \notin ToDo' /\ KeepsNet \notin ToDo'
    BY Zenon DEF KeyWrites
  <1>3. NoKey' => NoKey /\ ~nv.key
    BY <1>2, Zenon DEF NoKey
  <1> QED
    BY <1>1, <1>2, <1>3, Zenon DEF KeyInv

\* The start of a device that has nothing to resume.
LEMMA NewDevice ==
    ASSUME ~Restored(nv), NEW h \in BOOLEAN
    PROVE  /\ ZDOInitDevice(nv, h) \in ZdoType
           /\ ZDOInitDevice(nv, h).events \subseteq {"STATE_CHANGE"}
           /\ ZDOInitDevice(nv, h).timers \subseteq {"NETWORK_INIT"}
           /\ ZDOInitDevice(nv, h).asked = "none"
           /\ ZDOInitDevice(nv, h).devState \in {"HOLD", "INIT"}
  <1> DEFINE starts == ~h /\ ~LeaveHolds(nv, h)
             z == [devState |-> IF starts THEN "INIT" ELSE "HOLD",
                   devStartMode |-> "JOIN",
                   retryCnt |-> 0, zdoDiscCounter |-> 1, nwkStatus |-> TRUE,
                   events |-> IF LeaveHolds(nv, h) THEN {"STATE_CHANGE"} ELSE {},
                   timers |-> IF starts THEN {"NETWORK_INIT"} ELSE {},
                   asked |-> "none"]
  <1>1. ZDOInitDevice(nv, h) = z
    BY DEF ZDOInitDevice
  <1>2. z \in ZdoType
    BY DEF ZdoType, Flag, Timer
  <1> QED
    BY <1>1, <1>2

LEMMA FreshStart ==
    ASSUME ~Restored(nv), NEW h \in BOOLEAN, zdo' = ZDOInitDevice(nv, h), msgs' = <<>>
    PROVE  Fresh'
  BY NewDevice DEF Fresh, OneAtATime, Delayed, Starting, Asking, Answered

\* Delays and requests of joining.
LEMMA FreshFlags ==
    ASSUME Fresh, todo = <<>>, ~nv.key,
           \/ NetworkInit \/ RouterStart \/ \E t \in Timer : TimerExpires(t)
    PROVE  Fresh'
  <1>1. CASE NetworkInit
    <2>1. PICK refused \in BOOLEAN :
             zdo' = ZDO_StartDevice(Notify(Done(zdo, "NETWORK_INIT")), refused)
      BY <1>1 DEF NetworkInit
    <2>2. Starting /\ msgs = <<>> /\ msgs' = msgs
      BY <1>1 DEF NetworkInit, Serves, Starting
    <2>3. zdo' = LET z == [zdo EXCEPT !.events = (@ \ {"NETWORK_INIT"}) \cup {"STATE_CHANGE"},
                                      !.devState = "NWK_DISC"]
                 IN  IF refused THEN [z EXCEPT !.timers = @ \cup {"NETWORK_INIT"}]
                                ELSE [z EXCEPT !.asked = "disc"]
      BY <2>1 DEF ZDO_StartDevice, Notify, Done, Request, Later, Fresh, ZdoType
    <2>4. zdo' \in ZdoType
      BY <2>3 DEF Fresh, ZdoType, Flag, Timer
    <2> QED
      BY <2>2, <2>3, <2>4 DEF Fresh, ZdoType, OneAtATime, Delayed, Starting, Asking, Answered
  <1>2. CASE RouterStart
    <2>1. /\ zdo' = [zdo EXCEPT !.events = (@ \ {"ROUTER_START"}) \cup {"STATE_CHANGE"}]
          /\ msgs' = msgs
      BY <1>2 DEF RouterStart, Notify, Done, Fresh, ZdoType
    <2> QED
      BY <2>1 DEF Fresh, ZdoType, Flag, OneAtATime, Delayed, Starting, Asking, Answered
  <1>3. ASSUME NEW t \in Timer, TimerExpires(t)
        PROVE  Fresh'
    <2>1. /\ t \in zdo.timers /\ msgs' = msgs
          /\ zdo' = [zdo EXCEPT !.timers = @ \ {t}, !.events = @ \cup {t}]
      BY <1>3 DEF TimerExpires
    <2>2. t \in {"NETWORK_INIT", "DEVICE_RESET"}
      BY <2>1 DEF Fresh, Timer
    <2> QED
      BY <2>1, <2>2 DEF Fresh, ZdoType, Flag, OneAtATime, Delayed, Starting, Asking, Answered
  <1> QED
    BY <1>1, <1>2, <1>3

\* Answers of the network layer.
LEMMA FreshAnswers ==
    ASSUME Fresh, todo = <<>>, ~nv.key,
           \/ DiscoveryConfirm \/ ZDO_JoinConfirmCB \/ ZDO_StartRouterConfirmCB
           \/ TransportKeyInd \/ ZDApp_NwkStateUpdateCB \/ ZDO_SyncIndicationCB
           \/ ZDO_AddrChangeIndicationCB \/ SecuredFrame \/ Radio
    PROVE  Fresh'
  <1>1. \A m : Append(<<>>, m) = <<m>>
    OBVIOUS
  <1>2. CASE DiscoveryConfirm
    <2>1. PICK m \in {"DISC_CNF", "DISC_CNF_EMPTY"} : msgs' = Append(msgs, m)
      BY <1>2 DEF DiscoveryConfirm, Post
    <2>2. Asking /\ zdo' = [zdo EXCEPT !.asked = "none"]
      BY <1>2 DEF DiscoveryConfirm, Asking
    <2>3. msgs = <<>> /\ msgs' = <<m>>
      BY <1>1, <2>1, <2>2 DEF Fresh, OneAtATime, Answered
    <2> QED
      BY <2>2, <2>3 DEF Fresh, ZdoType, OneAtATime, Delayed, Starting, Asking, Answered
  <1>3. CASE ZDO_JoinConfirmCB
    <2>1. /\ Asking /\ msgs' = Append(msgs, "JOIN_IND")
          /\ zdo' = [zdo EXCEPT !.asked = "none",
                        !.nwkStatus = up \/ (role = "ROUTER" /\ zdo.asked = "orphan")]
      BY <1>3 DEF ZDO_JoinConfirmCB, Post, Asking
    <2>2. msgs = <<>> /\ msgs' = <<"JOIN_IND">>
      BY <1>1, <2>1 DEF Fresh, OneAtATime, Answered
    <2> QED
      BY <2>1, <2>2 DEF Fresh, ZdoType, OneAtATime, Delayed, Starting, Asking, Answered
  <1>4. CASE TransportKeyInd
    <2>1. /\ zdo.devState = "END_DEVICE_UNAUTH" /\ "TRANSPORT_KEY" \notin Range(msgs)
          /\ msgs' = Append(msgs, "TRANSPORT_KEY") /\ zdo' = zdo
      BY <1>4 DEF TransportKeyInd, Post
    <2>2. "TRANSPORT_KEY" \in Range(<<"TRANSPORT_KEY">>)
      BY DEF Range
    <2>3. msgs = <<>> /\ msgs' = <<"TRANSPORT_KEY">>
      BY <1>1, <2>1, <2>2 DEF Fresh
    <2> QED
      BY <2>1, <2>3 DEF Fresh, OneAtATime, Delayed, Starting, Asking, Answered
  <1>5. CASE Radio
    BY <1>5 DEF Radio, Fresh, OneAtATime, Delayed, Starting, Asking, Answered
  <1>6. ~ZDO_StartRouterConfirmCB
    BY DEF ZDO_StartRouterConfirmCB, Fresh, ZdoType
  <1>7. /\ ~ZDApp_NwkStateUpdateCB /\ ~ZDO_SyncIndicationCB
        /\ ~ZDO_AddrChangeIndicationCB /\ ~SecuredFrame
    BY DEF ZDApp_NwkStateUpdateCB, ZDO_SyncIndicationCB, ZDO_AddrChangeIndicationCB,
           SecuredFrame, Fresh, ZdoType, Connected
  <1> QED
    BY <1>2, <1>3, <1>4, <1>5, <1>6, <1>7

\* A single message is handled once.
LEMMA OneMessage ==
    ASSUME ProcessOSALMsg, NEW m, msgs = <<m>>
    PROVE  \E refused \in BOOLEAN : zdo' = Handle(zdo, m, refused)
  <1> DEFINE F(refused) == CHOOSE after : after = [i \in 0 .. Len(msgs) |->
                 IF i = 0 THEN zdo ELSE Handle(after[i - 1], msgs[i], refused)]
  <1>1. PICK refused \in BOOLEAN : zdo' = F(refused)[Len(msgs)]
    BY DEF ProcessOSALMsg
  <1>2. Len(msgs) = 1 /\ msgs[1] = m
    OBVIOUS
  <1> DEFINE g == [i \in 0 .. 1 |-> IF i = 0 THEN zdo ELSE Handle(zdo, m, refused)]
  <1> HIDE DEF Handle
  <1>3. g = [i \in 0 .. 1 |-> IF i = 0 THEN zdo ELSE Handle(g[i - 1], msgs[i], refused)]
    <2>1. \A i \in 0 .. 1 : i = 0 \/ (i = 1 /\ g[i - 1] = zdo)
      OBVIOUS
    <2> QED
      BY <1>2, <2>1
  <1>4. F(refused) = [i \in 0 .. Len(msgs) |->
                 IF i = 0 THEN zdo ELSE Handle(F(refused)[i - 1], msgs[i], refused)]
    BY <1>2, <1>3
  <1> HIDE DEF F
  <1>5. F(refused)[0] = zdo
    BY <1>2, <1>4
  <1>6. F(refused)[1] = Handle(F(refused)[0], msgs[1], refused)
    BY <1>2, <1>4
  <1> QED
    BY <1>1, <1>2, <1>5, <1>6

\* Its answer is asked for, handled, and followed by the next request or delay.
LEMMA FreshMessage ==
    ASSUME Fresh, todo = <<>>, ~nv.key, ProcessOSALMsg
    PROVE  Fresh'
  <1>1. msgs # <<>> /\ msgs' = <<>>
    BY DEF ProcessOSALMsg
  <1>2. PICK m \in {"DISC_CNF", "DISC_CNF_EMPTY", "JOIN_IND", "TRANSPORT_KEY"} : msgs = <<m>>
    BY <1>1 DEF Fresh
  <1>3. PICK refused \in BOOLEAN : zdo' = Handle(zdo, m, refused)
    BY <1>2, OneMessage
  <1>4. ~Delayed /\ ~Starting /\ ~Asking
    BY <1>1 DEF Fresh, OneAtATime, Answered
  <1>5. ASSUME NEW found \in BOOLEAN, m # "TRANSPORT_KEY", zdo' = DiscCnf(zdo, found, refused)
        PROVE  Fresh'
    <2>1. zdo.devState # "END_DEVICE_UNAUTH"
      <3>1. msgs[1] # "TRANSPORT_KEY"
        BY <1>2, <1>5
      <3> QED
        BY <1>1, <3>1 DEF Fresh
    <2>2. CASE zdo.devState # "NWK_DISC"
      <3>1. zdo' = zdo
        BY <1>5, <2>2 DEF DiscCnf
      <3> QED
        BY <1>1, <1>4, <2>1, <3>1
           DEF Fresh, OneAtATime, Delayed, Starting, Asking, Answered
    <2>3. CASE zdo.devState = "NWK_DISC" /\ found /\ zdo.zdoDiscCounter > NUM_DISC_ATTEMPTS
      <3>1. zdo' = Request([zdo EXCEPT !.devState = "NWK_JOINING"], "join", refused)
        BY <1>5, <2>3 DEF DiscCnf, Fresh, ZdoType
      <3>2. CASE refused
        <4>1. zdo' = [zdo EXCEPT !.devState = "NWK_JOINING", !.timers = @ \cup {"NETWORK_INIT"}]
          BY <3>1, <3>2 DEF Request, Later, Fresh, ZdoType
        <4> QED
          BY <1>1, <1>4, <2>3, <4>1
             DEF Fresh, ZdoType, Timer, OneAtATime, Delayed, Starting, Asking, Answered
      <3>3. CASE ~refused
        <4>1. zdo' = [zdo EXCEPT !.devState = "NWK_JOINING", !.asked = "join"]
          BY <3>1, <3>3 DEF Request, Fresh, ZdoType
        <4> QED
          BY <1>1, <1>4, <2>3, <4>1
             DEF Fresh, ZdoType, OneAtATime, Delayed, Starting, Asking, Answered
      <3> QED
        BY <3>2, <3>3
    <2>4. CASE zdo.devState = "NWK_DISC" /\ ~(found /\ zdo.zdoDiscCounter > NUM_DISC_ATTEMPTS)
      <3>1. PICK n \in Nat : n = IF zdo.zdoDiscCounter > NUM_DISC_ATTEMPTS
                                 THEN zdo.zdoDiscCounter ELSE zdo.zdoDiscCounter + 1
        BY DEF Fresh, ZdoType
      <3>2. zdo' = [zdo EXCEPT !.zdoDiscCounter = n, !.timers = @ \cup {"NETWORK_INIT"}]
        BY <1>5, <2>4, <3>1 DEF DiscCnf, Later, Fresh, ZdoType
      <3> QED
        BY <1>1, <1>4, <2>4, <3>2
           DEF Fresh, ZdoType, Timer, OneAtATime, Delayed, Starting, Asking, Answered
    <2> QED
      BY <2>2, <2>3, <2>4
  <1>6. CASE m = "JOIN_IND"
    <2>1. zdo' = ZDApp_ProcessNetworkJoin(zdo)
      BY <1>3, <1>6 DEF Handle
    <2>2. zdo.devState # "END_DEVICE_UNAUTH"
      <3>1. msgs[1] # "TRANSPORT_KEY"
        BY <1>2, <1>6
      <3> QED
        BY <1>1, <3>1 DEF Fresh
    <2>3. CASE zdo.devState # "NWK_JOINING"
      <3>1. zdo' = [zdo EXCEPT !.events = @ \cup {"STATE_CHANGE"}]
        BY <2>1, <2>3 DEF ZDApp_ProcessNetworkJoin, Notify, Fresh, ZdoType
      <3> QED
        BY <1>1, <1>4, <2>2, <3>1
           DEF Fresh, ZdoType, Flag, OneAtATime, Delayed, Starting, Asking, Answered
    <2>4. CASE zdo.devState = "NWK_JOINING" /\ ~zdo.nwkStatus
      <3>1. zdo' = [zdo EXCEPT !.zdoDiscCounter = 1, !.timers = @ \cup {"NETWORK_INIT"}]
        BY <2>1, <2>4 DEF ZDApp_ProcessNetworkJoin, JoinFailed, AsRouterOrNew, Later,
                          Fresh, ZdoType
      <3> QED
        BY <1>1, <1>4, <2>2, <3>1
           DEF Fresh, ZdoType, Timer, OneAtATime, Delayed, Starting, Asking, Answered
    <2>5. CASE zdo.devState = "NWK_JOINING" /\ zdo.nwkStatus
      <3>1. zdo' = [zdo EXCEPT !.events = @ \cup {"STATE_CHANGE"},
                              !.devState = "END_DEVICE_UNAUTH",
                              !.timers = @ \cup {"DEVICE_RESET"}]
        BY <2>1, <2>5 DEF ZDApp_ProcessNetworkJoin, AsRouterOrNew, Notify, Fresh, ZdoType
      <3> QED
        BY <1>1, <1>4, <2>2, <3>1
           DEF Fresh, ZdoType, Flag, Timer, OneAtATime, Delayed, Starting, Asking, Answered
    <2> QED
      BY <2>3, <2>4, <2>5
  <1>7. CASE m = "TRANSPORT_KEY"
    <2>1. zdo' = IF zdo.devState = "END_DEVICE_UNAUTH"
                 THEN [zdo EXCEPT !.events = @ \cup {"DEVICE_AUTH"}] ELSE zdo
      BY <1>3, <1>7 DEF Handle, ZDSecMgrAuthNwkKey
    <2> QED
      BY <1>1, <1>4, <2>1
         DEF Fresh, ZdoType, Flag, OneAtATime, Delayed, Starting, Asking, Answered
  <1> QED
    BY <1>2, <1>3, <1>5, <1>6, <1>7 DEF Handle

\* What a save, a reset, a new key or a leave does to the key.
LEMMA KeySaves ==
    ASSUME KeyInv, Saves
    PROVE  KeyInv'
  <1>1. /\ todo = <<>> /\ nv' = nv /\ ToDo = {}
        /\ NoKey = ~nv.key
    BY SavesWrite DEF ToDo, NoKey
  <1>2. ~nv.key => Fresh
    BY <1>1 DEF KeyInv
  <1>3. ASSUME NEW a, todo' = << a >>
        PROVE  ToDo' = {a}
    BY <1>3 DEF ToDo
  <1>10. ASSUME NEW a, NEW b, todo' = << a, b >>
         PROVE  ToDo' = {a, b}
    BY <1>10 DEF ToDo
  <1>4. ASSUME nv.key, ClearsKey \notin ToDo'
        PROVE  KeyInv'
    BY <1>1, <1>4, Zenon DEF KeyInv, NoKey
  <1>5. CASE SaveNetworkStateEvt
    <2>1. nv.key
      BY <1>2, <1>5 DEF SaveNetworkStateEvt, Serves, Fresh
    <2>2. todo' = << SavesNet, KeepsNet >>
      BY <1>5 DEF SaveNetworkStateEvt, SavesNet, KeepsNet
    <2>3. ToDo' = {SavesNet, KeepsNet}
      BY <1>10, <2>2, Zenon
    <2> QED
      BY <1>4, <2>1, <2>3, OtherWrites, Zenon
  <1>6. CASE DeviceReset
    <2>1. /\ todo' = << <<"default", TRUE>>, <<"reset">> >> /\ msgs' = msgs
          /\ zdo' = [zdo EXCEPT !.events = @ \ {"DEVICE_RESET"}]
      BY <1>6 DEF DeviceReset, Done
    <2>2. ToDo' = {<<"default", TRUE>>, <<"reset">>}
      BY <1>10, <2>1, Zenon
    <2>3. ToDo' \cap KeyWrites = {}
      BY <2>2, OtherWrites, Zenon
    <2>4. Fresh => Fresh'
      BY <2>1 DEF Fresh, ZdoType, OneAtATime, Delayed, Starting, Asking, Answered
    <2> QED
      BY <1>1, <2>3, <2>4, KeyElse
  <1>7. CASE DeviceAuthEvt
    <2>1. CASE zdo.devState = "END_DEVICE_UNAUTH"
      <3>1. todo' = << SetsKey >>
        BY <1>7, <2>1 DEF DeviceAuthEvt, SetsKey
      <3>2. ToDo' = {SetsKey}
        BY <1>3, <3>1, Zenon
      <3>3. /\ ClearsKey \notin ToDo' /\ SavesNet \notin ToDo' /\ KeepsNet \notin ToDo'
            /\ SetsKey \in ToDo'
        BY <3>2, OtherWrites, Zenon
      <3>4. NoKey' => NoKey
        BY <1>1, <3>3, Zenon DEF NoKey
      <3> QED
        BY <1>1, <3>3, <3>4, Zenon DEF KeyInv
    <2>2. CASE zdo.devState # "END_DEVICE_UNAUTH"
      <3>1. nv.key
        BY <1>2, <1>7, <2>2 DEF DeviceAuthEvt, Serves, Fresh
      <3>2. todo' = todo
        BY <1>7, <2>2 DEF DeviceAuthEvt
      <3>3. ToDo' = {}
        BY <1>1, <3>2 DEF ToDo
      <3> QED
        BY <1>4, <3>1, <3>3
    <2> QED
      BY <2>1, <2>2
  <1>8. CASE FrameCounterChange
    <2>1. /\ todo' = <<>> \/ todo' = << SetsKey >>
          /\ zdo' = [zdo EXCEPT !.events = @ \ {"FRAMECOUNTER_CHANGE"}] /\ msgs' = msgs
      BY <1>8 DEF FrameCounterChange, SetsKey, Done
    <2>2. Fresh => Fresh'
      BY <2>1 DEF Fresh, ZdoType, OneAtATime, Delayed, Starting, Asking, Answered
    <2>3. ToDo' = {} \/ ToDo' = {SetsKey}
      <3>1. CASE todo' = <<>>
        BY <3>1 DEF ToDo
      <3>2. CASE todo' = << SetsKey >>
        BY <1>3, <3>2, Zenon
      <3> QED
        BY <2>1, <3>1, <3>2
    <2>4. /\ ClearsKey \notin ToDo' /\ SavesNet \notin ToDo' /\ KeepsNet \notin ToDo'
      BY <2>3, OtherWrites, Zenon
    <2>5. NoKey' => NoKey /\ ~nv.key
      BY <1>1, <2>4, Zenon DEF NoKey
    <2> QED
      BY <1>1, <1>2, <2>2, <2>4, <2>5, Zenon DEF KeyInv
  <1>9. CASE ZDO_LeaveInd
    <2>1. nv.key
      BY <1>2, <1>9 DEF ZDO_LeaveInd, Fresh, ZdoType, Connected
    <2>2. PICK kind \in {"leave", "rejoin"} : todo' = << <<"leave", kind>> >>
      BY <1>9 DEF ZDO_LeaveInd
    <2>3. ToDo' = {<<"leave", kind>>}
      BY <1>3, <2>2, Zenon
    <2>4. ClearsKey \notin ToDo'
      BY <2>3, OtherWrites, Zenon DEF KeyWrites
    <2> QED
      BY <1>4, <2>1, <2>4
  <1> QED
    BY <1>5, <1>6, <1>7, <1>8, <1>9 DEF Saves

LEMMA KeyStep ==
    ASSUME NvInv, KeyInv, [Next]_vars
    PROVE  KeyInv'
  <1>1. CASE FlashStep
    BY <1>1, KeyFlash
  <1>2. CASE WatchDogEnable
    <2>1. /\ ToDo' \subseteq ToDo /\ ToDo \subseteq ToDo' \cup {todo[1]}
          /\ UNCHANGED <<nv, zdo, msgs>>
      BY <1>2, TailLeaves DEF NvInv, WatchDogEnable
    <2>2. SetsKey # todo[1]
      <3>1. ASSUME NEW x, NEW v
            PROVE  <<x, v>>[1] = x
        OBVIOUS
      <3>2. SetsKey[1] = "key"
        BY <3>1, Zenon DEF SetsKey
      <3> QED
        BY <1>2, <3>2 DEF WatchDogEnable
    <2>3. /\ NoKey' => NoKey
          /\ SetsKey \in ToDo => SetsKey \in ToDo'
      BY <2>1, <2>2, Zenon DEF NoKey
    <2>4. Fresh => Fresh'
      BY <2>1 DEF Fresh, OneAtATime, Delayed, Starting, Asking, Answered
    <2> QED
      BY <2>1, <2>3, <2>4, Zenon DEF KeyInv
  <1>3. CASE Restarts \/ StartKey
    <2>1. /\ nv' = nv /\ msgs' = <<>> /\ todo' \in Seq(AtRestart(nv))
          /\ \E h \in BOOLEAN : zdo' = ZDOInitDevice(nv, h)
      BY <1>3, BeginsAnew
    <2>2. ToDo' \subseteq AtRestart(nv)
      BY <2>1 DEF ToDo
    <2>3. /\ SetsKey \notin AtRestart(nv) /\ SavesNet \notin AtRestart(nv)
          /\ KeepsNet \notin AtRestart(nv)
          /\ ClearsKey \in AtRestart(nv) => nv.default
      BY OtherWrites, Zenon DEF AtRestart, KeyWrites, ClearsKey
    <2>4. NoKey' => nv.default \/ ~nv.net
      BY <2>1, <2>2, <2>3, Zenon DEF NoKey, KeyInv
    <2>5. NoKey' => Fresh'
      BY <2>1, <2>4, FreshStart DEF Restored
    <2> QED
      BY <2>1, <2>2, <2>3, <2>4, <2>5, Zenon DEF KeyInv
  <1>4. ASSUME todo = <<>>, nv' = nv, FromApp(todo'), UNCHANGED <<zdo, msgs>>
        PROVE  KeyInv'
    <2>1. ToDo' \subseteq AppWrites
      BY <1>4 DEF FromApp, ToDo
    <2>2. ToDo' \cap KeyWrites = {}
      BY <2>1, OtherWrites, Zenon
    <2>3. Fresh => Fresh'
      BY <1>4 DEF Fresh, OneAtATime, Delayed, Starting, Asking, Answered
    <2> QED
      BY <1>4, <2>2, <2>3, KeyElse
  <1>5. CASE StateChangeMsg
    <2>1. todo = <<>> /\ UNCHANGED <<nv, zdo, msgs>>
      BY <1>5 DEF StateChangeMsg, AppTurn, Ready
    <2>2. FromApp(todo')
      BY <1>5, CounterWrites, ForgettingResets DEF StateChangeMsg
    <2> QED
      BY <1>4, <2>1, <2>2
  <1>6. CASE FactoryKey
    BY <1>4, <1>6, ForgettingResets DEF FactoryKey, AppTurn, Ready
  <1>7. CASE PowerSettingCountCB
    <2>1. todo = <<>> /\ UNCHANGED <<todo, nv, zdo, msgs>>
      BY <1>7 DEF PowerSettingCountCB, AppTurn, Ready
    <2> QED
      BY <1>4, <2>1, ForgettingResets
  <1>8. CASE StateChange
    <2>1. todo' = <<>> \/ todo' = << <<"hold", "INIT">> >>
      BY <1>8, HoldWritesAre
    <2>2. ToDo' \cap KeyWrites = {}
      <3>1. ToDo' \subseteq {<<"hold", "INIT">>}
        BY <2>1 DEF ToDo
      <3> QED
        BY <3>1, OtherWrites, Zenon
    <2>3. /\ zdo' = zdo \/ zdo' = [zdo EXCEPT !.events = @ \ {"STATE_CHANGE"}]
          /\ msgs' = msgs
      BY <1>8 DEF StateChange, Done
    <2>4. Fresh => Fresh'
      BY <2>3 DEF Fresh, ZdoType, OneAtATime, Delayed, Starting, Asking, Answered
    <2> QED
      BY <1>8, <2>2, <2>4, HoldWritesAre, KeyElse
  <1>9. CASE Saves
    BY <1>9, KeySaves
  <1>10. CASE Silent /\ todo = <<>>
    <2>1. todo = <<>>
      BY <1>10
    <2>2. nv' = nv /\ ToDo' = {}
      BY <1>10, <2>1, SilentKeeps DEF ToDo
    <2>3. ~nv.key /\ Fresh => Fresh'
      BY <1>10, <2>1, FreshFlags, FreshAnswers, FreshMessage DEF Silent
    <2> QED
      BY <2>1, <2>2, <2>3, KeyElse
  <1>11. CASE Radio \/ UNCHANGED vars
    BY <1>11 DEF vars, Radio, OutsideOnly, KeyInv, NoKey, ToDo, Fresh, OneAtATime,
                 Delayed, Starting, Asking, Answered
  <1> QED
    BY <1>1, <1>2, <1>3, <1>5, <1>6, <1>7, <1>8, <1>9, <1>10, <1>11, NextIs, SilentKeeps

-----------------------------------------------------------------------------
LEMMA Start ==
    ASSUME Init
    PROVE  IInv
  <1>1. nv \in NvType /\ nv.net = FALSE
    <2>1. PICK h \in {"HOLD", "INIT"} :
             nv = [hold |-> h, default |-> FALSE, net |-> FALSE, key |-> FALSE,
                   leave |-> "no", count |-> 0]
      BY DEF Init
    <2> QED
      BY <2>1 DEF NvType
  <1>2. todo = <<>> /\ ToDo = {}
    BY DEF Init, ToDo
  <1>3. NvInv
    BY <1>1, <1>2 DEF Init, NvInv, AppAtReset, AppFields
  <1>4. HoldInv
    BY <1>2 DEF Init, HoldInv, Told, AppAtReset, Connected
  <1>5. Fresh
    <2>1. ~Restored(nv)
      BY <1>1 DEF Restored
    <2>2. zdo = ZDOInitDevice(nv, TRUE) /\ msgs = <<>>
      BY DEF Init
    <2>3. PICK h \in BOOLEAN : zdo = ZDOInitDevice(nv, h)
      <3>1. TRUE \in BOOLEAN
        OBVIOUS
      <3> QED
        BY <2>2, <3>1, Zenon
    <2>4. /\ zdo \in ZdoType /\ zdo.asked = "none" /\ zdo.devState \in {"HOLD", "INIT"}
          /\ zdo.events \subseteq {"STATE_CHANGE"} /\ zdo.timers \subseteq {"NETWORK_INIT"}
      BY <2>1, <2>3, NewDevice, Zenon
    <2> QED
      BY <2>2, <2>4
         DEF Fresh, OneAtATime, Delayed, Starting, Asking, Answered
  <1>6. KeyInv
    BY <1>1, <1>2, <1>5 DEF KeyInv
  <1> QED
    BY <1>3, <1>4, <1>6 DEF IInv

LEMMA Step ==
    ASSUME IInv, [Next]_vars
    PROVE  IInv'
  <1>1. NvInv'
    BY NvStep DEF IInv
  <1>2. HoldInv'
    BY <1>1, HoldStep DEF IInv
  <1>3. KeyInv'
    BY KeyStep DEF IInv
  <1> QED
    BY <1>1, <1>2, <1>3 DEF IInv

\* What the handlers have still to write, in what order, and what a device
\* without a key can be doing.
THEOREM Bookkeeping == Spec => []IInv
  BY Start, Step, PTL DEF Spec

\* However often and wherever power fails, a device whose application was told
\* of its connection has the hold item at INIT: it starts by itself.  The item
\* is written before the application is told, and what clears it goes on to
\* enable the watchdog.
THEOREM StartsByItself == Spec => []ComesBackAlone
  <1>1. IInv => ComesBackAlone
    BY DEF IInv, HoldInv, ComesBackAlone, Told, Ready, ToDo
  <1> QED
    BY <1>1, Bookkeeping, PTL

\* However often and wherever power fails, no restart finds a network to resume
\* without its key: the key is written before the network is saved, and is wiped
\* after it, while the start-up option still tells the next start to wipe again.
THEOREM ResumesWithKey == Spec => []NoKeylessResume
  <1>1. IInv => NoKeylessResume
    BY DEF IInv, KeyInv, NoKey, NoKeylessResume, Restored
  <1> QED
    BY <1>1, Bookkeeping, PTL

-----------------------------------------------------------------------------
(* The record of ZDApp, and the starts since a connection.                 *)

Msg == {"DISC_CNF", "DISC_CNF_EMPTY", "JOIN_IND", "JOIN_REQ", "TRANSPORT_KEY"}

Zdo == [devState : devStates, devStartMode : {"JOIN", "RESUME", "REJOIN"},
        retryCnt : 0 .. 1, zdoDiscCounter : 1 .. NUM_DISC_ATTEMPTS + 1,
        nwkStatus : BOOLEAN, events : SUBSET Flag, timers : SUBSET Timer,
        asked : {"none", "disc", "join", "rejoin", "orphan", "router"}]

App == [msg : devStates \cup {"none"}, NwkState : devStates,
        isFirstState : BOOLEAN, hasConn : BOOLEAN, isNotTimeOut : BOOLEAN,
        timer : BOOLEAN, isPowerSetCount : BOOLEAN, powerSetCount : Nat]

\* A router that resumes has asked for nothing but the scan that succeeds, until it is
\* connected.
RouterResumes(z) ==
  /\ z.devState \in {"HOLD", "INIT", "NWK_ORPHAN"} \cup {"END_DEVICE_UNAUTH"} \cup Connected
  /\ z.devState \in {"HOLD", "INIT", "NWK_ORPHAN"} =>
       z.nwkStatus /\ z.asked \in {"none", "orphan"}
  /\ "NETWORK_INIT" \notin z.timers
  /\ z.devState \notin {"HOLD", "INIT"} => "NETWORK_INIT" \notin z.events

\* One failure ends the resuming, and a device that joins has nothing to resume.
Sound(z) ==
  /\ z \in Zdo
  /\ z.devStartMode = "RESUME" => z.retryCnt = 0
  /\ z.devState = "NWK_JOINING" => z.devStartMode = "JOIN"
  /\ role = "ROUTER" /\ z.devStartMode = "RESUME" => RouterResumes(z)

\* The application knows the state, or is being told.
Knows(z) ==
  z.devState \in Connected \cup {"END_DEVICE_UNAUTH"} =>
    \/ "STATE_CHANGE" \in z.events
    \/ app.msg = z.devState
    \/ app.msg = "none" /\ app.NwkState = z.devState

\* While a request to rejoin waits nothing else moves the device.
Waits(z) == "JOIN_REQ" \in Range(msgs) => role = "DEVICE" /\ z.devState = "END_DEVICE"

ZdoInv == Sound(zdo) /\ Knows(zdo) /\ Waits(zdo)

TypeInv ==
  /\ role \in Roles /\ msgs \in Seq(Msg) /\ app \in App
  /\ wdt \in BOOLEAN /\ up \in BOOLEAN
  /\ cuts \in 0 .. MaxCuts /\ trouble \in 0 .. MaxTrouble
  /\ lives \in 0 .. POWERSETTING_COUNT + 1

\* The count is kept in NV, except while it is being written; it is behind the starts.
\* A router does not count.
Count(n) == <<"count", n>>

Counts ==
  /\ \A n \in Nat : Count(n) \in ToDo =>
       n = app.powerSetCount /\ (app.hasConn \/ (n # 0 /\ app.isPowerSetCount))
  /\ app.hasConn => app.powerSetCount = 0 /\ ~app.isFirstState
  /\ ~app.isFirstState =>
       nv.count = app.powerSetCount \/ Count(app.powerSetCount) \in ToDo
  /\ app.isPowerSetCount => ~app.isFirstState
  /\ lives <= POWERSETTING_COUNT =>
       /\ nv.count <= lives /\ app.powerSetCount <= lives
       /\ ~app.isPowerSetCount /\ ~app.hasConn => nv.count < lives
  /\ role = "ROUTER" => nv.count = 0 /\ app.powerSetCount = 0

-----------------------------------------------------------------------------
(* What a message does to the record.                                      *)

LEMMA EventOn ==
  ASSUME NEW z, Sound(z), NEW e \in Flag \ {"NETWORK_INIT"},
         NEW y, y = [z EXCEPT !.events = @ \cup {e}]
  PROVE  Sound(y) /\ (Knows(z) => Knows(y)) /\ y.devState = z.devState
         /\ (e = "STATE_CHANGE" => Knows(y))
  <1>1. /\ z \in Zdo /\ y \in Zdo /\ y.devState = z.devState
        /\ y.devStartMode = z.devStartMode /\ y.retryCnt = z.retryCnt
        /\ y.nwkStatus = z.nwkStatus /\ y.asked = z.asked /\ y.timers = z.timers
        /\ y.events = z.events \cup {e}
    BY DEF Sound, Zdo
  <1>2. Sound(y)
    BY <1>1 DEF Sound, RouterResumes
  <1>3. Knows(z) => Knows(y)
    BY <1>1 DEF Knows
  <1>4. e = "STATE_CHANGE" => Knows(y)
    BY <1>1 DEF Knows
  <1> QED BY <1>1, <1>2, <1>3, <1>4

\* A delay before the next attempt.
LEMMA LaterKeeps ==
  ASSUME NEW z, Sound(z), ~(role = "ROUTER" /\ z.devStartMode = "RESUME")
  PROVE  Sound(Later(z)) /\ (Knows(z) => Knows(Later(z))) /\ Later(z).devState = z.devState
  <1> DEFINE y == Later(z)
  <1>1. /\ z \in Zdo /\ y \in Zdo /\ y.devState = z.devState
        /\ y.devStartMode = z.devStartMode /\ y.retryCnt = z.retryCnt
        /\ y.events = z.events
    BY DEF Sound, Zdo, Later, Timer
  <1> HIDE DEF y
  <1>2. Sound(y) /\ (Knows(z) => Knows(y))
    BY <1>1 DEF Sound, Knows
  <1> QED BY <1>1, <1>2 DEF y

\* A request, or a delay if it is refused.
LEMMA RequestKeeps ==
  ASSUME NEW z, Sound(z), ~(role = "ROUTER" /\ z.devStartMode = "RESUME"),
         NEW r \in {"disc", "join", "rejoin", "orphan"}, NEW refused \in BOOLEAN
  PROVE  /\ Sound(Request(z, r, refused)) /\ (Knows(z) => Knows(Request(z, r, refused)))
         /\ Request(z, r, refused).devState = z.devState
  <1>1. CASE refused
    BY <1>1, LaterKeeps DEF Request
  <1>2. CASE ~refused
    <2> DEFINE y == [z EXCEPT !.asked = r]
    <2>1. Request(z, r, refused) = y
      BY <1>2 DEF Request
    <2>2. /\ z \in Zdo /\ y \in Zdo /\ y.devState = z.devState
          /\ y.devStartMode = z.devStartMode /\ y.retryCnt = z.retryCnt
          /\ y.events = z.events
      BY DEF Sound, Zdo
    <2> HIDE DEF y
    <2> QED BY <2>1, <2>2 DEF Sound, Knows
  <1> QED BY <1>1, <1>2

LEMMA DiscKeeps ==
  ASSUME NEW z, Sound(z), Knows(z), NEW found \in BOOLEAN, NEW refused \in BOOLEAN
  PROVE  /\ Sound(DiscCnf(z, found, refused)) /\ Knows(DiscCnf(z, found, refused))
         /\ z.devState = "END_DEVICE" => DiscCnf(z, found, refused) = z
  <1> DEFINE y == DiscCnf(z, found, refused)
  <1>1. CASE z.devState # "NWK_DISC"
    BY <1>1 DEF DiscCnf
  <1>2. CASE z.devState = "NWK_DISC"
    <2>1. z \in Zdo /\ ~(role = "ROUTER" /\ z.devStartMode = "RESUME")
      BY <1>2 DEF Sound, RouterResumes, Connected
    <2>2. CASE found /\ z.zdoDiscCounter > NUM_DISC_ATTEMPTS /\ z.devStartMode = "JOIN"
      <3> DEFINE x == [z EXCEPT !.devState = "NWK_JOINING"]
      <3>1. y = Request(x, "join", refused)
        BY <1>2, <2>2 DEF DiscCnf
      <3>2. /\ x \in Zdo /\ x.devState = "NWK_JOINING" /\ x.devStartMode = "JOIN"
        BY <2>1, <2>2 DEF Zdo, devStates
      <3> HIDE DEF x
      <3>3. Sound(x) /\ Knows(x)
        BY <3>2 DEF Sound, Knows, Connected
      <3>4. ~(role = "ROUTER" /\ x.devStartMode = "RESUME")
        BY <3>2
      <3> QED BY <1>2, <3>1, <3>3, <3>4, RequestKeeps
    <2>3. CASE found /\ z.zdoDiscCounter > NUM_DISC_ATTEMPTS /\ z.devStartMode # "JOIN"
      <3> DEFINE x == [z EXCEPT !.devState = "NWK_REJOIN"]
      <3>1. y = Request(x, "rejoin", refused)
        BY <1>2, <2>3 DEF DiscCnf
      <3>2. /\ x \in Zdo /\ x.devState = "NWK_REJOIN" /\ x.devStartMode = z.devStartMode
            /\ x.retryCnt = z.retryCnt
        BY <2>1 DEF Zdo, devStates
      <3> HIDE DEF x
      <3>3. Sound(x) /\ Knows(x)
        BY <2>1, <3>2 DEF Sound, Knows, Connected
      <3>4. ~(role = "ROUTER" /\ x.devStartMode = "RESUME")
        BY <2>1, <3>2
      <3> QED BY <1>2, <3>1, <3>3, <3>4, RequestKeeps
    <2>4. CASE ~(found /\ z.zdoDiscCounter > NUM_DISC_ATTEMPTS)
      <3> DEFINE k == IF z.zdoDiscCounter > NUM_DISC_ATTEMPTS
                      THEN z.zdoDiscCounter ELSE z.zdoDiscCounter + 1
                 x == [z EXCEPT !.zdoDiscCounter = k]
      <3>1. y = Later(x)
        BY <1>2, <2>1, <2>4 DEF DiscCnf, Zdo
      <3>2. k \in 1 .. NUM_DISC_ATTEMPTS + 1
        BY <2>1, ParametersAssumption DEF Zdo
      <3>3. /\ x \in Zdo /\ x.devState = z.devState /\ x.devStartMode = z.devStartMode
            /\ x.retryCnt = z.retryCnt /\ x.events = z.events
        BY <2>1, <3>2 DEF Zdo
      <3> HIDE DEF x, k
      <3>4. Sound(x) /\ Knows(x)
        BY <2>1, <3>3 DEF Sound, Knows
      <3>5. ~(role = "ROUTER" /\ x.devStartMode = "RESUME")
        BY <2>1, <3>3
      <3> QED BY <1>2, <3>1, <3>4, <3>5, LaterKeeps
    <2> QED BY <2>2, <2>3, <2>4
  <1> QED BY <1>1, <1>2

\* One failed attempt: a router's scan does not fail, so who resumes is an end device.
LEMMA FailedKeeps ==
  ASSUME NEW z, Sound(z), role \in {"ROUTER", "DEVICE"}, ~z.nwkStatus,
         z.devState \in {"NWK_JOINING", "NWK_ORPHAN", "NWK_REJOIN"}
  PROVE  Sound(JoinFailed(z)) /\ Knows(JoinFailed(z))
  <1>1. z \in Zdo /\ ~(role = "ROUTER" /\ z.devStartMode = "RESUME")
    BY DEF Sound, RouterResumes, Connected
  <1>2. ASSUME NEW x, x \in Zdo, x.devState = z.devState, x.retryCnt \in 0 .. 1,
               x.devStartMode = "RESUME" => FALSE,
               z.devState = "NWK_JOINING" => x.devStartMode = "JOIN"
        PROVE  Sound(Later(x)) /\ Knows(Later(x))
    <2>1. Sound(x) /\ Knows(x)
      BY <1>2 DEF Sound, Knows, Connected
    <2> QED BY <1>2, <2>1, LaterKeeps
  <1>3. CASE AsRouterOrNew(z)
    <2>1. z.devStartMode # "RESUME"
      BY <1>1, <1>3 DEF AsRouterOrNew, Sound
    <2> DEFINE x == [z EXCEPT !.zdoDiscCounter = 1]
    <2>2. JoinFailed(z) = Later(x)
      BY <1>1, <1>3, <2>1 DEF JoinFailed, Zdo
    <2>3. /\ x \in Zdo /\ x.devState = z.devState /\ x.retryCnt \in 0 .. 1
          /\ x.devStartMode = z.devStartMode
      BY <1>1, ParametersAssumption DEF Zdo
    <2> HIDE DEF x
    <2> QED BY <1>2, <2>1, <2>2, <2>3 DEF Sound
  <1>4. CASE ~AsRouterOrNew(z) /\ z.devStartMode = "RESUME"
    <2>1. z.retryCnt = 0 /\ z.devState # "NWK_JOINING"
      BY <1>4 DEF Sound
    <2> DEFINE x == [z EXCEPT !.retryCnt = 1, !.devStartMode = "REJOIN"]
    <2>2. JoinFailed(z) = Later(x)
      BY <1>1, <1>4, <2>1 DEF JoinFailed, Zdo, MAX_RESUME_RETRY
    <2>3. /\ x \in Zdo /\ x.devState = z.devState /\ x.retryCnt = 1
          /\ x.devStartMode = "REJOIN"
      <3>1. 1 \in 0 .. 1 /\ "REJOIN" \in {"JOIN", "RESUME", "REJOIN"}
        OBVIOUS
      <3> QED BY <1>1, <3>1 DEF Zdo
    <2> HIDE DEF x
    <2>4. x.retryCnt \in 0 .. 1
      BY <2>3
    <2> QED BY <1>2, <2>1, <2>2, <2>3, <2>4
  <1>5. CASE ~AsRouterOrNew(z) /\ z.devStartMode # "RESUME"
    <2>1. JoinFailed(z) = Later(z)
      BY <1>1, <1>5 DEF JoinFailed, Zdo
    <2>2. z.retryCnt \in 0 .. 1
      BY <1>1 DEF Zdo
    <2> QED BY <1>1, <1>2, <1>5, <2>1, <2>2 DEF Sound
  <1> QED BY <1>3, <1>4, <1>5

\* A device that has joined, with its key or without, tells so.
LEMMA BecomesMember ==
  ASSUME NEW z, Sound(z), z.devState \notin {"HOLD", "INIT"},
         NEW s \in {"END_DEVICE_UNAUTH", "END_DEVICE"}, NEW y \in Zdo,
         y.devState = s, y.devStartMode = z.devStartMode, y.retryCnt = z.retryCnt,
         y.events \subseteq z.events \cup {"STATE_CHANGE"}, "STATE_CHANGE" \in y.events,
         y.timers \subseteq z.timers \cup {"DEVICE_RESET", "NWK_UPDATE_NV"}
  PROVE  Sound(y) /\ Knows(y)
  <1>1. Knows(y)
    BY DEF Knows
  <1>2. ASSUME role = "ROUTER", y.devStartMode = "RESUME"
        PROVE  RouterResumes(y)
    <2>1. "NETWORK_INIT" \notin z.events /\ "NETWORK_INIT" \notin z.timers
      BY <1>2 DEF Sound, RouterResumes
    <2>2. "NETWORK_INIT" \notin y.events /\ "NETWORK_INIT" \notin y.timers
      BY <2>1
    <2> QED BY <2>2 DEF RouterResumes, Connected
  <1>3. y.devStartMode = "RESUME" => y.retryCnt = 0
    BY DEF Sound
  <1> QED BY <1>1, <1>2, <1>3 DEF Sound

LEMMA JoinKeeps ==
  ASSUME NEW z, Sound(z), Knows(z), role \in {"ROUTER", "DEVICE"}
  PROVE  /\ Sound(ZDApp_ProcessNetworkJoin(z)) /\ Knows(ZDApp_ProcessNetworkJoin(z))
         /\ z.devState = "END_DEVICE" => ZDApp_ProcessNetworkJoin(z).devState = "END_DEVICE"
  <1> DEFINE y == ZDApp_ProcessNetworkJoin(z)
             trying == z.devState \in {"NWK_JOINING", "NWK_ORPHAN", "NWK_REJOIN"}
  <1>1. z \in Zdo
    BY DEF Sound
  <1>2. CASE ~trying
    <2>1. y = [z EXCEPT !.events = @ \cup {"STATE_CHANGE"}]
      BY <1>2 DEF ZDApp_ProcessNetworkJoin, Notify
    <2>2. "STATE_CHANGE" \in Flag \ {"NETWORK_INIT"}
      BY DEF Flag
    <2> QED BY <2>1, <2>2, EventOn
  <1>3. CASE trying /\ ~z.nwkStatus
    <2>1. y = JoinFailed(z)
      BY <1>3 DEF ZDApp_ProcessNetworkJoin
    <2> QED BY <1>3, <2>1, FailedKeeps
  <1>4. CASE trying /\ z.nwkStatus
    <2>1. CASE AsRouterOrNew(z) /\ ~nv.key
      <3>1. y = [z EXCEPT !.events = @ \cup {"STATE_CHANGE"}, !.devState = "END_DEVICE_UNAUTH",
                          !.timers = @ \cup {"DEVICE_RESET"}]
        BY <1>1, <1>4, <2>1 DEF ZDApp_ProcessNetworkJoin, Notify, Zdo
      <3> HIDE DEF y
      <3>2. /\ y \in Zdo /\ y.devState = "END_DEVICE_UNAUTH"
            /\ y.devStartMode = z.devStartMode /\ y.retryCnt = z.retryCnt
            /\ y.events = z.events \cup {"STATE_CHANGE"}
            /\ y.timers = z.timers \cup {"DEVICE_RESET"}
        BY <1>1, <3>1 DEF Zdo, Flag, Timer, devStates
      <3>3. Sound(y) /\ Knows(y)
        BY <1>4, <3>2, BecomesMember
      <3> QED BY <1>4, <3>3 DEF y
    <2>2. CASE ~(AsRouterOrNew(z) /\ ~nv.key)
      <3>1. y = StartRouter([Notify(z) EXCEPT !.devState = "END_DEVICE"])
        BY <1>4, <2>2 DEF ZDApp_ProcessNetworkJoin, Joined
      <3> DEFINE x == [z EXCEPT !.events = @ \cup {"STATE_CHANGE"}, !.devState = "END_DEVICE"]
      <3>2. y = x \/ y = [x EXCEPT !.asked = "router"]
        BY <1>1, <3>1 DEF StartRouter, Notify, Zdo
      <3>3. /\ x \in Zdo /\ x.devState = "END_DEVICE"
            /\ x.devStartMode = z.devStartMode /\ x.retryCnt = z.retryCnt
            /\ x.events = z.events \cup {"STATE_CHANGE"} /\ x.timers = z.timers
        BY <1>1 DEF Zdo, Flag, devStates
      <3> HIDE DEF x, y
      <3>4. /\ y \in Zdo /\ y.devState = "END_DEVICE"
            /\ y.devStartMode = z.devStartMode /\ y.retryCnt = z.retryCnt
            /\ y.events = z.events \cup {"STATE_CHANGE"} /\ y.timers = z.timers
        BY <3>2, <3>3 DEF Zdo
      <3>5. Sound(y) /\ Knows(y)
        BY <1>4, <3>4, BecomesMember
      <3> QED BY <1>4, <3>5 DEF y
    <2> QED BY <2>1, <2>2
  <1> QED BY <1>2, <1>3, <1>4

LEMMA HandleKeeps ==
  ASSUME NEW z, Sound(z), Knows(z), role \in {"ROUTER", "DEVICE"},
         NEW m \in Msg, m = "JOIN_REQ" => role = "DEVICE" /\ z.devState = "END_DEVICE",
         NEW refused \in BOOLEAN
  PROVE  /\ Sound(Handle(z, m, refused)) /\ Knows(Handle(z, m, refused))
         /\ z.devState = "END_DEVICE" => Handle(z, m, refused).devState = "END_DEVICE"
  <1>1. CASE m = "DISC_CNF"
    <2>1. Handle(z, m, refused) = DiscCnf(z, TRUE, refused)
      BY <1>1 DEF Handle
    <2> QED BY <2>1, DiscKeeps, Zenon
  <1>2. CASE m = "DISC_CNF_EMPTY"
    <2>1. Handle(z, m, refused) = DiscCnf(z, FALSE, refused)
      BY <1>2 DEF Handle
    <2> QED BY <2>1, DiscKeeps, Zenon
  <1>3. CASE m = "JOIN_IND"
    <2>1. Handle(z, m, refused) = ZDApp_ProcessNetworkJoin(z)
      BY <1>3 DEF Handle
    <2> QED BY <2>1, JoinKeeps
  <1>4. CASE m = "JOIN_REQ"
    <2> DEFINE y == JoinReq(z)
    <2>1. Handle(z, m, refused) = y
      BY <1>4 DEF Handle
    <2>2. z \in Zdo /\ role = "DEVICE" /\ z.devState = "END_DEVICE"
      BY <1>4 DEF Sound
    <2>3. y = [z EXCEPT !.retryCnt = 0, !.devStartMode = "RESUME",
                        !.events = @ \cup {"NETWORK_INIT"}]
      BY <2>2 DEF JoinReq, AtOnce, Zdo
    <2> HIDE DEF y
    <2>4. /\ y \in Zdo /\ y.devState = "END_DEVICE" /\ y.retryCnt = 0
          /\ y.events = z.events \cup {"NETWORK_INIT"}
      <3>1. 0 \in 0 .. 1 /\ "RESUME" \in {"JOIN", "RESUME", "REJOIN"}
        OBVIOUS
      <3> QED BY <2>2, <2>3, <3>1 DEF Zdo, Flag
    <2>5. Sound(y) /\ Knows(y)
      BY <2>2, <2>4 DEF Sound, Knows
    <2> QED BY <2>1, <2>4, <2>5
  <1>5. CASE m = "TRANSPORT_KEY"
    <2>1. Handle(z, m, refused) = ZDSecMgrAuthNwkKey(z)
      BY <1>5 DEF Handle
    <2>2. "DEVICE_AUTH" \in Flag \ {"NETWORK_INIT"}
      BY DEF Flag
    <2> QED BY <2>1, <2>2, EventOn DEF ZDSecMgrAuthNwkKey
  <1> QED BY <1>1, <1>2, <1>3, <1>4, <1>5 DEF Msg

-----------------------------------------------------------------------------
(* One visit handles all the messages that are queued.                     *)

LessNat == {ss \in Nat \X Nat : ss[1] < ss[2]}

LEMMA SetInduction ==
  ASSUME NEW S, 0 \in S, \A n \in Nat : n \in S => n + 1 \in S
  PROVE  Nat \subseteq S
  <1>1. SUFFICES ASSUME Nat \ S # {} PROVE FALSE
    OBVIOUS
  <1>2. IsWellFoundedOn(LessNat, Nat)
    BY NatLessThanWellFounded DEF OpToRel, LessNat
  <1>3. PICK m \in Nat \ S : \A k \in Nat \ S : ~(<<k, m>> \in LessNat)
    BY <1>1, <1>2, WFMin
  <1>4. m - 1 \in Nat /\ <<m - 1, m>> \in LessNat /\ (m - 1) + 1 = m
    BY <1>3 DEF LessNat
  <1>5. m - 1 \in S
    BY <1>3, <1>4
  <1> QED BY <1>3, <1>4, <1>5

\* What each message keeps, the visit keeps.
LEMMA VisitKeeps ==
  ASSUME ProcessOSALMsg, msgs \in Seq(Msg), NEW S, zdo \in S,
         \A z \in S, m \in Range(msgs), refused \in BOOLEAN : Handle(z, m, refused) \in S
  PROVE  zdo' \in S
  <1> DEFINE Eq(L, r, f) == f = [i \in 0 .. L |-> IF i = 0 THEN zdo
                                                  ELSE Handle(f[i - 1], msgs[i], r)]
  <1>1. PICK r \in BOOLEAN : zdo' = (CHOOSE f : Eq(Len(msgs), r, f))[Len(msgs)]
    BY DEF ProcessOSALMsg
  <1> DEFINE N == {L \in Nat : \E f : Eq(L, r, f)}
  <1>2. 0 \in N
    <2>1. Eq(0, r, [i \in 0 .. 0 |-> zdo])
      OBVIOUS
    <2> HIDE DEF Eq
    <2> QED BY <2>1
  <1>3. ASSUME NEW L \in Nat, L \in N
        PROVE  L + 1 \in N
    <2>1. PICK f : Eq(L, r, f)
      BY <1>3
    <2> DEFINE g == [i \in 0 .. L + 1 |-> IF i <= L THEN f[i]
                                          ELSE Handle(f[L], msgs[i], r)]
    <2> HIDE DEF Handle
    <2>2. \A i \in 0 .. L + 1 : g[i] = IF i = 0 THEN zdo ELSE Handle(g[i - 1], msgs[i], r)
      <3>1. TAKE i \in 0 .. L + 1
      <3>2. CASE i = 0
        BY <2>1, <3>2
      <3>3. CASE i # 0 /\ i <= L
        <4>1. i \in 0 .. L /\ i - 1 \in 0 .. L + 1 /\ i - 1 <= L
          BY <3>3
        <4>2. f[i] = Handle(f[i - 1], msgs[i], r)
          BY <2>1, <3>3, <4>1
        <4>3. g[i] = f[i] /\ g[i - 1] = f[i - 1]
          BY <3>3, <4>1
        <4> QED BY <3>3, <4>2, <4>3
      <3>4. CASE i = L + 1
        <4>1. g[i] = Handle(f[L], msgs[i], r) /\ g[i - 1] = f[L] /\ i # 0
          BY <3>4
        <4> QED BY <4>1
      <3> QED BY <3>2, <3>3, <3>4
    <2>3. Eq(L + 1, r, g)
      BY <2>2
    <2>4. L + 1 \in Nat
      OBVIOUS
    <2> HIDE DEF Eq, g
    <2> QED BY <2>3, <2>4
  <1>4. Len(msgs) \in N
    <2>1. Len(msgs) \in Nat
      OBVIOUS
    <2> HIDE DEF N
    <2> QED BY <1>2, <1>3, <2>1, SetInduction
  <1>5. \E f : Eq(Len(msgs), r, f)
    BY <1>4
  <1> DEFINE F == CHOOSE f : Eq(Len(msgs), r, f)
  <1>6. Eq(Len(msgs), r, F)
    <2> HIDE DEF Eq
    <2> QED BY <1>5
  <1> HIDE DEF F
  <1> HIDE DEF Handle
  <1>7. F[0] = zdo
    BY <1>6
  <1>8. ASSUME NEW i \in 1 .. Len(msgs)
        PROVE  F[i] = Handle(F[i - 1], msgs[i], r)
    BY <1>6
  <1> HIDE DEF Eq
  <1> DEFINE K == {i \in Nat : i <= Len(msgs) => F[i] \in S}
  <1>9. 0 \in K
    BY <1>7
  <1>10. ASSUME NEW i \in Nat, i \in K
         PROVE  i + 1 \in K
    <2> SUFFICES ASSUME i + 1 <= Len(msgs) PROVE F[i + 1] \in S
      OBVIOUS
    <2>1. i + 1 \in 1 .. Len(msgs) /\ (i + 1) - 1 = i /\ i <= Len(msgs)
      OBVIOUS
    <2>2. F[i] \in S /\ F[i + 1] = Handle(F[i], msgs[i + 1], r)
      BY <1>8, <1>10, <2>1
    <2>3. msgs[i + 1] \in Range(msgs)
      BY <2>1 DEF Range
    <2> QED BY <2>2, <2>3
  <1>11. Nat \subseteq K
    <2> HIDE DEF K
    <2> QED BY <1>9, <1>10, SetInduction
  <1>12. F[Len(msgs)] \in S
    BY <1>11
  <1> QED BY <1>1, <1>12 DEF F

LEMMA MessagesKeep ==
  ASSUME TypeInv, ZdoInv, ProcessOSALMsg
  PROVE  ZdoInv'
  <1> DEFINE S == {z \in Zdo : Sound(z) /\ Knows(z) /\ Waits(z)}
  <1>1. role \in {"ROUTER", "DEVICE"} /\ msgs \in Seq(Msg)
    BY ParametersAssumption DEF TypeInv
  <1>2. zdo \in S
    BY DEF ZdoInv, Sound
  <1>3. ASSUME NEW z \in S, NEW m \in Range(msgs), NEW r \in BOOLEAN
        PROVE  Handle(z, m, r) \in S
    <2>1. m \in Msg
      BY <1>1 DEF Range
    <2>2. m = "JOIN_REQ" => role = "DEVICE" /\ z.devState = "END_DEVICE"
      BY DEF Waits
    <2>3. /\ Sound(Handle(z, m, r)) /\ Knows(Handle(z, m, r))
          /\ z.devState = "END_DEVICE" => Handle(z, m, r).devState = "END_DEVICE"
      BY <1>1, <2>1, <2>2, HandleKeeps
    <2>4. Waits(Handle(z, m, r))
      BY <2>3 DEF Waits
    <2> HIDE DEF Handle
    <2> QED BY <2>3, <2>4 DEF Sound
  <1>4. zdo' \in S
    <2> HIDE DEF S
    <2> QED BY <1>1, <1>2, <1>3, VisitKeeps
  <1>5. /\ role' = role /\ app' = app /\ msgs' = <<>>
    BY DEF ProcessOSALMsg, ZdoOnly
  <1>6. Sound(zdo)' /\ Knows(zdo)'
    BY <1>4, <1>5 DEF Sound, RouterResumes, Knows
  <1>7. Waits(zdo)'
    BY <1>5 DEF Waits, Range
  <1> QED BY <1>6, <1>7 DEF ZdoInv

-----------------------------------------------------------------------------
(* The other steps.                                                        *)

LEMMA StillWaits ==
  ASSUME Waits(zdo), msgs \in Seq(Msg), role' = role,
         \/ msgs' = <<>>
         \/ /\ zdo'.devState = zdo.devState
            /\ msgs' = msgs \/ \E m \in Msg \ {"JOIN_REQ"} : msgs' = Append(msgs, m)
  PROVE  Waits(zdo)'
  <1>1. CASE msgs' = <<>>
    BY <1>1 DEF Waits, Range
  <1>2. CASE zdo'.devState = zdo.devState /\ msgs' = msgs
    BY <1>2 DEF Waits, Range
  <1>3. ASSUME zdo'.devState = zdo.devState, NEW m \in Msg \ {"JOIN_REQ"}, msgs' = Append(msgs, m)
        PROVE  Waits(zdo)'
    <2>1. "JOIN_REQ" \in Range(msgs)' => "JOIN_REQ" \in Range(msgs)
      <3>1. \A i \in DOMAIN Append(msgs, m) : Append(msgs, m)[i] = m \/
              (i \in DOMAIN msgs /\ Append(msgs, m)[i] = msgs[i])
        OBVIOUS
      <3> QED BY <1>3, <3>1 DEF Range
    <2> QED BY <1>3, <2>1 DEF Waits
  <1> QED BY <1>1, <1>2, <1>3

\* A step that leaves the application's message and state alone.
LEMMA ZdoChanges ==
  ASSUME ZdoInv, msgs \in Seq(Msg), role' = role,
         app'.msg = app.msg, app'.NwkState = app.NwkState,
         Sound(zdo'), Knows(zdo'),
         \/ msgs' = <<>>
         \/ /\ zdo'.devState = zdo.devState
            /\ msgs' = msgs \/ \E m \in Msg \ {"JOIN_REQ"} : msgs' = Append(msgs, m)
  PROVE  ZdoInv'
  <1>1. Sound(zdo)' /\ Knows(zdo)'
    BY DEF Sound, RouterResumes, Knows
  <1>2. Waits(zdo)'
    BY StillWaits DEF ZdoInv
  <1> QED BY <1>1, <1>2 DEF ZdoInv

\* Flags handled or raised, timers set or expired, but not for the start of the network.
LEMMA FlagsChange ==
  ASSUME Sound(zdo), NEW y \in Zdo, y.devState = zdo.devState,
         y.devStartMode = zdo.devStartMode, y.retryCnt = zdo.retryCnt,
         y.nwkStatus = zdo.nwkStatus, y.asked = zdo.asked \/ y.asked = "none",
         "NETWORK_INIT" \in y.timers => "NETWORK_INIT" \in zdo.timers,
         "NETWORK_INIT" \in y.events => "NETWORK_INIT" \in zdo.events \cup zdo.timers
  PROVE  /\ Sound(y)
         /\ Knows(zdo) /\ ("STATE_CHANGE" \in zdo.events => "STATE_CHANGE" \in y.events) =>
              Knows(y)
  BY DEF Sound, RouterResumes, Knows

LEMMA StartedKeeps ==
  ASSUME NEW h \in BOOLEAN, zdo' = ZDOInitDevice(nv, h), msgs' = <<>>, role' = role
  PROVE  ZdoInv'
  <1> DEFINE y == ZDOInitDevice(nv, h)
             starts == ~h /\ ~LeaveHolds(nv, h)
  <1>1. y = [devState |-> IF starts THEN "INIT" ELSE "HOLD",
             devStartMode |-> IF Restored(nv) THEN "RESUME" ELSE "JOIN",
             retryCnt |-> 0, zdoDiscCounter |-> 1, nwkStatus |-> TRUE,
             events |-> IF LeaveHolds(nv, h) THEN {"STATE_CHANGE"}
                        ELSE IF starts /\ Restored(nv) THEN {"NETWORK_INIT"} ELSE {},
             timers |-> IF starts /\ ~Restored(nv) THEN {"NETWORK_INIT"} ELSE {},
             asked |-> "none"]
    BY DEF ZDOInitDevice
  <1> HIDE DEF y, starts
  <1>2. /\ y.devState \in {"INIT", "HOLD"} /\ y.devStartMode \in {"RESUME", "JOIN"}
        /\ y.retryCnt = 0 /\ y.nwkStatus = TRUE /\ y.asked = "none"
        /\ y.zdoDiscCounter = 1
        /\ y.events \in SUBSET Flag /\ y.timers \in SUBSET Timer
    BY <1>1 DEF Flag, Timer
  <1>3. y \in Zdo
    <2>1. 1 \in 1 .. NUM_DISC_ATTEMPTS + 1 /\ 0 \in 0 .. 1
      BY ParametersAssumption
    <2>2. ASSUME NEW d \in {"INIT", "HOLD"}, NEW m \in {"RESUME", "JOIN"},
                 NEW e \in SUBSET Flag, NEW t \in SUBSET Timer
          PROVE  [devState |-> d, devStartMode |-> m, retryCnt |-> 0, zdoDiscCounter |-> 1,
                  nwkStatus |-> TRUE, events |-> e, timers |-> t, asked |-> "none"] \in Zdo
      BY <2>1 DEF Zdo, devStates
    <2>3. y = [devState |-> y.devState, devStartMode |-> y.devStartMode,
               retryCnt |-> 0, zdoDiscCounter |-> 1, nwkStatus |-> TRUE,
               events |-> y.events, timers |-> y.timers, asked |-> "none"]
      BY <1>1
    <2> QED BY <1>2, <2>2, <2>3, Zenon
  <1>4. zdo' = y
    BY DEF y
  <1>5. Sound(zdo)' /\ Knows(zdo)'
    <2>1. y.devStartMode = "RESUME" => "NETWORK_INIT" \notin y.timers
      BY <1>1
    <2> QED BY <1>2, <1>3, <1>4, <2>1 DEF Sound, RouterResumes, Knows, Connected
  <1>6. Waits(zdo)'
    BY DEF Waits, Range
  <1> QED BY <1>5, <1>6 DEF ZdoInv

LEMMA NetworkInitKeeps ==
  ASSUME TypeInv, ZdoInv, NetworkInit
  PROVE  ZdoInv'
  <1>1. PICK refused \in BOOLEAN :
           zdo' = ZDO_StartDevice(Notify(Done(zdo, "NETWORK_INIT")), refused)
    BY DEF NetworkInit
  <1>2. /\ "NETWORK_INIT" \in zdo.events /\ msgs = <<>> /\ msgs' = msgs
        /\ role' = role /\ app' = app
    BY DEF NetworkInit, Serves, ZdoOnly
  <1>3. zdo \in Zdo /\ Sound(zdo)
    BY DEF ZdoInv, Sound
  <1>4. msgs \in Seq(Msg)
    BY DEF TypeInv
  <1> DEFINE e == (zdo.events \ {"NETWORK_INIT"}) \cup {"STATE_CHANGE"}
             x(d) == [zdo EXCEPT !.events = e, !.devState = d]
  <1>5. ASSUME NEW d \in {"NWK_ORPHAN", "NWK_DISC"}
        PROVE  /\ x(d) \in Zdo /\ x(d).devState = d /\ x(d).events = e
               /\ x(d).devStartMode = zdo.devStartMode /\ x(d).retryCnt = zdo.retryCnt
               /\ x(d).nwkStatus = zdo.nwkStatus /\ x(d).timers = zdo.timers
               /\ x(d).asked = zdo.asked
    BY <1>3 DEF Zdo, Flag, devStates
  <1>6. CASE zdo.devStartMode = "RESUME"
    <2> DEFINE r == refused /\ role = "DEVICE"
    <2>1. zdo' = Request(x("NWK_ORPHAN"), "orphan", r)
      BY <1>1, <1>3, <1>6 DEF ZDO_StartDevice, Notify, Done, Zdo
    <2> DEFINE y == x("NWK_ORPHAN")
    <2>2. /\ y \in Zdo /\ y.devState = "NWK_ORPHAN" /\ y.events = e
          /\ y.devStartMode = "RESUME" /\ y.retryCnt = 0
          /\ y.nwkStatus = zdo.nwkStatus /\ y.timers = zdo.timers
      BY <1>3, <1>5, <1>6 DEF Sound
    <2> HIDE DEF x, y
    <2>3. CASE role = "ROUTER"
      <3>1. zdo' = [y EXCEPT !.asked = "orphan"]
        BY <2>1, <2>3 DEF Request, y
      <3>2. RouterResumes(zdo)
        BY <1>3, <1>6, <2>3 DEF Sound
      <3>3. zdo.nwkStatus /\ "NETWORK_INIT" \notin zdo.timers
        BY <1>2, <3>2 DEF RouterResumes
      <3>4. /\ zdo' \in Zdo /\ zdo'.devState = "NWK_ORPHAN" /\ zdo'.events = e
            /\ zdo'.devStartMode = "RESUME" /\ zdo'.retryCnt = 0 /\ zdo'.asked = "orphan"
            /\ zdo'.nwkStatus = zdo.nwkStatus /\ zdo'.timers = zdo.timers
        BY <2>2, <3>1 DEF Zdo
      <3>5. Sound(zdo') /\ Knows(zdo')
        BY <3>3, <3>4 DEF Sound, RouterResumes, Knows
      <3> QED BY <1>2, <1>4, <3>5, ZdoChanges
    <2>4. CASE role # "ROUTER"
      <3>1. Sound(y) /\ Knows(y)
        BY <2>2, <2>4 DEF Sound, Knows
      <3>2. Sound(zdo') /\ Knows(zdo')
        <4>1. ~(role = "ROUTER" /\ y.devStartMode = "RESUME")
          BY <2>4
        <4>2. r \in BOOLEAN
          OBVIOUS
        <4> HIDE DEF r
        <4> QED BY <2>1, <3>1, <4>1, <4>2, RequestKeeps DEF y
      <3> QED BY <1>2, <1>4, <3>2, ZdoChanges
    <2> QED BY <2>3, <2>4
  <1>7. CASE zdo.devStartMode # "RESUME"
    <2>1. zdo' = Request(x("NWK_DISC"), "disc", refused)
      BY <1>1, <1>3, <1>7 DEF ZDO_StartDevice, Notify, Done, Zdo
    <2> DEFINE y == x("NWK_DISC")
    <2>2. /\ y \in Zdo /\ y.devState = "NWK_DISC"
          /\ y.devStartMode # "RESUME"
      BY <1>5, <1>7
    <2> HIDE DEF x, y
    <2>3. Sound(y) /\ Knows(y)
      BY <2>2 DEF Sound, Knows, Connected
    <2>4. Sound(zdo') /\ Knows(zdo')
      BY <2>1, <2>2, <2>3, RequestKeeps DEF y
    <2> QED BY <1>2, <1>4, <2>4, ZdoChanges
  <1> QED BY <1>6, <1>7

LEMMA RouterStartKeeps ==
  ASSUME TypeInv, ZdoInv, RouterStart
  PROVE  ZdoInv'
  <1>1. /\ msgs = <<>> /\ msgs' = msgs /\ role' = role /\ app' = app
        /\ zdo' = [Notify(Done(zdo, "ROUTER_START")) EXCEPT
                     !.devState = IF zdo.nwkStatus /\ @ = "END_DEVICE" THEN "ROUTER" ELSE @]
    BY DEF RouterStart, Serves, ZdoOnly
  <1>2. zdo \in Zdo /\ Sound(zdo) /\ msgs \in Seq(Msg)
    BY DEF ZdoInv, Sound, TypeInv
  <1> DEFINE d == IF zdo.nwkStatus /\ zdo.devState = "END_DEVICE" THEN "ROUTER"
                  ELSE zdo.devState
  <1>3. zdo' = [zdo EXCEPT !.events = (@ \ {"ROUTER_START"}) \cup {"STATE_CHANGE"},
                           !.devState = d]
    BY <1>1, <1>2 DEF Notify, Done, Zdo
  <1>4. d \in devStates
    BY <1>2 DEF Zdo, devStates
  <1>5. d = zdo.devState \/ (zdo.devState = "END_DEVICE" /\ d = "ROUTER")
    OBVIOUS
  <1> HIDE DEF d
  <1>6. /\ zdo' \in Zdo /\ zdo'.devState = d
        /\ zdo'.events = (zdo.events \ {"ROUTER_START"}) \cup {"STATE_CHANGE"}
        /\ zdo'.devStartMode = zdo.devStartMode /\ zdo'.retryCnt = zdo.retryCnt
        /\ zdo'.nwkStatus = zdo.nwkStatus /\ zdo'.timers = zdo.timers
        /\ zdo'.asked = zdo.asked
    BY <1>2, <1>3, <1>4 DEF Zdo, Flag
  <1>7. Sound(zdo') /\ Knows(zdo')
    BY <1>2, <1>5, <1>6 DEF Sound, RouterResumes, Knows, Connected
  <1> QED BY <1>1, <1>2, <1>7, ZdoChanges

\* A save, a reset, a leave; a new key makes a member of the device.
LEMMA SavesKeep ==
  ASSUME TypeInv, ZdoInv, Saves
  PROVE  ZdoInv'
  <1>1. zdo \in Zdo /\ Sound(zdo) /\ Knows(zdo) /\ msgs \in Seq(Msg)
    BY DEF ZdoInv, Sound, TypeInv
  <1>2. role' = role /\ app' = app /\ msgs' = msgs
    BY DEF Saves, SaveNetworkStateEvt, DeviceReset, DeviceAuthEvt, FrameCounterChange,
           ZDO_LeaveInd, ZdoOnly, OutsideOnly
  <1>3. ASSUME NEW e \in Flag \ {"STATE_CHANGE"}, zdo' = Done(zdo, e)
        PROVE  ZdoInv'
    <2>1. /\ zdo' \in Zdo /\ zdo'.devState = zdo.devState
          /\ zdo'.devStartMode = zdo.devStartMode /\ zdo'.retryCnt = zdo.retryCnt
          /\ zdo'.nwkStatus = zdo.nwkStatus /\ zdo'.asked = zdo.asked
          /\ zdo'.timers = zdo.timers /\ zdo'.events = zdo.events \ {e}
      BY <1>1, <1>3 DEF Done, Zdo
    <2>2. Sound(zdo') /\ Knows(zdo')
      BY <1>1, <2>1, FlagsChange
    <2> QED BY <1>1, <1>2, <2>1, <2>2, ZdoChanges
  <1>4. CASE SaveNetworkStateEvt
    BY <1>3, <1>4 DEF SaveNetworkStateEvt, Flag
  <1>5. CASE DeviceReset
    BY <1>3, <1>5 DEF DeviceReset, Flag
  <1>6. CASE FrameCounterChange
    BY <1>3, <1>6 DEF FrameCounterChange, Flag
  <1>7. CASE ZDO_LeaveInd
    <2>1. zdo' = [zdo EXCEPT !.timers = @ \cup {"DEVICE_RESET"}]
      BY <1>7 DEF ZDO_LeaveInd
    <2>2. /\ zdo' \in Zdo /\ zdo'.devState = zdo.devState
          /\ zdo'.devStartMode = zdo.devStartMode /\ zdo'.retryCnt = zdo.retryCnt
          /\ zdo'.nwkStatus = zdo.nwkStatus /\ zdo'.asked = zdo.asked
          /\ zdo'.events = zdo.events /\ zdo'.timers = zdo.timers \cup {"DEVICE_RESET"}
      BY <1>1, <2>1 DEF Zdo, Timer
    <2>3. Sound(zdo') /\ Knows(zdo')
      BY <1>1, <2>2, FlagsChange
    <2> QED BY <1>1, <1>2, <2>2, <2>3, ZdoChanges
  <1>8. CASE DeviceAuthEvt
    <2> DEFINE z == [zdo EXCEPT !.events = @ \ {"DEVICE_AUTH"},
                                !.timers = @ \cup {"NWK_UPDATE_NV"}]
    <2>1. /\ msgs = <<>>
          /\ zdo' = IF zdo.devState = "END_DEVICE_UNAUTH"
                    THEN StartRouter([Notify(z) EXCEPT !.devState = "END_DEVICE",
                                                       !.timers = @ \ {"DEVICE_RESET"}])
                    ELSE z
      BY <1>1, <1>8 DEF DeviceAuthEvt, Serves, NVUpdate, Done, Zdo
    <2>2. /\ z \in Zdo /\ z.devState = zdo.devState
          /\ z.devStartMode = zdo.devStartMode /\ z.retryCnt = zdo.retryCnt
          /\ z.nwkStatus = zdo.nwkStatus /\ z.asked = zdo.asked
          /\ z.events = zdo.events \ {"DEVICE_AUTH"}
          /\ z.timers = zdo.timers \cup {"NWK_UPDATE_NV"}
      BY <1>1 DEF Zdo, Timer
    <2> HIDE DEF z
    <2>3. CASE zdo.devState # "END_DEVICE_UNAUTH"
      <3>1. zdo' = z
        BY <2>1, <2>3
      <3>2. Sound(zdo') /\ Knows(zdo')
        BY <1>1, <2>2, <3>1, FlagsChange
      <3> QED BY <1>1, <1>2, <2>2, <3>1, <3>2, ZdoChanges
    <2>4. CASE zdo.devState = "END_DEVICE_UNAUTH"
      <3> DEFINE y == [z EXCEPT !.events = @ \cup {"STATE_CHANGE"}, !.devState = "END_DEVICE",
                                !.timers = @ \ {"DEVICE_RESET"}]
      <3>1. zdo' = y \/ zdo' = [y EXCEPT !.asked = "router"]
        BY <2>1, <2>2, <2>4 DEF StartRouter, Notify, Zdo
      <3>2. /\ y \in Zdo /\ y.devState = "END_DEVICE"
            /\ y.devStartMode = z.devStartMode /\ y.retryCnt = z.retryCnt
            /\ y.events = z.events \cup {"STATE_CHANGE"}
            /\ y.timers = z.timers \ {"DEVICE_RESET"}
        BY <2>2 DEF Zdo, Flag, devStates
      <3> HIDE DEF y
      <3>3. /\ zdo' \in Zdo /\ zdo'.devState = "END_DEVICE"
            /\ zdo'.devStartMode = zdo.devStartMode /\ zdo'.retryCnt = zdo.retryCnt
            /\ zdo'.events = z.events \cup {"STATE_CHANGE"}
            /\ zdo'.timers = z.timers \ {"DEVICE_RESET"}
        BY <2>2, <3>1, <3>2 DEF Zdo
      <3>4. /\ zdo'.events \subseteq zdo.events \cup {"STATE_CHANGE"}
            /\ "STATE_CHANGE" \in zdo'.events
            /\ zdo'.timers \subseteq zdo.timers \cup {"DEVICE_RESET", "NWK_UPDATE_NV"}
        BY <2>2, <3>3
      <3>5. Sound(zdo') /\ Knows(zdo')
        BY <1>1, <2>4, <3>3, <3>4, BecomesMember
      <3> QED BY <1>1, <1>2, <2>1, <3>5, ZdoChanges
    <2> QED BY <2>3, <2>4
  <1> QED BY <1>4, <1>5, <1>6, <1>7, <1>8 DEF Saves

\* The network layer and the timers.
Outside ==
  \/ \E t \in Timer : TimerExpires(t)
  \/ DiscoveryConfirm \/ ZDO_JoinConfirmCB \/ ZDO_StartRouterConfirmCB
  \/ TransportKeyInd \/ ZDApp_NwkStateUpdateCB \/ ZDO_SyncIndicationCB
  \/ ZDO_AddrChangeIndicationCB \/ SecuredFrame \/ Radio

LEMMA OutsideKeeps ==
  ASSUME TypeInv, ZdoInv, Outside
  PROVE  ZdoInv'
  <1>1. zdo \in Zdo /\ Sound(zdo) /\ Knows(zdo) /\ Waits(zdo) /\ msgs \in Seq(Msg)
    BY DEF ZdoInv, Sound, TypeInv
  <1>2. role' = role /\ app' = app
    BY DEF Outside, TimerExpires, DiscoveryConfirm, ZDO_JoinConfirmCB, ZDO_StartRouterConfirmCB,
           TransportKeyInd, ZDApp_NwkStateUpdateCB, ZDO_SyncIndicationCB,
           ZDO_AddrChangeIndicationCB, SecuredFrame, Radio, OutsideOnly
  <1>3. ASSUME NEW t \in Timer, TimerExpires(t)
        PROVE  ZdoInv'
    <2>1. /\ t \in zdo.timers /\ msgs' = msgs
          /\ zdo' = [zdo EXCEPT !.timers = @ \ {t}, !.events = @ \cup {t}]
      BY <1>3 DEF TimerExpires
    <2>2. /\ zdo' \in Zdo /\ zdo'.devState = zdo.devState
          /\ zdo'.devStartMode = zdo.devStartMode /\ zdo'.retryCnt = zdo.retryCnt
          /\ zdo'.nwkStatus = zdo.nwkStatus /\ zdo'.asked = zdo.asked
          /\ zdo'.timers = zdo.timers \ {t} /\ zdo'.events = zdo.events \cup {t}
      BY <1>1, <2>1 DEF Zdo, Timer, Flag
    <2>3. Sound(zdo') /\ Knows(zdo')
      BY <1>1, <2>1, <2>2, FlagsChange
    <2> QED BY <1>1, <1>2, <2>1, <2>2, <2>3, ZdoChanges
  <1>4. CASE DiscoveryConfirm
    <2>1. PICK m \in {"DISC_CNF", "DISC_CNF_EMPTY"} :
             msgs' = Append(msgs, m) /\ zdo' = [zdo EXCEPT !.asked = "none"]
      BY <1>4 DEF DiscoveryConfirm, Post
    <2>2. m \in Msg \ {"JOIN_REQ"}
      BY DEF Msg
    <2>3. /\ zdo' \in Zdo /\ zdo'.devState = zdo.devState
          /\ zdo'.devStartMode = zdo.devStartMode /\ zdo'.retryCnt = zdo.retryCnt
          /\ zdo'.nwkStatus = zdo.nwkStatus /\ zdo'.asked = "none"
          /\ zdo'.timers = zdo.timers /\ zdo'.events = zdo.events
      BY <1>1, <2>1 DEF Zdo
    <2>4. Sound(zdo') /\ Knows(zdo')
      BY <1>1, <2>3, FlagsChange
    <2> QED BY <1>1, <1>2, <2>1, <2>2, <2>3, <2>4, ZdoChanges
  <1>5. CASE ZDO_JoinConfirmCB
    <2>1. PICK b \in BOOLEAN :
            /\ b = (up \/ (role = "ROUTER" /\ zdo.asked = "orphan"))
            /\ zdo' = [zdo EXCEPT !.asked = "none", !.nwkStatus = b]
            /\ msgs' = Append(msgs, "JOIN_IND")
            /\ zdo.asked \in {"join", "rejoin", "orphan"}
      <3>1. (up \/ (role = "ROUTER" /\ zdo.asked = "orphan")) \in BOOLEAN
        OBVIOUS
      <3> QED BY <1>5, <3>1, Zenon DEF ZDO_JoinConfirmCB, Post
    <2>2. "JOIN_IND" \in Msg \ {"JOIN_REQ"}
      BY DEF Msg
    <2>3. /\ zdo' \in Zdo /\ zdo'.devState = zdo.devState
          /\ zdo'.devStartMode = zdo.devStartMode /\ zdo'.retryCnt = zdo.retryCnt
          /\ zdo'.nwkStatus = b /\ zdo'.asked = "none"
          /\ zdo'.timers = zdo.timers /\ zdo'.events = zdo.events
      BY <1>1, <2>1 DEF Zdo
    <2>4. ASSUME role = "ROUTER", zdo.devStartMode = "RESUME" PROVE RouterResumes(zdo')
      <3>1. RouterResumes(zdo)
        BY <1>1, <2>4 DEF Sound
      <3>2. CASE zdo.asked = "orphan"
        <4>1. b = TRUE
          BY <2>1, <2>4, <3>2
        <4> QED BY <2>3, <3>1, <4>1 DEF RouterResumes
      <3>3. CASE zdo.asked # "orphan"
        BY <2>1, <2>3, <3>1, <3>3 DEF RouterResumes
      <3> QED BY <3>2, <3>3
    <2>5. Sound(zdo') /\ Knows(zdo')
      BY <1>1, <2>3, <2>4 DEF Sound, Knows
    <2> QED BY <1>1, <1>2, <2>1, <2>2, <2>3, <2>5, ZdoChanges
  <1>6. CASE ZDO_StartRouterConfirmCB
    <2>1. PICK b \in BOOLEAN :
             /\ zdo' = [zdo EXCEPT !.asked = "none", !.nwkStatus = b,
                                   !.events = @ \cup {"ROUTER_START"}]
             /\ msgs' = msgs /\ zdo.asked = "router"
      BY <1>6 DEF ZDO_StartRouterConfirmCB
    <2>2. /\ zdo' \in Zdo /\ zdo'.devState = zdo.devState
          /\ zdo'.devStartMode = zdo.devStartMode /\ zdo'.retryCnt = zdo.retryCnt
          /\ zdo'.asked = "none"
          /\ zdo'.timers = zdo.timers /\ zdo'.events = zdo.events \cup {"ROUTER_START"}
      BY <1>1, <2>1 DEF Zdo, Flag
    <2>3. Sound(zdo') /\ Knows(zdo')
      BY <1>1, <2>1, <2>2 DEF Sound, RouterResumes, Knows
    <2> QED BY <1>1, <1>2, <2>1, <2>2, <2>3, ZdoChanges
  <1>7. CASE TransportKeyInd
    <2>1. /\ "TRANSPORT_KEY" \in Msg \ {"JOIN_REQ"} /\ zdo' = zdo
          /\ msgs' = Append(msgs, "TRANSPORT_KEY")
      BY <1>7 DEF TransportKeyInd, Post, Msg
    <2> QED BY <1>1, <1>2, <2>1, ZdoChanges
  <1>8. CASE ZDApp_NwkStateUpdateCB
    <2>1. zdo' = [zdo EXCEPT !.timers = @ \cup {"NWK_UPDATE_NV"}] /\ msgs' = msgs
      BY <1>8 DEF ZDApp_NwkStateUpdateCB, NVUpdate
    <2>2. /\ zdo' \in Zdo /\ zdo'.devState = zdo.devState
          /\ zdo'.devStartMode = zdo.devStartMode /\ zdo'.retryCnt = zdo.retryCnt
          /\ zdo'.nwkStatus = zdo.nwkStatus /\ zdo'.asked = zdo.asked
          /\ zdo'.events = zdo.events /\ zdo'.timers = zdo.timers \cup {"NWK_UPDATE_NV"}
      BY <1>1, <2>1 DEF Zdo, Timer
    <2>3. Sound(zdo') /\ Knows(zdo')
      BY <1>1, <2>2, FlagsChange
    <2> QED BY <1>1, <1>2, <2>1, <2>2, <2>3, ZdoChanges
  <1>9. CASE ZDO_SyncIndicationCB
    <2>1. /\ role = "DEVICE" /\ zdo.devState = "END_DEVICE" /\ zdo' = zdo
      BY <1>9 DEF ZDO_SyncIndicationCB
    <2> QED BY <1>1, <1>2, <2>1 DEF ZdoInv, Sound, RouterResumes, Knows, Waits
  <1>10. CASE ZDO_AddrChangeIndicationCB
    <2>1. zdo' = [zdo EXCEPT !.timers = @ \cup {"NWK_UPDATE_NV"},
                             !.events = @ \cup {"STATE_CHANGE"}] /\ msgs' = msgs
      BY <1>1, <1>10 DEF ZDO_AddrChangeIndicationCB, NVUpdate, Notify, Zdo
    <2>2. /\ zdo' \in Zdo /\ zdo'.devState = zdo.devState
          /\ zdo'.devStartMode = zdo.devStartMode /\ zdo'.retryCnt = zdo.retryCnt
          /\ zdo'.nwkStatus = zdo.nwkStatus /\ zdo'.asked = zdo.asked
          /\ zdo'.events = zdo.events \cup {"STATE_CHANGE"}
          /\ zdo'.timers = zdo.timers \cup {"NWK_UPDATE_NV"}
      BY <1>1, <2>1 DEF Zdo, Timer, Flag
    <2>3. Sound(zdo') /\ Knows(zdo')
      BY <1>1, <2>2, FlagsChange
    <2> QED BY <1>1, <1>2, <2>1, <2>2, <2>3, ZdoChanges
  <1>11. CASE SecuredFrame
    <2>1. zdo' = [zdo EXCEPT !.events = @ \cup {"FRAMECOUNTER_CHANGE"}] /\ msgs' = msgs
      BY <1>11 DEF SecuredFrame
    <2>2. "FRAMECOUNTER_CHANGE" \in Flag \ {"NETWORK_INIT"}
      BY DEF Flag
    <2>3. Sound(zdo') /\ Knows(zdo') /\ zdo'.devState = zdo.devState
      BY <1>1, <2>1, <2>2, EventOn
    <2> QED BY <1>1, <1>2, <2>1, <2>3, ZdoChanges
  <1>12. CASE Radio
    <2>1. zdo' = zdo /\ msgs' = msgs
      BY <1>12 DEF Radio
    <2> QED BY <1>1, <1>2, <2>1, ZdoChanges
  <1> QED
    BY <1>3, <1>4, <1>5, <1>6, <1>7, <1>8, <1>9, <1>10, <1>11, <1>12 DEF Outside

\* The application is told, takes note, and counts.
LEMMA TellingKeeps ==
  ASSUME TypeInv, ZdoInv, StateChange
  PROVE  ZdoInv'
  <1>1. /\ zdo \in Zdo /\ Sound(zdo) /\ Knows(zdo) /\ msgs = <<>> /\ msgs' = msgs
        /\ role' = role /\ app \in App /\ msgs \in Seq(Msg)
    BY DEF ZdoInv, Sound, TypeInv, StateChange, Serves
  <1>2. CASE UNCHANGED <<app, zdo>>
    BY <1>1, <1>2, ZdoChanges
  <1>3. CASE app' = [app EXCEPT !.msg = zdo.devState] /\ zdo' = Done(zdo, "STATE_CHANGE")
    <2>1. app'.msg = zdo.devState
      BY <1>1, <1>3 DEF App
    <2>2. /\ zdo' \in Zdo /\ zdo'.devState = zdo.devState
          /\ zdo'.devStartMode = zdo.devStartMode /\ zdo'.retryCnt = zdo.retryCnt
          /\ zdo'.nwkStatus = zdo.nwkStatus /\ zdo'.asked = zdo.asked
          /\ zdo'.timers = zdo.timers /\ zdo'.events = zdo.events \ {"STATE_CHANGE"}
      BY <1>1, <1>3 DEF Done, Zdo
    <2>3. Sound(zdo')
      BY <1>1, <2>2, FlagsChange
    <2>4. Sound(zdo)' /\ Knows(zdo)'
      BY <1>1, <2>1, <2>2, <2>3 DEF Sound, RouterResumes, Knows
    <2>5. Waits(zdo)'
      BY <1>1 DEF Waits, Range
    <2> QED BY <2>4, <2>5 DEF ZdoInv
  <1> QED BY <1>2, <1>3 DEF StateChange

LEMMA CounterType ==
  ASSUME TypeInv, NvInv
  PROVE  PowerOnFactorySetting(app, app.msg).app \in App
  <1> DEFINE b == IF app.isFirstState
                  THEN [app EXCEPT !.powerSetCount = nv.count, !.timer = TRUE] ELSE app
             c == b.powerSetCount + 1
             counts == /\ ~nv.default /\ ~b.hasConn /\ ~b.isNotTimeOut
                       /\ ~b.isPowerSetCount
             r == PowerOnFactorySetting(app, app.msg)
  <1>0. app \in App /\ nv.count \in Nat
    BY DEF TypeInv, NvInv, NvType
  <1>1. b \in App
    <2>1. [app EXCEPT !.powerSetCount = nv.count, !.timer = TRUE] \in App
      BY <1>0 DEF App
    <2> QED BY <1>0, <2>1, Zenon
  <1>2. c \in Nat
    <2> HIDE DEF b
    <2>1. b.powerSetCount \in Nat
      BY <1>1 DEF App
    <2> QED BY <2>1
  <1>3. CASE app.msg \in Connected
    <2>1. r = [app |-> [b EXCEPT !.hasConn = TRUE, !.powerSetCount = 0],
               todo |-> IF b.powerSetCount # 0 THEN << <<"count", 0>> >> ELSE <<>>]
      BY <1>3, Zenon DEF PowerOnFactorySetting
    <2> HIDE DEF b, r
    <2>2. r.app = [b EXCEPT !.hasConn = TRUE, !.powerSetCount = 0]
      BY <2>1
    <2>3. ASSUME NEW a \in App, NEW k \in Nat
          PROVE  [a EXCEPT !.hasConn = TRUE, !.powerSetCount = k] \in App
      BY DEF App
    <2>4. r.app \in App
      BY <1>1, <2>2, <2>3, Zenon
    <2> QED BY <2>4 DEF r
  <1>4. CASE app.msg \notin Connected /\ counts
    <2>1. r = [app |-> [b EXCEPT !.isPowerSetCount = TRUE, !.powerSetCount = c],
               todo |-> IF c > POWERSETTING_COUNT /\ zdo.devState # "HOLD"
                        THEN << <<"count", c>> >> \o FactoryReset
                        ELSE << <<"count", c>> >>]
      BY <1>4, Zenon DEF PowerOnFactorySetting
    <2> HIDE DEF b, c, r
    <2>2. r.app = [b EXCEPT !.isPowerSetCount = TRUE, !.powerSetCount = c]
      BY <2>1
    <2>3. r.app \in App
      BY <1>1, <1>2, <2>2 DEF App
    <2> QED BY <2>3 DEF r
  <1>5. CASE app.msg \notin Connected /\ ~counts
    <2>1. r = [app |-> b, todo |-> <<>>]
      BY <1>5, Zenon DEF PowerOnFactorySetting
    <2> HIDE DEF b, r
    <2>2. r.app = b
      BY <2>1
    <2> QED BY <1>1, <2>2 DEF r
  <1> HIDE DEF counts
  <1> QED BY <1>3, <1>4, <1>5

LEMMA NotedKeeps ==
  ASSUME TypeInv, NvInv, ZdoInv, StateChangeMsg
  PROVE  ZdoInv' /\ app' \in App
  <1>1. /\ zdo \in Zdo /\ Sound(zdo) /\ Knows(zdo) /\ Waits(zdo)
        /\ UNCHANGED <<role, zdo, msgs>> /\ app.msg # "none" /\ app \in App
    BY DEF ZdoInv, Sound, TypeInv, StateChangeMsg
  <1>2. PICK a \in App :
          app' = [a EXCEPT !.msg = "none", !.NwkState = app.msg, !.isFirstState = FALSE]
    BY <1>1, CounterType DEF StateChangeMsg
  <1>3. app.msg \in devStates
    BY <1>1 DEF App
  <1>4. app' \in App /\ app'.msg = "none" /\ app'.NwkState = app.msg
    BY <1>2, <1>3 DEF App
  <1>5. Sound(zdo)' /\ Knows(zdo)' /\ Waits(zdo)'
    BY <1>1, <1>4 DEF Sound, RouterResumes, Knows, Waits
  <1> QED BY <1>4, <1>5 DEF ZdoInv

LEMMA ZdoStep ==
  ASSUME TypeInv, NvInv, ZdoInv, [Next]_vars
  PROVE  ZdoInv'
  <1>1. msgs \in Seq(Msg) /\ app \in App /\ Sound(zdo) /\ Knows(zdo)
    BY DEF TypeInv, ZdoInv
  <1>2. CASE FlashStep \/ WatchDogEnable \/ FactoryKey \/ UNCHANGED vars
    <2>1. UNCHANGED <<role, zdo, msgs, app>>
      BY <1>2 DEF FlashStep, WatchDogEnable, FactoryKey, vars
    <2> QED BY <1>1, <2>1, ZdoChanges
  <1>3. CASE PowerSettingCountCB
    <2>1. UNCHANGED <<role, zdo, msgs>> /\ app'.msg = app.msg /\ app'.NwkState = app.NwkState
      BY <1>1, <1>3 DEF PowerSettingCountCB, App
    <2> QED BY <1>1, <2>1, ZdoChanges
  <1>4. CASE Restarts \/ StartKey
    <2>1. msgs' = <<>> /\ \E h \in BOOLEAN : zdo' = ZDOInitDevice(nv, h)
      BY <1>4, BeginsAnew
    <2>2. role' = role
      BY <1>4 DEF Restarts, StartKey, SystemResetSoft, WatchdogReset, PowerLoss, Restart
    <2> QED BY <2>1, <2>2, StartedKeeps
  <1>5. Silent => NetworkInit \/ RouterStart \/ ProcessOSALMsg \/ Outside
    BY DEF Silent, Outside
  <1> QED
    BY <1>2, <1>3, <1>4, <1>5, NetworkInitKeeps, RouterStartKeeps, MessagesKeep, OutsideKeeps,
       SavesKeep, TellingKeeps, NotedKeeps, NextIs

-----------------------------------------------------------------------------
(* The application, the messages and the bounded counters keep their types. *)

LEMMA Bounds ==
  ASSUME TypeInv, [Next]_vars
  PROVE  /\ role' = role /\ wdt' \in BOOLEAN /\ up' \in BOOLEAN
         /\ cuts' \in 0 .. MaxCuts /\ trouble' \in 0 .. MaxTrouble
         /\ lives' \in 0 .. POWERSETTING_COUNT + 1
  <1>1. wdt \in BOOLEAN /\ up \in BOOLEAN /\ TRUE \in BOOLEAN /\ FALSE \in BOOLEAN
        /\ (~up) \in BOOLEAN
    BY DEF TypeInv
  <1>2. /\ MaxCuts \in Nat /\ MaxTrouble \in Nat /\ POWERSETTING_COUNT \in Nat
        /\ cuts \in 0 .. MaxCuts /\ trouble \in 0 .. MaxTrouble
        /\ lives \in 0 .. POWERSETTING_COUNT + 1
    BY ParametersAssumption DEF TypeInv
  <1> DEFINE Cut == cuts < MaxCuts /\ cuts' = cuts + 1
             Lived == lives' = IF lives > POWERSETTING_COUNT THEN lives ELSE lives + 1
  <1>3. /\ Troubles \/ trouble' = trouble => trouble' \in 0 .. MaxTrouble
        /\ Cut \/ cuts' = cuts => cuts' \in 0 .. MaxCuts
        /\ Lived \/ lives' = 0 \/ lives' = lives => lives' \in 0 .. POWERSETTING_COUNT + 1
    BY <1>2 DEF Troubles
  <1> DEFINE Fine == /\ role' = role /\ (wdt' = wdt \/ wdt' = TRUE \/ wdt' = FALSE)
                     /\ up' = up \/ up' = ~up
                     /\ Cut \/ cuts' = cuts
                     /\ Troubles \/ trouble' = trouble
                     /\ Lived \/ lives' = 0 \/ lives' = lives
  <1>4. CASE FlashStep \/ WatchDogEnable \/ FactoryKey \/ StartKey \/ UNCHANGED vars
    <2>1. Fine
      BY <1>4, Zenon DEF FlashStep, WatchDogEnable, FactoryKey, StartKey, vars
    <2> QED BY <1>1, <1>3, <2>1, Zenon
  <1>5. CASE Restarts
    <2>1. Fine
      BY <1>5, Zenon DEF Restarts, SystemResetSoft, WatchdogReset, PowerLoss, Restart
    <2> QED BY <1>1, <1>3, <2>1, Zenon
  <1>6. CASE StateChangeMsg \/ StateChange \/ PowerSettingCountCB
    <2>1. Fine
      BY <1>6, Zenon DEF StateChangeMsg, StateChange, PowerSettingCountCB
    <2> QED BY <1>1, <1>3, <2>1, Zenon
  <1>7. CASE Saves
    <2>1. Fine
      BY <1>7, Zenon DEF Saves, SaveNetworkStateEvt, DeviceReset, DeviceAuthEvt,
                         FrameCounterChange, ZDO_LeaveInd, ZdoOnly, OutsideOnly
    <2> QED BY <1>1, <1>3, <2>1, Zenon
  <1>8. CASE NetworkInit \/ RouterStart \/ ProcessOSALMsg
    <2>1. Fine
      BY <1>8, Zenon DEF NetworkInit, RouterStart, ProcessOSALMsg, ZdoOnly
    <2> QED BY <1>1, <1>3, <2>1, Zenon
  <1>9. CASE Outside
    <2>1. Fine
      BY <1>9, Zenon DEF Outside, TimerExpires, DiscoveryConfirm, ZDO_JoinConfirmCB,
           ZDO_StartRouterConfirmCB, TransportKeyInd, ZDApp_NwkStateUpdateCB,
           ZDO_SyncIndicationCB, ZDO_AddrChangeIndicationCB, SecuredFrame, Radio, OutsideOnly
    <2> QED BY <1>1, <1>3, <2>1, Zenon
  <1>10. Silent => NetworkInit \/ RouterStart \/ ProcessOSALMsg \/ Outside
    BY DEF Silent, Outside
  <1> HIDE DEF Cut, Lived, Fine
  <1> QED
    BY <1>4, <1>5, <1>6, <1>7, <1>8, <1>9, <1>10, NextIs

LEMMA Queue ==
  ASSUME TypeInv, NvInv, [Next]_vars
  PROVE  msgs' \in Seq(Msg)
  <1>1. /\ msgs \in Seq(Msg) /\ <<>> \in Seq(Msg)
        /\ \A m \in Msg : Append(msgs, m) \in Seq(Msg)
    BY DEF TypeInv
  <1>2. CASE Restarts \/ StartKey
    BY <1>1, <1>2, BeginsAnew
  <1>3. CASE NetworkInit \/ RouterStart \/ ProcessOSALMsg
    BY <1>1, <1>3 DEF NetworkInit, RouterStart, ProcessOSALMsg
  <1>4. CASE Outside
    <2>1. msgs' = msgs \/ \E m \in Msg : msgs' = Append(msgs, m)
      BY <1>4 DEF Outside, TimerExpires, DiscoveryConfirm, ZDO_JoinConfirmCB,
           ZDO_StartRouterConfirmCB, TransportKeyInd, ZDApp_NwkStateUpdateCB,
           ZDO_SyncIndicationCB, ZDO_AddrChangeIndicationCB, SecuredFrame, Radio, Post, Msg
    <2> QED BY <1>1, <2>1, Zenon
  <1>5. CASE Saves
    BY <1>1, <1>5 DEF Saves, SaveNetworkStateEvt, DeviceReset, DeviceAuthEvt,
                      FrameCounterChange, ZDO_LeaveInd
  <1>6. CASE \/ FlashStep \/ WatchDogEnable \/ FactoryKey \/ StateChangeMsg \/ StateChange
             \/ PowerSettingCountCB \/ UNCHANGED vars
    BY <1>1, <1>6 DEF FlashStep, WatchDogEnable, FactoryKey, StateChangeMsg, StateChange,
                      PowerSettingCountCB, vars
  <1>7. Silent => NetworkInit \/ RouterStart \/ ProcessOSALMsg \/ Outside
    BY DEF Silent, Outside
  <1> QED
    BY <1>2, <1>3, <1>4, <1>5, <1>6, <1>7, NextIs

LEMMA AppType ==
  ASSUME TypeInv, NvInv, ZdoInv, [Next]_vars
  PROVE  app' \in App
  <1>1. app \in App /\ zdo.devState \in devStates
    BY DEF TypeInv, ZdoInv, Sound, Zdo
  <1>2. CASE Restarts
    <2>1. app' = AppAtReset
      BY <1>2 DEF Restarts, SystemResetSoft, WatchdogReset, PowerLoss, Restart
    <2> QED BY <2>1 DEF AppAtReset, App, devStates
  <1>3. CASE StateChange
    <2>1. [app EXCEPT !.msg = zdo.devState] \in App
      BY <1>1 DEF App
    <2> QED BY <1>1, <1>3, <2>1, HoldWritesAre, Zenon
  <1>4. CASE PowerSettingCountCB
    BY <1>1, <1>4 DEF PowerSettingCountCB, App
  <1>5. CASE Silent \/ Saves
    BY <1>1, <1>5, SilentKeeps, SavesWrite
  <1>6. CASE FlashStep \/ WatchDogEnable \/ FactoryKey \/ StartKey \/ UNCHANGED vars
    BY <1>1, <1>6 DEF FlashStep, WatchDogEnable, FactoryKey, StartKey, vars
  <1> QED
    BY <1>2, <1>3, <1>4, <1>5, <1>6, NotedKeeps, NextIs

LEMMA TypeStep ==
  ASSUME TypeInv, NvInv, ZdoInv, [Next]_vars
  PROVE  TypeInv'
  <1>1. role' \in Roles
    BY Bounds DEF TypeInv
  <1> QED BY <1>1, Bounds, Queue, AppType DEF TypeInv

-----------------------------------------------------------------------------
(* The counter and the starts.                                             *)

LEMMA CountTuples ==
  /\ \A m, n \in Nat : Count(m) = Count(n) <=> m = n
  /\ \A n \in Nat : \A x, v : x # "count" => <<x, v>> # Count(n)
  /\ \A n \in Nat : \A x : <<x>> # Count(n)
  BY Tuples, Zenon DEF Count

LEMMA Writes ==
  /\ todo' = <<>> => ToDo' = {}
  /\ \A e : todo' = <<e>> => ToDo' = {e}
  /\ todo' = FactoryReset => \A m \in Nat : Count(m) \notin ToDo'
  /\ \A n, m \in Nat : todo' = <<Count(n)>> \o FactoryReset =>
       (Count(m) \in ToDo' <=> m = n)
  <1>1. todo' = <<>> => ToDo' = {}
    BY DEF ToDo
  <1>2. ASSUME NEW e, todo' = <<e>> PROVE ToDo' = {e}
    BY <1>2 DEF ToDo
  <1> DEFINE H == <<"hold", "HOLD">>
             D == <<"default", TRUE>>
             W == <<"watchdog">>
             F == FactoryReset
  <1>3. F = <<H, D, W>>
    BY DEF FactoryReset
  <1>4. \A m \in Nat : Count(m) \notin {H, D, W}
    <2>1. "hold" # "count" /\ "default" # "count"
      OBVIOUS
    <2>2. ASSUME NEW m \in Nat
          PROVE  Count(m) # H /\ Count(m) # D /\ Count(m) # W
      <3>1. H # Count(m)
        BY <2>1, CountTuples, Zenon
      <3>2. D # Count(m)
        BY <2>1, CountTuples, Zenon
      <3>3. W # Count(m)
        BY CountTuples, Zenon
      <3> QED BY <3>1, <3>2, <3>3
    <2> HIDE DEF H, D, W
    <2> QED BY <2>2
  <1> HIDE DEF H, D, W, F
  <1>5. /\ F \in Seq({H, D, W}) /\ Len(F) = 3 /\ F[1] = H /\ F[2] = D /\ F[3] = W
    <2>1. ASSUME NEW a, NEW b, NEW c
          PROVE  /\ <<a, b, c>> \in Seq({a, b, c}) /\ Len(<<a, b, c>>) = 3
                 /\ <<a, b, c>>[1] = a /\ <<a, b, c>>[2] = b /\ <<a, b, c>>[3] = c
      OBVIOUS
    <2> QED BY <1>3, <2>1, Zenon
  <1>6. ASSUME todo' = F, NEW m \in Nat
        PROVE  Count(m) \notin ToDo'
    <2>1. \A i \in 1 .. Len(F) : F[i] \in {H, D, W}
      BY <1>5
    <2>2. ToDo' = {F[i] : i \in 1 .. Len(F)}
      BY <1>6 DEF ToDo
    <2>3. ToDo' \subseteq {H, D, W}
      BY <2>1, <2>2, Zenon
    <2> QED BY <1>4, <2>3, Zenon
  <1>7. ASSUME NEW n \in Nat, todo' = <<Count(n)>> \o F
        PROVE  ToDo' = {H, D, W, Count(n)}
    <2> DEFINE c == Count(n)
               o == <<c>>
               S == {H, D, W, c}
    <2>1. o \in Seq(S) /\ Len(o) = 1 /\ o[1] = c
      OBVIOUS
    <2>2. F \in Seq(S)
      <3>1. {H, D, W} \subseteq S
        OBVIOUS
      <3> HIDE DEF S
      <3> QED BY <1>5, <3>1, SeqMonotonic, Zenon
    <2>3. todo' = o \o F
      BY <1>7
    <2> HIDE DEF o, S
    <2>4. /\ Len(o \o F) = Len(o) + Len(F)
           /\ \A i \in 1 .. Len(o) + Len(F) :
                 (o \o F)[i] = IF i <= Len(o) THEN o[i] ELSE F[i - Len(o)]
      BY <2>1, <2>2, ConcatProperties, Zenon
    <2>5. /\ Len(todo') = 4
          /\ todo'[1] = c /\ todo'[2] = H /\ todo'[3] = D /\ todo'[4] = W
      BY <1>5, <2>1, <2>3, <2>4
    <2> HIDE DEF c
    <2>6. ToDo' = {todo'[i] : i \in {1, 2, 3, 4}}
      <3>1. 1 .. 4 = {1, 2, 3, 4}
        OBVIOUS
      <3> QED BY <2>5, <3>1, Zenon DEF ToDo
    <2>7. ToDo' = {H, D, W, c}
      BY <2>5, <2>6
    <2> QED BY <2>7 DEF c
  <1>8. ASSUME NEW n \in Nat, todo' = <<Count(n)>> \o F, NEW m \in Nat
        PROVE  Count(m) \in ToDo' <=> m = n
    <2>1. ToDo' = {H, D, W, Count(n)}
      BY <1>7, <1>8
    <2> QED BY <1>4, <2>1, CountTuples, Zenon
  <1> QED BY <1>1, <1>2, <1>6, <1>8 DEF F

\* What a change of state that is noted does to the counter: nothing, or it is cleared,
\* or it goes up by one, and over the limit the node is reset.
Quiet ==
  /\ app'.powerSetCount = nv.count /\ app'.hasConn = app.hasConn
  /\ app'.isPowerSetCount = app.isPowerSetCount
  /\ todo' = <<>> /\ lives' = IF app.hasConn THEN 0 ELSE lives

Cleared ==
  /\ role = "DEVICE"
  /\ app'.powerSetCount = 0 /\ app'.hasConn /\ app'.isPowerSetCount = app.isPowerSetCount
  /\ todo' = IF nv.count = 0 THEN <<>> ELSE <<Count(0)>>
  /\ lives' = IF nv.count = 0 THEN 0 ELSE lives

Counted ==
  /\ role = "DEVICE" /\ ~app.hasConn /\ ~app.isPowerSetCount
  /\ app'.powerSetCount = nv.count + 1 /\ ~app'.hasConn /\ app'.isPowerSetCount
  /\ \/ todo' = <<Count(nv.count + 1)>>
     \/ nv.count + 1 > POWERSETTING_COUNT /\ todo' = <<Count(nv.count + 1)>> \o FactoryReset
  /\ lives' = lives

LEMMA Noted ==
  ASSUME TypeInv, NvInv, Counts, StateChangeMsg
  PROVE  /\ todo = <<>> /\ UNCHANGED <<role, nv>> /\ ~app'.isFirstState
         /\ Quiet \/ Cleared \/ Counted
  <1> DEFINE r == IF role = "DEVICE" THEN PowerOnFactorySetting(app, app.msg)
                  ELSE [app |-> app, todo |-> <<>>]
             a == r.app
  <1>1. /\ todo = <<>> /\ UNCHANGED <<role, nv>> /\ role \in {"ROUTER", "DEVICE"}
        /\ app \in App /\ nv.count \in Nat
    BY ParametersAssumption
       DEF StateChangeMsg, AppTurn, Ready, TypeInv, NvInv, NvType
  <1>2. /\ app' = [a EXCEPT !.msg = "none", !.NwkState = app.msg, !.isFirstState = FALSE]
        /\ todo' = r.todo
        /\ lives' = IF a.hasConn /\ r.todo = <<>> THEN 0 ELSE lives
    BY DEF StateChangeMsg
  <1>3. a \in App
    <2>1. CASE role = "DEVICE"
      BY <2>1, CounterType
    <2>2. CASE role # "DEVICE"
      BY <1>1, <2>2
    <2> QED BY <2>1, <2>2
  <1> HIDE DEF a
  <1>4. /\ ~app'.isFirstState /\ app'.hasConn = a.hasConn
        /\ app'.powerSetCount = a.powerSetCount
        /\ app'.isPowerSetCount = a.isPowerSetCount
    BY <1>2, <1>3 DEF App
  <1>5. ~app.isFirstState => nv.count = app.powerSetCount
    BY <1>1 DEF Counts, ToDo
  <1>6. CASE role # "DEVICE"
    <2>1. a = app /\ r.todo = <<>> /\ app.powerSetCount = nv.count
      BY <1>1, <1>6 DEF Counts, a
    <2> QED BY <1>1, <1>2, <1>4, <2>1 DEF Quiet
  <1>7. CASE role = "DEVICE"
    <2> DEFINE b == IF app.isFirstState
                    THEN [app EXCEPT !.powerSetCount = nv.count, !.timer = TRUE] ELSE app
               c == b.powerSetCount + 1
               gaveUp == c > POWERSETTING_COUNT /\ zdo.devState # "HOLD"
               counts == /\ ~nv.default /\ ~b.hasConn /\ ~b.isNotTimeOut
                         /\ ~b.isPowerSetCount
    <2>1. /\ b.powerSetCount = nv.count /\ b.hasConn = app.hasConn
          /\ b.isPowerSetCount = app.isPowerSetCount
      <3>1. CASE app.isFirstState
        BY <1>1, <3>1 DEF App
      <3>2. CASE ~app.isFirstState
        BY <1>5, <3>2
      <3> QED BY <3>1, <3>2
    <2>2. b \in App
      <3>1. [app EXCEPT !.powerSetCount = nv.count, !.timer = TRUE] \in App
        BY <1>1 DEF App
      <3> QED BY <1>1, <3>1, Zenon
    <2>3. CASE app.msg \in Connected
      <3>1. r = [app |-> [b EXCEPT !.hasConn = TRUE, !.powerSetCount = 0],
                 todo |-> IF b.powerSetCount # 0 THEN << <<"count", 0>> >> ELSE <<>>]
        BY <1>7, <2>3, Zenon DEF PowerOnFactorySetting
      <3> HIDE DEF b, r
      <3>2. /\ a = [b EXCEPT !.hasConn = TRUE, !.powerSetCount = 0]
            /\ r.todo = IF nv.count = 0 THEN <<>> ELSE <<Count(0)>>
        BY <2>1, <3>1 DEF a, Count
      <3>3. /\ a.hasConn = TRUE /\ a.powerSetCount = 0
            /\ a.isPowerSetCount = app.isPowerSetCount
        BY <2>1, <2>2, <3>2 DEF App
      <3>4. <<Count(0)>> # <<>>
        OBVIOUS
      <3>5. lives' = IF nv.count = 0 THEN 0 ELSE lives
        BY <1>2, <3>2, <3>3, <3>4
      <3>6. Cleared
        BY <1>2, <1>4, <1>7, <3>2, <3>3, <3>5 DEF Cleared
      <3> QED BY <1>1, <1>4, <3>6
    <2>4. CASE app.msg \notin Connected /\ counts
      <3>1. r = [app |-> [b EXCEPT !.isPowerSetCount = TRUE, !.powerSetCount = c],
                 todo |-> IF gaveUp THEN << <<"count", c>> >> \o FactoryReset
                          ELSE << <<"count", c>> >>]
        BY <1>7, <2>4, Zenon DEF PowerOnFactorySetting
      <3>2. ~b.hasConn /\ ~b.isPowerSetCount
        BY <2>4
      <3>3. gaveUp => c > POWERSETTING_COUNT
        OBVIOUS
      <3>4. c = nv.count + 1
        BY <2>1
      <3> HIDE DEF b, r, c, gaveUp
      <3>5. /\ a = [b EXCEPT !.isPowerSetCount = TRUE, !.powerSetCount = c]
            /\ r.todo = IF gaveUp THEN << <<"count", c>> >> \o FactoryReset
                        ELSE << <<"count", c>> >>
        BY <3>1 DEF a
      <3>6. /\ r.todo = <<Count(nv.count + 1)>>
               \/ (nv.count + 1 > POWERSETTING_COUNT
                   /\ r.todo = <<Count(nv.count + 1)>> \o FactoryReset)
        BY <3>3, <3>4, <3>5 DEF Count
      <3>7. /\ a.hasConn = b.hasConn /\ a.powerSetCount = nv.count + 1
            /\ a.isPowerSetCount = TRUE
        BY <2>2, <3>4, <3>5 DEF App
      <3>8. ~app.hasConn /\ ~app.isPowerSetCount /\ ~a.hasConn
        BY <2>1, <3>2, <3>7
      <3>9. Counted
        BY <1>2, <1>4, <1>7, <3>6, <3>7, <3>8 DEF Counted
      <3> QED BY <1>1, <1>4, <3>9
    <2>5. CASE app.msg \notin Connected /\ ~counts
      <3>1. r = [app |-> b, todo |-> <<>>]
        BY <1>7, <2>5, Zenon DEF PowerOnFactorySetting
      <3> HIDE DEF b, r
      <3>2. a = b /\ r.todo = <<>>
        BY <3>1 DEF a
      <3>3. Quiet
        BY <1>2, <1>4, <2>1, <3>2 DEF Quiet
      <3> QED BY <1>1, <1>4, <3>3
    <2> HIDE DEF counts
    <2> QED BY <2>3, <2>4, <2>5
  <1> QED BY <1>6, <1>7

\* No write of the other handlers is one of the counter.
LEMMA OtherWrite ==
  \A n \in Nat :
    /\ Count(n) \notin AtRestart(nv)
    /\ Count(n) \notin {<<"net", TRUE>>, <<"default", FALSE>>, <<"default", TRUE>>, <<"reset">>,
                        <<"key", TRUE>>, <<"leave", "leave">>, <<"leave", "rejoin">>,
                        <<"hold", "INIT">>}
  <1> SUFFICES ASSUME NEW n \in Nat
               PROVE  /\ Count(n) \notin AtRestart(nv)
                      /\ Count(n) \notin {<<"net", TRUE>>, <<"default", FALSE>>,
                           <<"default", TRUE>>, <<"reset">>, <<"key", TRUE>>,
                           <<"leave", "leave">>, <<"leave", "rejoin">>, <<"hold", "INIT">>}
    OBVIOUS
  <1>1. /\ "net" # "count" /\ "default" # "count" /\ "key" # "count"
        /\ "leave" # "count" /\ "hold" # "count"
    OBVIOUS
  <1>2. ASSUME NEW x, NEW v, x # "count"
        PROVE  Count(n) # <<x, v>>
    <2>1. <<x, v>> # Count(n)
      BY <1>2, CountTuples, Zenon
    <2> QED BY <2>1, Zenon
  <1>3. ASSUME NEW x
        PROVE  Count(n) # <<x>>
    <2>1. <<x>> # Count(n)
      BY CountTuples, Zenon
    <2> QED BY <2>1, Zenon
  <1>4. Count(n) \notin AtRestart(nv)
    BY <1>1, <1>2, Zenon DEF AtRestart
  <1> QED BY <1>1, <1>2, <1>3, <1>4, Zenon

\* A handler that writes no count and leaves the counter alone.
LEMMA CountElse ==
  ASSUME Counts, todo = <<>>, \A n \in Nat : Count(n) \notin ToDo',
         UNCHANGED <<role, nv, lives>>, app'.powerSetCount = app.powerSetCount,
         app'.hasConn = app.hasConn, app'.isFirstState = app.isFirstState,
         app'.isPowerSetCount = app.isPowerSetCount
  PROVE  Counts'
  <1>1. Count(app.powerSetCount) \notin ToDo
    BY DEF ToDo
  <1> QED BY <1>1 DEF Counts

\* A write that is done.
LEMMA CountFlash ==
  ASSUME TypeInv, NvInv, Counts, FlashStep
  PROVE  Counts'
  <1> DEFINE e == todo[1]
  <1>1. /\ e \in Entry /\ e \in ToDo /\ ToDo' \subseteq ToDo /\ ToDo \subseteq ToDo' \cup {e}
        /\ UNCHANGED <<role, app>>
        /\ app \in App /\ nv.count \in Nat /\ lives \in Nat /\ POWERSETTING_COUNT \in Nat
    BY TailLeaves, ParametersAssumption DEF NvInv, NvType, FlashStep, TypeInv
  <1>2. app.powerSetCount \in Nat
    BY <1>1 DEF App
  <1>3. ASSUME NEW n \in Nat, e = Count(n)
        PROVE  /\ n = app.powerSetCount /\ (app.hasConn \/ (n # 0 /\ app.isPowerSetCount))
               /\ nv'.count = n /\ lives' = IF n = 0 THEN 0 ELSE lives
    <2>1. nv' = [nv EXCEPT !["count"] = n]
      BY <1>3, ItemAndValue DEF Count
    <2>2. e[1] = "count" /\ e[2] = n
      BY <1>3 DEF Count
    <2> HIDE DEF e
    <2>3. lives' = IF n = 0 THEN 0 ELSE lives
      BY <2>2 DEF FlashStep, e
    <2>4. nv'.count = n
      BY <2>1 DEF NvInv, NvType
    <2> QED BY <1>1, <1>3, <2>3, <2>4 DEF Counts
  <1>4. ASSUME \A n \in Nat : e # Count(n)
        PROVE  nv'.count = nv.count /\ lives' = lives
    <2>1. e[1] # "count"
      <3>1. \A n \in Nat : e # <<"count", n>>
        BY <1>4 DEF Count
      <3> HIDE DEF e
      <3>2. \/ e \in {<<"watchdog">>, <<"reset">>}
            \/ \E x \in {"hold", "leave", "default", "net", "key"} : \E v : e = <<x, v>>
        BY <1>1, <3>1 DEF Entry
      <3>3. ASSUME e \in {<<"watchdog">>, <<"reset">>}
            PROVE  e[1] # "count"
        BY <3>3
      <3>4. ASSUME NEW x \in {"hold", "leave", "default", "net", "key"}, NEW v, e = <<x, v>>
            PROVE  e[1] # "count"
        BY <3>4
      <3> QED BY <3>2, <3>3, <3>4
    <2>2. nv' = [nv EXCEPT ![e[1]] = e[2]]
      BY DEF FlashStep
    <2>3. lives' = lives
      BY <2>1 DEF FlashStep
    <2> HIDE DEF e
    <2>4. nv'.count = nv.count
      BY <2>1, <2>2 DEF NvInv, NvType
    <2> QED BY <2>3, <2>4
  <1> HIDE DEF e
  <1>5. CASE \E n \in Nat : e = Count(n)
    <2>1. PICK n \in Nat : e = Count(n)
      BY <1>5
    <2>2. /\ n = app.powerSetCount /\ (app.hasConn \/ (n # 0 /\ app.isPowerSetCount))
          /\ nv'.count = n /\ lives' = IF n = 0 THEN 0 ELSE lives
      BY <1>3, <2>1
    <2>3. lives' <= POWERSETTING_COUNT =>
            /\ nv'.count <= lives' /\ app'.powerSetCount <= lives'
            /\ ~app'.isPowerSetCount /\ ~app'.hasConn => nv'.count < lives'
      <3>1. CASE n = 0
        BY <1>1, <2>2, <3>1
      <3>2. CASE n # 0
        BY <1>1, <2>2, <3>2 DEF Counts
      <3> QED BY <3>1, <3>2
    <2> QED BY <1>1, <2>2, <2>3 DEF Counts
  <1>6. CASE \A n \in Nat : e # Count(n)
    <2>1. nv'.count = nv.count /\ lives' = lives
      BY <1>4, <1>6
    <2>2. \A n \in Nat : Count(n) \in ToDo <=> Count(n) \in ToDo'
      BY <1>1, <1>6
    <2> QED BY <1>1, <1>2, <2>1, <2>2 DEF Counts
  <1> QED BY <1>5, <1>6

\* The application notes a change of state.
LEMMA CountNoted ==
  ASSUME TypeInv, NvInv, Counts, StateChangeMsg
  PROVE  Counts' /\ (<<"watchdog">> \in Range(todo') => lives > POWERSETTING_COUNT)
  <1>1. /\ todo = <<>> /\ UNCHANGED <<role, nv>> /\ ~app'.isFirstState
        /\ Quiet \/ Cleared \/ Counted
    BY Noted
  <1>2. nv.count \in Nat /\ lives \in Nat /\ POWERSETTING_COUNT \in Nat
    BY ParametersAssumption DEF NvInv, NvType, TypeInv
  <1>3. <<"watchdog">> \in Range(todo') => \E i \in 1 .. Len(todo') : todo'[i] = <<"watchdog">>
    <2>1. todo' \in Seq(Entry)
      BY NvStep, NextIs DEF NvInv
    <2> QED BY <2>1 DEF Range
  <1>4. <<"watchdog">> # Count(0) /\ <<"watchdog">> # Count(nv.count + 1)
    <2>1. 0 \in Nat /\ nv.count + 1 \in Nat
      BY <1>2
    <2> QED BY <2>1, CountTuples, Zenon
  <1>5. CASE Quiet
    <2>1. ToDo' = {} /\ ~(<<"watchdog">> \in Range(todo'))
      BY <1>5, Writes DEF Quiet, Range
    <2>2. /\ app'.hasConn => app'.powerSetCount = 0
          /\ role = "ROUTER" => app'.powerSetCount = 0
      <3>1. ~app.isFirstState => nv.count = app.powerSetCount
        BY <1>1 DEF Counts, ToDo
      <3> QED BY <1>5, <3>1 DEF Quiet, Counts
    <2>3. lives' <= POWERSETTING_COUNT =>
            /\ nv'.count <= lives' /\ app'.powerSetCount <= lives'
            /\ ~app'.isPowerSetCount /\ ~app'.hasConn => nv'.count < lives'
      BY <1>1, <1>2, <1>5, <2>2 DEF Quiet, Counts
    <2> QED BY <1>1, <1>5, <2>1, <2>2, <2>3 DEF Quiet, Counts
  <1>6. CASE Cleared
    <2>1. /\ \A n \in Nat : Count(n) \in ToDo' => n = 0
          /\ nv.count # 0 => Count(0) \in ToDo'
          /\ ~(<<"watchdog">> \in Range(todo'))
      <3>1. CASE nv.count = 0
        BY <1>6, <3>1, Writes DEF Cleared, Range
      <3>2. CASE nv.count # 0
        <4>1. todo' = <<Count(0)>>
          BY <1>6, <3>2 DEF Cleared
        <4>2. ToDo' = {Count(0)}
          BY <4>1, Writes
        <4>3. ~(<<"watchdog">> \in Range(todo'))
          BY <1>4, <4>1 DEF Range
        <4>4. \A n \in Nat : Count(n) \in ToDo' => n = 0
          BY <4>2, CountTuples
        <4> QED BY <4>2, <4>3, <4>4
      <3> QED BY <3>1, <3>2
    <2>2. lives' <= POWERSETTING_COUNT => nv'.count <= lives' /\ 0 <= lives'
      BY <1>1, <1>2, <1>6 DEF Cleared, Counts
    <2> QED BY <1>1, <1>6, <2>1, <2>2 DEF Cleared, Counts
  <1>7. CASE Counted
    <2> DEFINE c == nv.count + 1
    <2>1. c \in Nat /\ c # 0
      BY <1>2
    <2>2. \A n \in Nat : Count(n) \in ToDo' <=> n = c
      <3>1. todo' = <<Count(c)>> \/ todo' = <<Count(c)>> \o FactoryReset
        BY <1>7 DEF Counted
      <3> HIDE DEF c
      <3>2. CASE todo' = <<Count(c)>>
        <4>1. ToDo' = {Count(c)}
          BY <3>2, Writes
        <4> QED BY <2>1, <4>1, CountTuples
      <3>3. CASE todo' = <<Count(c)>> \o FactoryReset
        BY <2>1, <3>3, Writes, Zenon
      <3> QED BY <3>1, <3>2, <3>3
    <2>3. <<"watchdog">> \in Range(todo') => c > POWERSETTING_COUNT
      <3>1. todo' = <<Count(c)>> => <<"watchdog">> \notin Range(todo')
        BY <1>4 DEF Range
      <3> QED BY <1>7, <3>1 DEF Counted
    <2>4. lives <= POWERSETTING_COUNT => nv.count < lives
      BY <1>7 DEF Counted, Counts
    <2>5. <<"watchdog">> \in Range(todo') => lives > POWERSETTING_COUNT
      BY <1>2, <2>3, <2>4
    <2>6. lives' <= POWERSETTING_COUNT => nv'.count <= lives' /\ app'.powerSetCount <= lives'
      BY <1>1, <1>2, <1>7, <2>4 DEF Counted
    <2>7. app'.powerSetCount = c /\ ~app'.hasConn /\ app'.isPowerSetCount /\ role = "DEVICE"
      BY <1>7 DEF Counted
    <2> HIDE DEF c
    <2> QED BY <1>1, <2>1, <2>2, <2>5, <2>6, <2>7 DEF Counts
  <1> QED BY <1>1, <1>5, <1>6, <1>7

LEMMA CountRestart ==
  ASSUME TypeInv, NvInv, Counts, Restarts
  PROVE  Counts'
  <1>1. /\ app' = AppAtReset /\ UNCHANGED <<role, nv>>
        /\ lives' = IF lives > POWERSETTING_COUNT THEN lives ELSE lives + 1
    BY DEF Restarts, SystemResetSoft, WatchdogReset, PowerLoss, Restart
  <1>2. app'.powerSetCount = 0 /\ app'.isFirstState /\ ~app'.hasConn /\ ~app'.isPowerSetCount
    BY <1>1 DEF AppAtReset
  <1>3. \A n \in Nat : Count(n) \notin ToDo'
    <2>1. todo' \in Seq(AtRestart(nv))
      BY BeginsAnew
    <2>2. ToDo' \subseteq AtRestart(nv)
      BY <2>1 DEF ToDo
    <2> QED BY <2>2, OtherWrite
  <1>4. nv.count \in Nat /\ lives \in Nat /\ POWERSETTING_COUNT \in Nat
    BY ParametersAssumption DEF NvInv, NvType, TypeInv
  <1>5. lives' <= POWERSETTING_COUNT => nv'.count < lives' /\ app'.powerSetCount <= lives'
    BY <1>1, <1>2, <1>4 DEF Counts
  <1>6. lives' \in Nat
    BY <1>1, <1>4
  <1> QED BY <1>1, <1>2, <1>3, <1>4, <1>5, <1>6 DEF Counts

LEMMA CountsStep ==
  ASSUME TypeInv, NvInv, Counts, [Next]_vars
  PROVE  Counts'
  <1>1. app \in App
    BY DEF TypeInv
  <1>2. CASE WatchDogEnable
    <2>1. /\ todo[1] = <<"watchdog">> /\ ToDo' \subseteq ToDo /\ ToDo \subseteq ToDo' \cup {todo[1]}
          /\ UNCHANGED <<role, nv, app, lives>>
      <3>1. /\ todo # <<>> /\ todo[1][1] = "watchdog" /\ todo' = Tail(todo)
            /\ UNCHANGED <<role, nv, app, lives>>
        BY <1>2 DEF WatchDogEnable
      <3>2. /\ todo[1] \in Entry /\ ToDo' \subseteq ToDo /\ ToDo \subseteq ToDo' \cup {todo[1]}
        BY <3>1, TailLeaves DEF NvInv
      <3> DEFINE e == todo[1]
      <3>3. \/ e = <<"watchdog">> \/ e = <<"reset">>
            \/ \E x \in {"hold", "leave", "default", "net", "key", "count"} : \E v : e = <<x, v>>
        BY <3>2 DEF Entry
      <3>4. e[1] = "watchdog"
        BY <3>1
      <3> HIDE DEF e
      <3>5. e # <<"reset">>
        BY <3>4
      <3>6. ASSUME NEW x \in {"hold", "leave", "default", "net", "key", "count"}, NEW v
            PROVE  e # <<x, v>>
        BY <3>4
      <3>7. e = <<"watchdog">>
        BY <3>3, <3>5, <3>6
      <3> QED BY <3>1, <3>2, <3>7 DEF e
    <2>2. \A n \in Nat : Count(n) \in ToDo <=> Count(n) \in ToDo'
      BY <2>1, CountTuples
    <2>3. app.powerSetCount \in Nat
      BY <1>1 DEF App
    <2> QED BY <2>1, <2>2, <2>3 DEF Counts
  <1>3. CASE StartKey
    <2>1. /\ todo = <<>> /\ UNCHANGED <<role, nv, lives, app>>
      BY <1>3 DEF StartKey, AppTurn, Ready
    <2>2. todo' \in Seq(AtRestart(nv))
      BY <1>3, BeginsAnew
    <2>3. ToDo' \subseteq AtRestart(nv)
      BY <2>2 DEF ToDo
    <2> QED BY <2>1, <2>3, OtherWrite, CountElse
  <1>4. CASE StateChange
    <2>1. /\ todo = <<>> /\ UNCHANGED <<role, nv, lives>>
          /\ todo' = <<>> \/ todo' = << <<"hold", "INIT">> >>
          /\ app' = app \/ app' = [app EXCEPT !.msg = zdo.devState]
      BY <1>4, HoldWritesAre DEF StateChange
    <2>2. /\ app'.powerSetCount = app.powerSetCount /\ app'.hasConn = app.hasConn
          /\ app'.isFirstState = app.isFirstState /\ app'.isPowerSetCount = app.isPowerSetCount
      BY <1>1, <2>1 DEF App
    <2>3. ToDo' \subseteq {<<"hold", "INIT">>}
      BY <2>1, Writes, Zenon
    <2> QED BY <2>1, <2>2, <2>3, OtherWrite, CountElse
  <1>5. CASE FactoryKey
    <2>1. todo = <<>> /\ UNCHANGED <<role, nv, lives, app>> /\ todo' = FactoryReset
      BY <1>5 DEF FactoryKey, AppTurn, Ready
    <2> QED BY <2>1, Writes, CountElse
  <1>6. CASE PowerSettingCountCB
    <2>1. todo = <<>> /\ todo' = <<>> /\ UNCHANGED <<role, nv, lives>>
      BY <1>6 DEF PowerSettingCountCB, AppTurn, Ready
    <2>2. /\ app'.powerSetCount = app.powerSetCount /\ app'.hasConn = app.hasConn
          /\ app'.isFirstState = app.isFirstState /\ app'.isPowerSetCount = app.isPowerSetCount
      BY <1>1, <1>6 DEF PowerSettingCountCB, App
    <2> QED BY <2>1, <2>2, Writes, CountElse
  <1>7. CASE Saves
    <2>1. todo = <<>> /\ UNCHANGED <<nv, app>>
      BY <1>7, SavesWrite
    <2>2. UNCHANGED <<role, lives>>
      BY <1>7 DEF Saves, SaveNetworkStateEvt, DeviceReset, DeviceAuthEvt,
                  FrameCounterChange, ZDO_LeaveInd, ZdoOnly, OutsideOnly
    <2> DEFINE W == {<<"net", TRUE>>, <<"default", FALSE>>, <<"default", TRUE>>, <<"reset">>,
                     <<"key", TRUE>>, <<"leave", "leave">>, <<"leave", "rejoin">>,
                     <<"hold", "INIT">>}
    <2>3. /\ <<"net", TRUE>> \in W /\ <<"default", FALSE>> \in W
          /\ <<"default", TRUE>> \in W /\ <<"reset">> \in W
          /\ <<"key", TRUE>> \in W /\ <<"leave", "leave">> \in W
          /\ <<"leave", "rejoin">> \in W
      OBVIOUS
    <2>4. \A n \in Nat : Count(n) \notin W
      BY OtherWrite
    <2> HIDE DEF W
    <2>5. todo' \in Seq(W)
      BY <1>7, <2>3, SavesWrite, ExplicitWrites, Zenon
    <2>6. ToDo' \subseteq W
      BY <2>5 DEF ToDo
    <2> QED BY <2>1, <2>2, <2>4, <2>6, CountElse
  <1>8. CASE Silent \/ UNCHANGED vars
    <2>1. UNCHANGED <<role, nv, todo, app, lives>>
      <3>1. CASE Silent
        <4>1. UNCHANGED <<nv, todo, app>>
          BY <3>1, SilentKeeps
        <4>2. CASE NetworkInit \/ RouterStart \/ ProcessOSALMsg
          BY <4>1, <4>2 DEF NetworkInit, RouterStart, ProcessOSALMsg, ZdoOnly
        <4>3. CASE Outside
          BY <4>1, <4>3 DEF Outside, TimerExpires, DiscoveryConfirm, ZDO_JoinConfirmCB,
             ZDO_StartRouterConfirmCB, TransportKeyInd, ZDApp_NwkStateUpdateCB,
             ZDO_SyncIndicationCB, ZDO_AddrChangeIndicationCB, SecuredFrame, Radio, OutsideOnly
        <4> QED BY <3>1, <4>2, <4>3 DEF Silent, Outside
      <3>2. CASE UNCHANGED vars
        BY <3>2 DEF vars
      <3> QED BY <1>8, <3>1, <3>2
    <2> QED BY <2>1 DEF Counts, ToDo
  <1> QED
    BY <1>2, <1>3, <1>4, <1>5, <1>6, <1>7, <1>8, CountFlash, CountNoted, CountRestart, NextIs

-----------------------------------------------------------------------------
(* The whole invariant.                                                    *)

Whole == IInv /\ TypeInv /\ ZdoInv /\ Counts

LEMMA WholeStart ==
  ASSUME Init
  PROVE  Whole
  <1>1. IInv
    BY Start
  <1>2. todo = <<>> /\ ToDo = {} /\ msgs = <<>> /\ app = AppAtReset /\ nv.count = 0
    <2>1. nv.count = 0
      BY DEF Init
    <2> QED BY <2>1 DEF Init, ToDo
  <1>3. TypeInv
    <2>1. AppAtReset \in App
      BY DEF AppAtReset, App, devStates
    <2>2. /\ role \in Roles /\ wdt \in BOOLEAN /\ up \in BOOLEAN
          /\ cuts = 0 /\ trouble = 0 /\ lives = 1
      BY DEF Init
    <2>3. MaxCuts \in Nat /\ MaxTrouble \in Nat /\ POWERSETTING_COUNT \in Nat
      BY ParametersAssumption
    <2>4. /\ cuts \in 0 .. MaxCuts /\ trouble \in 0 .. MaxTrouble
          /\ lives \in 0 .. POWERSETTING_COUNT + 1
      BY <2>2, <2>3
    <2>5. msgs \in Seq(Msg) /\ app \in App
      BY <1>2, <2>1
    <2> QED BY <2>2, <2>4, <2>5, Zenon DEF TypeInv
  <1>4. ZdoInv
    <2>1. zdo = ZDOInitDevice(nv, TRUE) /\ ~LeaveHolds(nv, TRUE)
      BY DEF Init, LeaveHolds
    <2>2. zdo = [devState |-> "HOLD",
                 devStartMode |-> IF Restored(nv) THEN "RESUME" ELSE "JOIN",
                 retryCnt |-> 0, zdoDiscCounter |-> 1, nwkStatus |-> TRUE,
                 events |-> {}, timers |-> {}, asked |-> "none"]
      BY <2>1, Zenon DEF ZDOInitDevice
    <2>3. zdo \in Zdo
      BY <2>2, ParametersAssumption DEF Zdo, devStates
    <2> QED BY <1>2, <2>2, <2>3 DEF ZdoInv, Sound, RouterResumes, Knows, Waits, Connected, Range
  <1>5. Counts
    BY <1>2, ParametersAssumption DEF Init, Counts, AppAtReset
  <1> QED BY <1>1, <1>3, <1>4, <1>5 DEF Whole

LEMMA WholeStep ==
  ASSUME Whole, [Next]_vars
  PROVE  Whole'
  <1>1. IInv'
    BY Step DEF Whole
  <1>2. TypeInv' /\ ZdoInv' /\ Counts'
    BY TypeStep, ZdoStep, CountsStep DEF Whole, IInv
  <1> QED BY <1>1, <1>2 DEF Whole

LEMMA Always == Spec => []Whole
  BY WholeStart, WholeStep, PTL DEF Spec

\* Whatever happens to the power and to the network the records keep their types; in
\* particular resuming fails at most once before the device goes on to rejoin, so that
\* MAX_RESUME_RETRY is never reached, and a scan is counted at most once beyond
\* NUM_DISC_ATTEMPTS.
THEOREM TypeCorrect == Spec => []TypeOK
  <1>1. Whole => TypeOK
    <2> SUFFICES ASSUME Whole PROVE TypeOK
      OBVIOUS
    <2>1. /\ role \in Roles /\ nv \in NvType /\ zdo \in Zdo /\ app \in App
          /\ msgs \in Seq(Msg) /\ todo \in Seq(Entry)
          /\ {wdt, up} \subseteq BOOLEAN
          /\ cuts \in 0 .. MaxCuts /\ trouble \in 0 .. MaxTrouble
          /\ lives \in 0 .. POWERSETTING_COUNT + 1
      BY DEF Whole, IInv, NvInv, TypeInv, ZdoInv, Sound
    <2>2. \A i \in 1 .. Len(msgs) : msgs[i] \in Msg
      BY <2>1
    <2>3. \A i \in 1 .. Len(todo) : todo[i][1] \in DOMAIN nv \cup {"watchdog", "reset"}
      <3>1. \A i \in 1 .. Len(todo) : todo[i] \in Entry
        BY <2>1
      <3>2. DOMAIN nv = {"hold", "default", "net", "key", "leave", "count"}
        BY <2>1 DEF NvType
      <3>3. ASSUME NEW e \in Entry
            PROVE  e[1] \in DOMAIN nv \cup {"watchdog", "reset"}
        <4>1. \/ e \in {<<"watchdog">>, <<"reset">>}
              \/ \E x \in DOMAIN nv : \E v : e = <<x, v>>
          BY <3>2 DEF Entry
        <4>2. e \in {<<"watchdog">>, <<"reset">>} => e[1] \in {"watchdog", "reset"}
          OBVIOUS
        <4>3. ASSUME NEW x \in DOMAIN nv, NEW v, e = <<x, v>>
              PROVE  e[1] \in DOMAIN nv
          BY <4>3
        <4> QED BY <4>1, <4>2, <4>3
      <3> QED BY <3>1, <3>3
    <2> QED BY <2>1, <2>2, <2>3 DEF TypeOK, NvType, Zdo, App, Msg
  <1> QED BY <1>1, Always, PTL

\* When ZDApp has nothing left to do and no message waits, the application knows the state of
\* a device that is connected, or that waits for its key: the change that is overwritten in
\* the queue, refused for want of memory or overtaken is always told again.
THEOREM AppKnows == Spec => []AppKnowsSteadyState
  <1>1. Whole => AppKnowsSteadyState
    <2> SUFFICES ASSUME Whole, AppTurn, app.msg = "none",
                        zdo.devState \in Connected \cup {"END_DEVICE_UNAUTH"}
                 PROVE  app.NwkState = zdo.devState
      BY DEF AppKnowsSteadyState
    <2>1. zdo \in Zdo /\ Knows(zdo) /\ zdo.events = {}
      BY DEF Whole, ZdoInv, Sound, AppTurn
    <2>2. zdo.devState # "none"
      BY <2>1 DEF Zdo, devStates
    <2> QED BY <2>1, <2>2 DEF Knows
  <1> QED BY <1>1, Always, PTL

\* An end device's counter asks for the reset to factory settings only after more than
\* POWERSETTING_COUNT starts without a recorded connection, wherever power fails between the
\* count in RAM, its write and the connection: the count stays behind the starts.
THEOREM PatientWithItsNetwork == Spec => GivesUpLate
  <1> DEFINE Late == app.msg # "none" /\ app'.msg = "none" /\ <<"watchdog">> \in Range(todo')
                       => lives > POWERSETTING_COUNT
  <1>1. ASSUME Whole, [Next]_vars
        PROVE  [Late]_vars
    <2> SUFFICES ASSUME Next, app.msg # "none", app'.msg = "none",
                        <<"watchdog">> \in Range(todo')
                 PROVE  lives > POWERSETTING_COUNT
      BY <1>1
    <2>1. TypeInv /\ NvInv /\ Counts /\ app \in App
      BY <1>1 DEF Whole, IInv, TypeInv
    <2>2. CASE StateChangeMsg
      BY <2>1, <2>2, CountNoted
    <2>3. CASE Restarts
      <3>1. todo' \in Seq(AtRestart(nv))
        BY <2>1, <2>3, BeginsAnew
      <3>2. <<"watchdog">> \in AtRestart(nv)
        BY <3>1 DEF Range
      <3>3. \A x, v : <<"watchdog">> # <<x, v>>
        BY Tuples, Zenon
      <3> QED BY <3>2, <3>3, Zenon DEF AtRestart
    <2>4. CASE StateChange
      <3>1. app'.msg = app.msg \/ app'.msg = zdo.devState
        BY <2>1, <2>4, HoldWritesAre DEF App
      <3>2. zdo.devState # "none"
        BY <1>1 DEF Whole, ZdoInv, Sound, Zdo, devStates
      <3> QED BY <3>1, <3>2
    <2>5. CASE PowerSettingCountCB
      BY <2>1, <2>5 DEF PowerSettingCountCB, App
    <2>6. CASE Silent \/ Saves
      BY <2>6, SilentKeeps, SavesWrite
    <2>7. CASE FlashStep \/ WatchDogEnable \/ FactoryKey \/ StartKey
      BY <2>7 DEF FlashStep, WatchDogEnable, FactoryKey, StartKey
    <2> QED BY <2>2, <2>3, <2>4, <2>5, <2>6, <2>7, NextIs
  <1>2. Spec => [][Late]_vars
    BY <1>1, Always, PTL DEF Spec
  <1> QED BY <1>2, Zenon DEF GivesUpLate

=============================================================================
