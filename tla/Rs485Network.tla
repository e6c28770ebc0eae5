----------------------------- MODULE Rs485Network -----------------------------
(***************************************************************************)
(* The RS-485 bridge: a master on the coordinator's UART addresses devices *)
(* by a one-byte RS-485 address; the coordinator keeps a table (list.c)    *)
(* from RS-485 to network addresses, filled by the heart beats of the      *)
(* nodes; a node executes the commands for its own address and keeps that  *)
(* address in NV.                                                          *)
(*                                                                         *)
(* Frames in the air are a set: they are lost and overtake one another,    *)
(* and a frame that is sent again while it is under way is one frame.  A   *)
(* frame with a wrong CRC is one that is lost.  What only answers the      *)
(* master (a state or an address frame, which the coordinator writes to    *)
(* its UART) is an output and changes no state.                            *)
(***************************************************************************)
EXTENDS Integers, Sequences, FiniteSets

CONSTANTS Node,              \* routers and end devices
          Short,             \* the network addresses they may be given
          COORDINATOR_ADDR,  \* the coordinator's network address
          BROADCAST_ADDR,    \* the network address of all nodes
          NoShort,           \* the node is not in the network
          Dev,               \* RS-485 addresses: a byte, whichever the master gives
          Broadcast,         \* the one (0xFA) that is sent to all nodes
          Factory,           \* the byte of an NV item that was never written
          Zero,              \* the address 0, which Address_dev has after a reset
          Relay,             \* what a control command sets Device_state to
          MaxAir             \* bound: frames under way

ASSUME AddressAssumption ==
    /\ COORDINATOR_ADDR \notin Short
    /\ BROADCAST_ADDR \notin Short \cup {COORDINATOR_ADDR}
    /\ NoShort \notin Short \cup {BROADCAST_ADDR}
    /\ {Factory, Zero} \subseteq Dev
    /\ MaxAir \in Nat

VARIABLES
    formed,        \* coordinator: head # NULL
    list,          \* coordinator: the nodes after head
    short,         \* short[n]: n's network address, as the stack knows it
    stateMsg,      \* n has a ZDO_STATE_CHANGE message to process
    nwkAddr,       \* the address n puts in its heart beats
    beating,       \* n's heart beat event is set
    Address_dev,   \* n's RS-485 address in RAM
    nv,            \* ... and in NV (ZCD_DEV_ADDRESS)
    pc,            \* where n stands in rs485_changeAddr
    Device_state,  \* n's relays
    air            \* the frames under way

coordVars == <<formed, list>>
nodeVars  == <<short, stateMsg, nwkAddr, beating, Address_dev, nv, pc, Device_state>>
vars      == <<coordVars, nodeVars, air>>

HeartBeat == [kind : {"HB"}, dev : Dev, addr : Short]
Command   == LET To == Short \cup {BROADCAST_ADDR}
             IN  [kind : {"KZ"}, to : To, head : Dev, arg : Relay]
                 \cup [kind : {"XG"}, to : To, head : Dev, arg : Dev]

\* The table answers for an address in one way: one row per RS-485 address,
\* however heart beats are lost, repeated and reordered.
OneRowPerAddress ==
    \A i, j \in 1 .. Len(list) : list[i].dev = list[j].dev => i = j

\* Shape of the state, and the table as a function of the RS-485 address.
TypeOK ==
    /\ formed \in BOOLEAN
    /\ list \in Seq([dev : Dev, addr : Short])
    /\ short \in [Node -> Short \cup {NoShort}]
    /\ stateMsg \in [Node -> BOOLEAN]
    /\ nwkAddr \in [Node -> Short \cup {NoShort}]
    /\ beating \in [Node -> BOOLEAN]
    /\ Address_dev \in [Node -> Dev]
    /\ nv \in [Node -> Dev]
    /\ pc \in [Node -> {"idle", "write"}]
    /\ Device_state \in [Node -> Relay \cup {0}]
    /\ air \subseteq HeartBeat \cup Command
    /\ OneRowPerAddress

Init ==
    /\ formed = FALSE
    /\ list = <<>>
    /\ short = [n \in Node |-> NoShort]
    /\ stateMsg = [n \in Node |-> FALSE]
    /\ nwkAddr = [n \in Node |-> NoShort]
    /\ beating = [n \in Node |-> FALSE]
    /\ Address_dev = [n \in Node |-> Zero]
    /\ nv = [n \in Node |-> Factory]
    /\ pc = [n \in Node |-> "idle"]
    /\ Device_state = [n \in Node |-> 0]
    /\ air = {}

-----------------------------------------------------------------------------
(* The coordinator's table.                                                *)

\* In the state COORD, or ROUTER, and every time that state is entered, the
\* list starts again with an empty head; what was listed is not freed.
createNodelist ==
    /\ formed' = TRUE
    /\ list' = <<>>
    /\ UNCHANGED <<nodeVars, air>>

CoordinatorReset ==
    /\ formed' = FALSE
    /\ list' = <<>>
    /\ UNCHANGED <<nodeVars, air>>

RowsOf(dev) == {i \in 1 .. Len(list) : list[i].dev = dev}

\* Mutant: an address that is listed already is listed again.
setNodeList_Appends(p) ==
    /\ p \in air
    /\ air' = air \ {p}
    /\ list' = IF formed THEN Append(list, [dev |-> p.dev, addr |-> p.addr]) ELSE list
    /\ UNCHANGED <<formed, nodeVars>>

\* Mutant: an address that is listed already keeps its entry.
setNodeList_KeepsFirst(p) ==
    /\ p \in air
    /\ air' = air \ {p}
    /\ list' = IF formed /\ RowsOf(p.dev) = {}
               THEN Append(list, [dev |-> p.dev, addr |-> p.addr]) ELSE list
    /\ UNCHANGED <<formed, nodeVars>>

\* A heart beat reaches the coordinator: RS485_GetDevDataSend takes a frame of
\* three bytes for one.
setNodeList(p) ==
    /\ p \in air
    /\ air' = air \ {p}
    /\ list' = CASE ~formed -> list
                 [] formed /\ RowsOf(p.dev) = {} ->
                       Append(list, [dev |-> p.dev, addr |-> p.addr])
                 [] OTHER ->
                       [i \in 1 .. Len(list) |->
                           IF list[i].dev = p.dev THEN [list[i] EXCEPT !.addr = p.addr]
                                                  ELSE list[i]]
    /\ UNCHANGED <<formed, nodeVars>>

\* Where a command for dev is sent.  An address that is not listed is sent to
\* the coordinator itself.  Before the network is formed the code follows a
\* NULL head and may take any address for the answer.
get_NodeList(dev) ==
    IF ~formed THEN Short \cup {COORDINATOR_ADDR}
    ELSE IF RowsOf(dev) = {} THEN {COORDINATOR_ADDR}
    ELSE {list[i].addr : i \in {j \in RowsOf(dev) : \A k \in RowsOf(dev) : j <= k}}

\* A frame of the master on the UART, sent on.  A frame to the coordinator
\* itself comes back through the stack and goes out on the UART again.
CommonApp_RS485SendMessage(head, body) ==
    /\ \E to \in IF head = Broadcast THEN {BROADCAST_ADDR} ELSE get_NodeList(head) :
          LET frame == [kind |-> body.kind, to |-> to, head |-> head, arg |-> body.arg]
          IN  /\ to = COORDINATOR_ADDR \/ Cardinality(air \cup {frame}) <= MaxAir
              /\ air' = IF to = COORDINATOR_ADDR THEN air ELSE air \cup {frame}
    /\ UNCHANGED <<coordVars, nodeVars>>

Control(dev, r)    == CommonApp_RS485SendMessage(dev, [kind |-> "KZ", arg |-> r])
ChangeAddr(dev, d) == CommonApp_RS485SendMessage(dev, [kind |-> "XG", arg |-> d])

-----------------------------------------------------------------------------
(* The nodes.                                                              *)

\* The stack joins or rejoins, perhaps with another address, and notifies the
\* application.
Join(n, s) ==
    /\ \A m \in Node \ {n} : short[m] # s
    /\ short' = [short EXCEPT ![n] = s]
    /\ stateMsg' = [stateMsg EXCEPT ![n] = TRUE]
    /\ UNCHANGED <<coordVars, nwkAddr, beating, Address_dev, nv, pc, Device_state, air>>

\* The event processor of n's task is free to run.
Runs(n) == pc[n] = "idle"

SendHeartBeat(n, addr, dev) ==
    LET frame == [kind |-> "HB", dev |-> dev, addr |-> addr]
    IN  /\ Cardinality(air \cup {frame}) <= MaxAir
        /\ air' = air \cup {frame}

\* Mutant: the network address is not taken over.
CommonApp_ProcessZDOStates_NoNwkAddr(n) ==
    /\ stateMsg[n]
    /\ Runs(n)
    /\ stateMsg' = [stateMsg EXCEPT ![n] = FALSE]
    /\ Address_dev' = [Address_dev EXCEPT ![n] = nv[n]]
    /\ beating' = [beating EXCEPT ![n] = TRUE]
    /\ SendHeartBeat(n, short[n], nv[n])
    /\ UNCHANGED <<coordVars, short, nwkAddr, nv, pc, Device_state>>

\* The application takes over both addresses and beats at once.
CommonApp_ProcessZDOStates(n) ==
    /\ stateMsg[n]
    /\ Runs(n)
    /\ stateMsg' = [stateMsg EXCEPT ![n] = FALSE]
    /\ Address_dev' = [Address_dev EXCEPT ![n] = nv[n]]
    /\ nwkAddr' = [nwkAddr EXCEPT ![n] = short[n]]
    /\ beating' = [beating EXCEPT ![n] = TRUE]
    /\ SendHeartBeat(n, short[n], nv[n])
    /\ UNCHANGED <<coordVars, short, nv, pc, Device_state>>

RS485_HeartBeatCB(n) ==
    /\ beating[n]
    /\ Runs(n)
    /\ SendHeartBeat(n, nwkAddr[n], Address_dev[n])
    /\ UNCHANGED <<coordVars, nodeVars>>

\* A frame is delivered to the node that has its network address now, a
\* broadcast to every node in the network.
RS485_Analysis(n, p) ==
    /\ p \in air
    /\ short[n] # NoShort /\ p.to \in {short[n], BROADCAST_ADDR}
    /\ Runs(n)
    /\ air' = IF p.to = BROADCAST_ADDR THEN air ELSE air \ {p}

\* Mutant: the head of the frame is not compared with the node's address.
rs485_control_AnyHead(n, p) ==
    /\ RS485_Analysis(n, p)
    /\ p.kind = "KZ"
    /\ Device_state' = [Device_state EXCEPT ![n] = p.arg]
    /\ UNCHANGED <<coordVars, short, stateMsg, nwkAddr, beating, Address_dev, nv, pc>>

rs485_control(n, p) ==
    /\ RS485_Analysis(n, p)
    /\ p.kind = "KZ"
    /\ p.head = Address_dev[n]
    /\ Device_state' = [Device_state EXCEPT ![n] = p.arg]
    /\ UNCHANGED <<coordVars, short, stateMsg, nwkAddr, beating, Address_dev, nv, pc>>

rs485_changeAddr(n, p) ==
    /\ RS485_Analysis(n, p)
    /\ p.kind = "XG"
    /\ p.head = Address_dev[n]
    /\ Address_dev' = [Address_dev EXCEPT ![n] = p.arg]
    /\ pc' = [pc EXCEPT ![n] = "write"]
    /\ UNCHANGED <<coordVars, short, stateMsg, nwkAddr, beating, nv, Device_state>>

\* Mutant: the node answers although nothing was written.
WriteAddr_AnswersOnly(n) ==
    /\ pc[n] = "write"
    /\ pc' = [pc EXCEPT ![n] = "idle"]
    /\ UNCHANGED <<coordVars, short, stateMsg, nwkAddr, beating, Address_dev, nv,
                   Device_state, air>>

\* Its second half, before the answer: a reset may come in between.
WriteAddr(n) ==
    /\ pc[n] = "write"
    /\ nv' = [nv EXCEPT ![n] = Address_dev[n]]
    /\ pc' = [pc EXCEPT ![n] = "idle"]
    /\ UNCHANGED <<coordVars, short, stateMsg, nwkAddr, beating, Address_dev,
                   Device_state, air>>

Ignore(n, p) ==
    /\ RS485_Analysis(n, p)
    /\ p.head # Address_dev[n]
    /\ UNCHANGED <<coordVars, nodeVars>>

\* Power is lost, or the watchdog bites, at any point.
Reset(n) ==
    /\ short' = [short EXCEPT ![n] = NoShort]
    /\ stateMsg' = [stateMsg EXCEPT ![n] = FALSE]
    /\ nwkAddr' = [nwkAddr EXCEPT ![n] = NoShort]
    /\ beating' = [beating EXCEPT ![n] = FALSE]
    /\ Address_dev' = [Address_dev EXCEPT ![n] = Zero]
    /\ pc' = [pc EXCEPT ![n] = "idle"]
    /\ Device_state' = [Device_state EXCEPT ![n] = 0]
    /\ UNCHANGED <<coordVars, nv, air>>

\* A frame is lost, in the air or for want of a receiver; or a broadcast is over.
Lose(p) ==
    /\ p \in air
    /\ air' = air \ {p}
    /\ UNCHANGED <<coordVars, nodeVars>>

-----------------------------------------------------------------------------
Coordinator ==
    \/ createNodelist
    \/ CoordinatorReset
    \/ \E p \in air \cap HeartBeat : setNodeList(p)
    \/ \E dev \in Dev, r \in Relay : Control(dev, r)
    \/ \E dev, d \in Dev : ChangeAddr(dev, d)

NodeStep(n) ==
    \/ \E s \in Short : Join(n, s)
    \/ CommonApp_ProcessZDOStates(n)
    \/ RS485_HeartBeatCB(n)
    \/ \E p \in air \cap Command :
          rs485_control(n, p) \/ rs485_changeAddr(n, p) \/ Ignore(n, p)
    \/ WriteAddr(n)
    \/ Reset(n)

Next ==
    \/ Coordinator
    \/ \E n \in Node : NodeStep(n)
    \/ \E p \in air : Lose(p)

Spec == Init /\ [][Next]_vars

\* The coordinator forms its network, the applications process their messages,
\* heart beats are sent again and again (a LOOP event of api_events.c) and of
\* those with the same contents, sent for ever, one arrives.
Fairness ==
    /\ WF_vars(~formed /\ createNodelist)
    /\ WF_vars(\E p \in air : Lose(p))
    /\ \A p \in HeartBeat : SF_vars(setNodeList(p))
    /\ \A n \in Node :
          /\ SF_vars(CommonApp_ProcessZDOStates(n))
          /\ SF_vars(RS485_HeartBeatCB(n))
          /\ WF_vars(WriteAddr(n))

FairSpec == Spec /\ Fairness

-----------------------------------------------------------------------------
(* Properties.                                                             *)

\* What a node tells the master and the coordinator about its address, in an
\* answer or a heart beat, is what it will have after a reset at any later
\* point, a reset in the middle of rs485_changeAddr included.
AddressIsDurable ==
    \A n \in Node : beating[n] /\ pc[n] = "idle" => Address_dev[n] = nv[n]

\* n obeys a command of this kind that names one of these addresses.
Obeys(n, kind, arg, heads) ==
    \E p \in air \cap Command :
        /\ p.kind = kind /\ p.arg = arg /\ p.head \in heads
        /\ p.to \in {short[n], BROADCAST_ADDR}

\* What happens to n in a step, a command for one of these addresses did: its
\* relays are switched, other than by a reset, or its address is changed.
CommandedBy(n, heads) ==
    /\ short'[n] # NoShort /\ Device_state'[n] # Device_state[n]
          => Obeys(n, "KZ", Device_state'[n], heads)
    /\ pc[n] = "idle" /\ pc'[n] = "write" => Obeys(n, "XG", Address_dev'[n], heads)

\* However stale the table is, relays are switched and addresses changed only in
\* a node whose stored address the master named: a frame that the table, a
\* change of network addresses or a broadcast brings to another node does
\* nothing.  Between a reset and the state change after it there is one
\* exception, and no more than that: the node obeys what names the address 0.
CommandsObeyedByOwner ==
    [][\A n \in Node :
          CommandedBy(n, {nv[n]} \cup IF beating[n] THEN {} ELSE {Zero})]_vars

Disturbance ==
    \/ createNodelist \/ CoordinatorReset
    \/ \E dev, d \in Dev : ChangeAddr(dev, d)
    \/ \E n \in Node : Reset(n) \/ \E s \in Short : Join(n, s)

\* The table has the right entry for a node that no other one in the network
\* shares its RS-485 address with.
Routed(n) ==
    short[n] # NoShort
      /\ (\A m \in Node \ {n} : short[m] = NoShort \/ Address_dev[m] # Address_dev[n])
        => formed /\ get_NodeList(Address_dev[n]) = {short[n]}

\* When nodes and coordinator stop moving, the table becomes right and stays
\* right, whatever it held before and whatever is still under way.
TableConverges ==
    <>[][~Disturbance \/ (~formed /\ createNodelist)]_vars => <>[](\A n \in Node : Routed(n))

=============================================================================
