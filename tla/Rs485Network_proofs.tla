------------------------- MODULE Rs485Network_proofs -------------------------
(***************************************************************************)
(* Proofs about Rs485Network: whatever the number of nodes, of addresses   *)
(* and of frames under way, the table has one row per RS-485 address, a    *)
(* node's address is durable, and a node obeys commands for its address    *)
(* only, and for the address 0 while it has not read its own.              *)
(***************************************************************************)
EXTENDS Rs485Network, TLAPS

Row == [dev : Dev, addr : Short]

\* What the three properties rest on: before its first heart beat a node between
\* two commands has the address 0, or the one it was just given ...
AddressKnown ==
    \A n \in Node : ~beating[n] /\ pc[n] = "idle" => Address_dev[n] \in {Zero, nv[n]}

\* ... and a node that beats, or is going to, has a network address to report.
HasShort ==
    \A n \in Node : /\ stateMsg[n] => short[n] \in Short
                    /\ beating[n] => nwkAddr[n] \in Short

IInv == TypeOK /\ OneRowPerAddress /\ AddressIsDurable /\ AddressKnown /\ HasShort

LEMMA InitHolds == Init => IInv
<1> SUFFICES ASSUME Init PROVE IInv
  OBVIOUS
<1> USE DEF Init
<1>1. OneRowPerAddress
  BY DEF OneRowPerAddress
<1>2. TypeOK
  <2>1. <<>> \in Seq(Row)
    OBVIOUS
  <2>2. nv \in [Node -> Dev] /\ Address_dev \in [Node -> Dev]
    BY AddressAssumption
  <2> QED  BY <1>1, <2>1, <2>2 DEF TypeOK, Row
<1>3. AddressIsDurable /\ AddressKnown /\ HasShort
  BY DEF AddressIsDurable, AddressKnown, HasShort
<1> QED  BY <1>1, <1>2, <1>3 DEF IInv

-----------------------------------------------------------------------------
\* A row that is added for an address that is not listed, or an entry that is
\* overwritten, leaves one row per address.
LEMMA TableStep ==
  ASSUME list \in Seq(Row), OneRowPerAddress,
         NEW p \in HeartBeat, setNodeList(p)
  PROVE  list' \in Seq(Row) /\ OneRowPerAddress'
<1>1. p.dev \in Dev /\ p.addr \in Short
  BY DEF HeartBeat
<1>2. CASE ~formed
  BY <1>2 DEF setNodeList, OneRowPerAddress
<1>3. CASE formed /\ RowsOf(p.dev) = {}
  <2>1. list' = Append(list, [dev |-> p.dev, addr |-> p.addr])
    BY <1>3 DEF setNodeList
  <2>2. \A i \in 1 .. Len(list) : list[i].dev # p.dev
    BY <1>3 DEF RowsOf
  <2> QED  BY <1>1, <2>1, <2>2 DEF Row, OneRowPerAddress
<1>4. CASE formed /\ RowsOf(p.dev) # {}
  <2> DEFINE Over(i) == IF list[i].dev = p.dev THEN [list[i] EXCEPT !.addr = p.addr]
                                               ELSE list[i]
  <2>1. list' = [i \in 1 .. Len(list) |-> Over(i)]
    BY <1>4 DEF setNodeList
  <2>2. \A i \in 1 .. Len(list) : list[i] \in Row
    OBVIOUS
  <2>3. Len(list) \in Nat
    OBVIOUS
  <2>4. \A i \in 1 .. Len(list) : Over(i) \in Row /\ Over(i).dev = list[i].dev
    BY <1>1, <2>2 DEF Row
  <2> HIDE DEF Over
  <2>5. list' \in Seq(Row) /\ Len(list') = Len(list)
    BY <2>1, <2>3, <2>4
  <2>6. \A i \in 1 .. Len(list) : list'[i].dev = list[i].dev
    BY <2>1, <2>4
  <2> QED  BY <2>5, <2>6 DEF OneRowPerAddress
<1> QED  BY <1>2, <1>3, <1>4

LEMMA SentFrame ==
  ASSUME air \subseteq HeartBeat \cup Command, NEW n \in Node,
         NEW s \in Short, NEW d \in Dev, SendHeartBeat(n, s, d)
  PROVE  air' \subseteq HeartBeat \cup Command
BY DEF SendHeartBeat, HeartBeat

\* What the coordinator sends on is a command to a node.
LEMMA SentCommand ==
  ASSUME IInv, NEW dev \in Dev, NEW body,
         CommonApp_RS485SendMessage(dev, body),
         \/ body.kind = "KZ" /\ body.arg \in Relay
         \/ body.kind = "XG" /\ body.arg \in Dev
  PROVE  air' \subseteq HeartBeat \cup Command
<1>1. PICK to \in get_NodeList(dev) \cup {BROADCAST_ADDR} :
          air' = IF to = COORDINATOR_ADDR THEN air
                 ELSE air \cup {[kind |-> body.kind, to |-> to, head |-> dev,
                                 arg |-> body.arg]}
  BY DEF CommonApp_RS485SendMessage
<1>2. get_NodeList(dev) \subseteq Short \cup {COORDINATOR_ADDR}
  <2>1. \A i \in 1 .. Len(list) : list[i].addr \in Short
    <3>1. list \in Seq(Row)
      BY DEF IInv, TypeOK, Row
    <3>2. \A i \in 1 .. Len(list) : list[i] \in Row
      BY <3>1
    <3> QED  BY <3>2 DEF Row
  <2>2. RowsOf(dev) \subseteq 1 .. Len(list)
    BY DEF RowsOf
  <2> QED  BY <2>1, <2>2 DEF get_NodeList
<1>3. air \subseteq HeartBeat \cup Command
  BY DEF IInv, TypeOK
<1> QED  BY <1>1, <1>2, <1>3 DEF Command

LEMMA CoordinatorStep ==
  ASSUME IInv, Coordinator
  PROVE  IInv'
<1> USE DEF IInv
<1>1. CASE createNodelist \/ CoordinatorReset
  <2>1. list' = <<>> /\ formed' \in BOOLEAN /\ UNCHANGED <<nodeVars, air>>
    BY <1>1 DEF createNodelist, CoordinatorReset
  <2> QED  BY <2>1 DEF TypeOK, OneRowPerAddress, AddressIsDurable, AddressKnown, HasShort, nodeVars
<1>2. ASSUME NEW p \in air \cap HeartBeat, setNodeList(p) PROVE IInv'
  <2>1. list' \in Seq(Row) /\ OneRowPerAddress'
    BY <1>2, TableStep DEF TypeOK, Row
  <2>2. air' \subseteq air /\ UNCHANGED <<formed, nodeVars>>
    BY <1>2 DEF setNodeList
  <2> QED  BY <2>1, <2>2 DEF TypeOK, Row, AddressIsDurable, AddressKnown, HasShort, nodeVars
<1>3. ASSUME NEW dev \in Dev, NEW r \in Relay, Control(dev, r) PROVE IInv'
  <2>1. air' \subseteq HeartBeat \cup Command
    BY <1>3, SentCommand DEF Control
  <2>2. UNCHANGED <<coordVars, nodeVars>>
    BY <1>3 DEF Control, CommonApp_RS485SendMessage
  <2> QED  BY <2>1, <2>2 DEF TypeOK, OneRowPerAddress, AddressIsDurable, AddressKnown,
                             HasShort, nodeVars, coordVars
<1>4. ASSUME NEW dev \in Dev, NEW d \in Dev, ChangeAddr(dev, d) PROVE IInv'
  <2>1. air' \subseteq HeartBeat \cup Command
    BY <1>4, SentCommand DEF ChangeAddr
  <2>2. UNCHANGED <<coordVars, nodeVars>>
    BY <1>4 DEF ChangeAddr, CommonApp_RS485SendMessage
  <2> QED  BY <2>1, <2>2 DEF TypeOK, OneRowPerAddress, AddressIsDurable, AddressKnown,
                             HasShort, nodeVars, coordVars
<1> QED  BY <1>1, <1>2, <1>3, <1>4 DEF Coordinator

-----------------------------------------------------------------------------
LEMMA NodeStepHolds ==
  ASSUME IInv, NEW n \in Node, NodeStep(n)
  PROVE  IInv'
<1> USE DEF IInv
<1> USE DEF TypeOK, OneRowPerAddress, AddressIsDurable, AddressKnown, HasShort, coordVars, nodeVars
<1>1. ASSUME NEW s \in Short, Join(n, s) PROVE IInv'
  BY <1>1 DEF Join
<1>2. ASSUME CommonApp_ProcessZDOStates(n) PROVE IInv'
  <2>1. short[n] \in Short /\ nv[n] \in Dev
    BY <1>2 DEF CommonApp_ProcessZDOStates
  <2>2. air' \subseteq HeartBeat \cup Command
    BY <1>2, <2>1, SentFrame DEF CommonApp_ProcessZDOStates
  <2> QED  BY <1>2, <2>1, <2>2 DEF CommonApp_ProcessZDOStates
<1>3. ASSUME RS485_HeartBeatCB(n) PROVE IInv'
  <2>1. nwkAddr[n] \in Short /\ Address_dev[n] \in Dev
    BY <1>3 DEF RS485_HeartBeatCB, Runs
  <2>2. air' \subseteq HeartBeat \cup Command
    BY <1>3, <2>1, SentFrame DEF RS485_HeartBeatCB
  <2> QED  BY <1>3, <2>2 DEF RS485_HeartBeatCB
<1>4. ASSUME NEW p \in air \cap Command, rs485_control(n, p) PROVE IInv'
  <2>1. p.arg \in Relay
    BY <1>4 DEF Command, rs485_control
  <2> QED  BY <1>4, <2>1 DEF rs485_control, RS485_Analysis
<1>5. ASSUME NEW p \in air \cap Command, rs485_changeAddr(n, p) PROVE IInv'
  <2>1. p.arg \in Dev /\ p.head \in Dev
    BY <1>5 DEF Command, rs485_changeAddr
  <2> QED  BY <1>5, <2>1 DEF rs485_changeAddr, RS485_Analysis
<1>6. ASSUME NEW p \in air \cap Command, Ignore(n, p) PROVE IInv'
  BY <1>6 DEF Ignore, RS485_Analysis
<1>7. ASSUME WriteAddr(n) PROVE IInv'
  BY <1>7 DEF WriteAddr
<1>8. ASSUME Reset(n) PROVE IInv'
  BY <1>8, AddressAssumption DEF Reset
<1> QED  BY <1>1, <1>2, <1>3, <1>4, <1>5, <1>6, <1>7, <1>8 DEF NodeStep

\* The inductive invariant holds in every reachable state.
THEOREM Invariance == Spec => []IInv
<1>1. Init => IInv
  BY InitHolds
<1>2. IInv /\ [Next]_vars => IInv'
  <2> SUFFICES ASSUME IInv, [Next]_vars PROVE IInv'
    OBVIOUS
  <2>1. CASE Coordinator
    BY <2>1, CoordinatorStep
  <2>2. ASSUME NEW n \in Node, NodeStep(n) PROVE IInv'
    BY <2>2, NodeStepHolds
  <2>3. ASSUME NEW p \in air, Lose(p) PROVE IInv'
    BY <2>3 DEF IInv, TypeOK, OneRowPerAddress, AddressIsDurable, AddressKnown, HasShort,
                Lose, coordVars, nodeVars
  <2>4. CASE UNCHANGED vars
    BY <2>4 DEF IInv, TypeOK, OneRowPerAddress, AddressIsDurable, AddressKnown, HasShort,
                vars, coordVars, nodeVars
  <2> QED  BY <2>1, <2>2, <2>3, <2>4 DEF Next
<1> QED  BY <1>1, <1>2, PTL DEF Spec

\* Every variable keeps its type, for any set of nodes and addresses.
THEOREM TypeCorrect == Spec => []TypeOK
BY Invariance, PTL DEF IInv

\* The coordinator's table never has two rows for one RS-485 address
\* (setNodeList).
THEOREM TableIsAFunction == Spec => []OneRowPerAddress
BY Invariance, PTL DEF IInv

\* The address a node announces is the one it will read back from NV after a
\* reset (rs485_changeAddr, CommonApp_ProcessZDOStates).
THEOREM AnnouncedAddressSurvives == Spec => []AddressIsDurable
BY Invariance, PTL DEF IInv

-----------------------------------------------------------------------------
\* The addresses a node obeys commands for.
Heads(n) == {nv[n]} \cup IF beating[n] THEN {} ELSE {Zero}

LEMMA OwnHead ==
  ASSUME IInv, NEW n \in Node, pc[n] = "idle"
  PROVE  Address_dev[n] \in Heads(n)
BY DEF IInv, AddressKnown, AddressIsDurable, Heads

\* A command is executed by a node that it is sent to and that has its address.
LEMMA Obeyed ==
  ASSUME IInv, NEW n \in Node, NEW p \in air \cap Command, RS485_Analysis(n, p),
         p.head = Address_dev[n]
  PROVE  Obeys(n, p.kind, p.arg, Heads(n)) /\ short[n] # NoShort
BY OwnHead DEF RS485_Analysis, Runs, Obeys

LEMMA CommandStep ==
  ASSUME IInv, [Next]_vars, NEW n \in Node
  PROVE  CommandedBy(n, Heads(n))
<1>1. CASE Coordinator \/ (\E p \in air : Lose(p)) \/ UNCHANGED vars
  <2>1. UNCHANGED nodeVars
    BY <1>1 DEF Coordinator, createNodelist, CoordinatorReset, setNodeList, Control,
                ChangeAddr, CommonApp_RS485SendMessage, Lose, vars
  <2> QED  BY <2>1 DEF CommandedBy, nodeVars
<1>2. ASSUME NEW m \in Node, NodeStep(m) PROVE CommandedBy(n, Heads(n))
  <2>1. ASSUME NEW p \in air \cap Command, rs485_control(m, p)
        PROVE  CommandedBy(n, Heads(n))
    <3>1. UNCHANGED pc /\ (n # m => UNCHANGED Device_state[n])
      BY <2>1 DEF rs485_control, IInv, TypeOK
    <3>2. CASE n = m
      <4>1. Device_state'[n] = p.arg /\ p.kind = "KZ"
        BY <2>1, <3>2 DEF rs485_control, IInv, TypeOK
      <4>2. Obeys(n, p.kind, p.arg, Heads(n))
        BY <2>1, <3>2, Obeyed DEF rs485_control
      <4> QED  BY <3>1, <4>1, <4>2 DEF CommandedBy
    <3> QED  BY <3>1, <3>2 DEF CommandedBy
  <2>2. ASSUME NEW p \in air \cap Command, rs485_changeAddr(m, p)
        PROVE  CommandedBy(n, Heads(n))
    <3>1. UNCHANGED Device_state /\ (n # m => UNCHANGED pc[n])
      BY <2>2 DEF rs485_changeAddr, IInv, TypeOK
    <3>2. CASE n = m
      <4>1. Address_dev'[n] = p.arg /\ p.kind = "XG"
        BY <2>2, <3>2 DEF rs485_changeAddr, IInv, TypeOK
      <4>2. Obeys(n, p.kind, p.arg, Heads(n))
        BY <2>2, <3>2, Obeyed DEF rs485_changeAddr
      <4> QED  BY <3>1, <4>1, <4>2 DEF CommandedBy
    <3> QED  BY <3>1, <3>2 DEF CommandedBy
  <2>3. CASE Reset(m)
    <3>1. /\ n = m => short'[n] = NoShort /\ pc'[n] = "idle"
          /\ n # m => UNCHANGED <<Device_state[n], pc[n]>>
      BY <2>3 DEF Reset, IInv, TypeOK
    <3> QED  BY <3>1 DEF CommandedBy
  <2>4. CASE WriteAddr(m)
    <3>1. UNCHANGED Device_state /\ (n # m => UNCHANGED pc[n]) /\ (n = m => pc'[n] = "idle")
      BY <2>4 DEF WriteAddr, IInv, TypeOK
    <3> QED  BY <3>1 DEF CommandedBy
  <2>5. CASE \/ \E s \in Short : Join(m, s)
             \/ CommonApp_ProcessZDOStates(m)
             \/ RS485_HeartBeatCB(m)
             \/ \E p \in air \cap Command : Ignore(m, p)
    <3>1. UNCHANGED <<pc, Device_state>>
      BY <2>5 DEF Join, CommonApp_ProcessZDOStates, RS485_HeartBeatCB, Ignore, nodeVars
    <3> QED  BY <3>1 DEF CommandedBy
  <2> QED  BY <1>2, <2>1, <2>2, <2>3, <2>4, <2>5 DEF NodeStep
<1> QED  BY <1>1, <1>2 DEF Next

\* Relays are switched and addresses changed only in a node whose stored address
\* the command names, or in one that has not read it since its reset if the
\* command names 0: for any table, any network addresses, any addresses of the
\* devices and any frames under way (RS485_Analysis, rs485_control,
\* rs485_changeAddr).
THEOREM OnlyOwnersObey == Spec => CommandsObeyedByOwner
<1>1. IInv /\ [Next]_vars =>
        [\A n \in Node :
            CommandedBy(n, {nv[n]} \cup IF beating[n] THEN {} ELSE {Zero})]_vars
  BY CommandStep DEF Heads
<1> QED  BY <1>1, Invariance, PTL DEF Spec, CommandsObeyedByOwner

=============================================================================
