------------------------------ MODULE UartDma ------------------------------
(***************************************************************************)
(* The DMA driver of the UART that carries the RS-485 link, as the board   *)
(* builds it (9600 baud, no flow control, 32 kHz sleep timer), and the     *)
(* callback of the serial layer that empties it:                           *)
(*   Components/hal/target/CC2530EB/_hal_uart_dma.c                        *)
(*   Projects/zstack/Applications/SmartApp/Source/Manage/serial-comm.c     *)
(*                                                                         *)
(* Three actors work on one structure: the main loop (write, poll), the    *)
(* "transfer done" interrupt, and the DMA engine itself, which moves bytes *)
(* between the buffers and the UART behind the program's back.  The        *)
(* transmit and the receive half of the structure share nothing but the    *)
(* poll and the clock, so a behaviour follows one of them, chosen at       *)
(* start; this adds their states up instead of multiplying them.           *)
(*                                                                         *)
(* Time is counted in characters on the line.  The driver knows it only    *)
(* through the low byte of the sleep timer, whose differences wrap at      *)
(* Wrap.  A byte is represented by its number in its stream, modulo a      *)
(* bound that no buffer can hide: the driver never looks at the contents.  *)
(***************************************************************************)
EXTENDS Integers, Sequences, FiniteSets

CONSTANTS
    TxMax,       \* HAL_UART_DMA_TX_MAX: size of each of the two transmit buffers
    TxTick,      \* one character time, what the poll waits after a transfer
    TxMaxGap,    \* bound on the time between two polls, transmit side
    RxMax,       \* HAL_UART_DMA_RX_MAX: slots of the receive ring
    RxHigh,      \* HAL_UART_DMA_HIGH
    RxFull,      \* HAL_UART_DMA_FULL
    RxIdle,      \* HAL_UART_DMA_IDLE
    RxMaxGap,    \* bound on the time between two polls, receive side
    ReadMax,     \* SERIAL_COM_TX_MAX: bytes one callback takes from the ring
    FrameMax,    \* FRAME_DATA_LENGTH: bytes of them it hands on
    Wrap         \* 256: differences of the sleep timer's low byte

ASSUME UartAssumption ==
    /\ {TxMax, TxTick, RxMax, RxHigh, RxFull, RxIdle, ReadMax, FrameMax, Wrap}
         \subseteq Nat \ {0}
    /\ {TxMaxGap, RxMaxGap} \subseteq Nat \ {0}
    /\ RxIdle < Wrap /\ TxTick < Wrap
    /\ FrameMax <= ReadMax

VARIABLES
    lane,          \* the half of the driver this behaviour follows
    gap,           \* time since the last poll
    \* transmit
    txBuf,         \* the two buffers; Len(txBuf[b]) is txIdx[b]
    txSel,         \* the buffer that writes go to
    txDMAPending,  \* a transfer is to be started by a poll
    txShdwValid,   \* the poll still waits for the last character
    txLapse,       \* ST0 - txShdw, a byte
    writing,       \* HalUARTWrite between its two critical sections
    dma,           \* the transmit channel: armed, buffer, next byte, length
    irq,           \* its interrupt flag
    wrote, sent,   \* history: bytes accepted, bytes moved to the UART
    dbufAge,       \* history: time since a byte was moved to the UART
    \* receive
    rxBuf,         \* the ring; Empty where the slot carries no new byte
    rxHead, rxTail,
    rxTick,        \* what is left of the idle time
    rxLapse,       \* ST0 - rxShdw, a byte
    dmaIdx,        \* the slot the receive channel fills next
    event,         \* the event the poll reports in its callback
    heard,         \* a byte has been on the line in this character time
    came, got,     \* history: bytes received, bytes taken by the callback
    late           \* history: bytes received since the last poll ended

txVars == <<txBuf, txSel, txDMAPending, txShdwValid, txLapse, writing, dma, irq,
            wrote, sent, dbufAge>>
rxVars == <<rxBuf, rxHead, rxTail, rxTick, rxLapse, dmaIdx, event, heard,
            came, got, late>>
vars == <<lane, gap, txVars, rxVars>>

Empty == -1                 \* a slot the program has cleared: no DMA_PAD
TxNum == 2 * TxMax + 1      \* byte numbers, so that two buffers hold no number twice
RxNum == 2 * RxMax          \* one lap of the ring is told from the next

Numbers(from, n, mod) == [i \in 1..n |-> (from + i - 1) % mod]

-----------------------------------------------------------------------------
(* Transmit.                                                                *)

Idle == [armed |-> FALSE, buf |-> 0, pos |-> 1, len |-> 0]
NotWriting == [sel |-> 0, idx |-> 0, len |-> 0]

(* Mutant: the room left in the buffer is not looked at.                    *)
HalUARTWrite_Unchecked(len) ==
    /\ lane = "tx" /\ writing = NotWriting
    /\ len <= TxMax
    /\ writing' = [sel |-> txSel, idx |-> Len(txBuf[txSel]), len |-> len]
    /\ UNCHANGED <<lane, gap, txBuf, txSel, txDMAPending, txShdwValid, txLapse,
                   dma, irq, wrote, sent, dbufAge, rxVars>>

(* HalUARTWriteDMA: all or nothing, then the buffer and the index are read. *)
HalUARTWrite(len) ==
    /\ lane = "tx" /\ writing = NotWriting
    /\ len + Len(txBuf[txSel]) <= TxMax
    /\ writing' = [sel |-> txSel, idx |-> Len(txBuf[txSel]), len |-> len]
    /\ UNCHANGED <<lane, gap, txBuf, txSel, txDMAPending, txShdwValid, txLapse,
                   dma, irq, wrote, sent, dbufAge, rxVars>>

(* Mutant: each write asks for a transfer, whatever is under way.           *)
HalUARTWriteDone_AlwaysPending ==
    /\ lane = "tx" /\ writing # NotWriting
    /\ txBuf' = [txBuf EXCEPT ![txSel] =
                   SubSeq(@, 1, writing.idx) \o Numbers(wrote, writing.len, TxNum)]
    /\ wrote' = (wrote + writing.len) % TxNum
    /\ txDMAPending' = TRUE
    /\ writing' = NotWriting
    /\ UNCHANGED <<lane, gap, txSel, txShdwValid, txLapse, dma, irq, sent, dbufAge,
                   rxVars>>

(* Its second critical section publishes the bytes; if the other buffer is *)
(* empty nothing is under way and a transfer is asked for.  The bytes are   *)
(* copied again if the buffers have changed places meanwhile.               *)
HalUARTWriteDone ==
    /\ lane = "tx" /\ writing # NotWriting
    /\ LET at   == IF txSel = writing.sel THEN writing.idx ELSE Len(txBuf[txSel])
           data == Numbers(wrote, writing.len, TxNum)
       IN  txBuf' = [txBuf EXCEPT ![txSel] = SubSeq(@, 1, at) \o data]
    /\ wrote' = (wrote + writing.len) % TxNum
    /\ txDMAPending' = (txDMAPending \/ txBuf[1 - txSel] = <<>>)
    /\ writing' = NotWriting
    /\ UNCHANGED <<lane, gap, txSel, txShdwValid, txLapse, dma, irq, sent, dbufAge,
                   rxVars>>

(* The DMA engine moves the next byte to the UART; after the last one the   *)
(* channel disarms itself and raises its interrupt flag.                    *)
DmaByte ==
    /\ lane = "tx" /\ dma.armed
    /\ sent' = (sent + 1) % TxNum
    /\ dbufAge' = 0
    /\ \/ /\ dma.pos < dma.len
          /\ dma' = [dma EXCEPT !.pos = @ + 1]
          /\ UNCHANGED irq
       \/ /\ dma.pos >= dma.len
          /\ dma' = Idle
          /\ irq' = TRUE
    /\ UNCHANGED <<lane, gap, txBuf, txSel, txDMAPending, txShdwValid, txLapse,
                   writing, wrote, rxVars>>

(* Mutant: the moment of the interrupt is not recorded.                     *)
HalUARTIsrDMA_NoShadow ==
    /\ irq' = FALSE
    /\ txBuf' = [txBuf EXCEPT ![1 - txSel] = <<>>]
    /\ txDMAPending' = (txDMAPending \/ txBuf[txSel] # <<>>)
    /\ UNCHANGED <<txShdwValid, txLapse>>

(* Mutant: the handler does not look for bytes queued meanwhile.            *)
HalUARTIsrDMA_NoRestart ==
    /\ irq' = FALSE
    /\ txBuf' = [txBuf EXCEPT ![1 - txSel] = <<>>]
    /\ txShdwValid' = TRUE
    /\ txLapse' = 0
    /\ UNCHANGED txDMAPending

(* HalUARTIsrDMA: the other buffer is free; the poll is to wait for the     *)
(* last character, and to start on what has been queued meanwhile.          *)
HalUARTIsrDMA ==
    /\ irq' = FALSE
    /\ txBuf' = [txBuf EXCEPT ![1 - txSel] = <<>>]
    /\ txShdwValid' = TRUE
    /\ txLapse' = 0
    /\ txDMAPending' = (txDMAPending \/ txBuf[txSel] # <<>>)

DmaIsr ==
    /\ lane = "tx" /\ irq
    /\ HalUARTIsrDMA
    /\ UNCHANGED <<lane, gap, txSel, writing, dma, wrote, sent, dbufAge, rxVars>>

(* The shadow is dropped once more than a character time has passed.        *)
StillWaits == txShdwValid /\ txLapse <= TxTick

(* The poll starts the pending transfer and turns to the other buffer.      *)
Fire ==
    /\ txDMAPending /\ ~StillWaits
    /\ dma' = [armed |-> TRUE, buf |-> txSel, pos |-> 1, len |-> Len(txBuf[txSel])]
    /\ txDMAPending' = FALSE
    /\ txSel' = 1 - txSel
    /\ irq' = FALSE
    /\ txShdwValid' = FALSE /\ txLapse' = 0
    /\ UNCHANGED txBuf

(* Otherwise, if bytes are queued and the channel is quiet, it calls the    *)
(* interrupt handler itself.                                                *)
Unfired == ~txDMAPending \/ StillWaits

(* Mutant: the handler is called while the channel is still transferring.   *)
Rekick_WhileArmed ==
    /\ Unfired
    /\ txBuf[txSel] # <<>> /\ ~irq
    /\ HalUARTIsrDMA
    /\ UNCHANGED <<txSel, dma>>

Rekick ==
    /\ Unfired
    /\ txBuf[txSel] # <<>> /\ ~dma.armed /\ ~irq
    /\ HalUARTIsrDMA
    /\ UNCHANGED <<txSel, dma>>

Pass ==
    /\ Unfired
    /\ txBuf[txSel] = <<>> \/ dma.armed \/ irq
    /\ txShdwValid' = StillWaits
    /\ txLapse' = IF StillWaits THEN txLapse ELSE 0
    /\ UNCHANGED <<txBuf, txSel, txDMAPending, dma, irq>>

(* HalUARTPollDMA, transmit part.  It runs in the loop that also writes.    *)
TxPoll ==
    /\ lane = "tx" /\ writing = NotWriting
    /\ Fire \/ Rekick \/ Pass
    /\ gap' = 0
    /\ UNCHANGED <<lane, writing, wrote, sent, dbufAge, rxVars>>

-----------------------------------------------------------------------------
(* Receive.                                                                 *)

Filled == {i \in 0..RxMax-1 : rxBuf[i] # Empty}
IsNew(i) == rxBuf[i] # Empty
Ahead(i, n) == (i + n) % RxMax

(* findTail: the first slot from the head on that carries no new byte.      *)
FindTail ==
    LET run == {n \in 0..RxMax-1 : \A m \in 0..n : IsNew(Ahead(rxHead, m))}
    IN  Ahead(rxHead, Cardinality(run))

(* The receive channel stores a byte: at most one per character time.       *)
RxByte ==
    /\ lane = "rx" /\ ~heard
    /\ rxBuf' = [rxBuf EXCEPT ![dmaIdx] = came]
    /\ dmaIdx' = Ahead(dmaIdx, 1)
    /\ came' = (came + 1) % RxNum
    /\ heard' = TRUE
    /\ late' = late + 1
    /\ UNCHANGED <<lane, gap, txVars, rxHead, rxTail, rxTick, rxLapse, event, got>>

(* Mutant: only the first byte starts the timer.                            *)
IdleTimer_NoReload ==
    IF rxTail # FindTail /\ rxTick = 0
      THEN rxTail' = FindTail /\ rxTick' = RxIdle /\ rxLapse' = 0
      ELSE /\ rxTick' = IF rxTick > rxLapse THEN rxTick - rxLapse ELSE 0
           /\ rxLapse' = 0
           /\ rxTail' = FindTail

(* Mutant: the shadow is taken before the difference.                       *)
IdleTimer_ResyncsFirst ==
    IF rxTail # FindTail
      THEN rxTail' = FindTail /\ rxTick' = RxIdle /\ rxLapse' = 0
      ELSE rxLapse' = 0 /\ UNCHANGED <<rxTick, rxTail>>

(* The idle timer in the poll: restarted by new bytes, else counted down by *)
(* what the sleep timer says has passed since the shadow.  The shadow is    *)
(* taken again on the first byte and on each count, not on the bytes after. *)
IdleTimer ==
    IF rxTail # FindTail
      THEN /\ rxTail' = FindTail
           /\ rxTick' = RxIdle
           /\ rxLapse' = IF rxTick = 0 THEN 0 ELSE rxLapse
      ELSE /\ rxTick' = IF rxTick > rxLapse THEN rxTick - rxLapse ELSE 0
           /\ rxLapse' = 0
           /\ UNCHANGED rxTail

(* Mutant: the threshold is passed one byte later.                          *)
EventFor_AboveHigh(cnt) ==
    CASE cnt >= RxFull -> "full"
      [] cnt > RxHigh /\ cnt < RxFull -> "aboutFull"
      [] cnt <= RxHigh /\ cnt > 0 /\ rxTick = 0 -> "timeout"
      [] OTHER -> "none"

EventFor(cnt) ==
    CASE cnt >= RxFull -> "full"
      [] cnt >= RxHigh /\ cnt < RxFull -> "aboutFull"
      [] cnt < RxHigh /\ cnt > 0 /\ rxTick = 0 -> "timeout"
      [] OTHER -> "none"

(* HalUARTPollDMA, receive part.  With nothing at the head it is over; else *)
(* it looks for the tail and runs the timer, ...                            *)
RxPoll ==
    /\ lane = "rx" /\ event = "none"
    /\ \/ /\ IsNew(rxHead)
          /\ IdleTimer
          /\ event' = "count"
          /\ UNCHANGED late
       \/ /\ ~IsNew(rxHead)
          /\ rxTick' = 0 /\ rxLapse' = 0 /\ late' = 0
          /\ UNCHANGED <<rxTail, event>>
    /\ gap' = 0
    /\ UNCHANGED <<lane, txVars, rxBuf, rxHead, dmaIdx, heard, came, got>>

(* ... and then counts the new bytes (HalUARTRxAvailDMA), one more of which *)
(* may have come in meanwhile, and settles the event.                       *)
RxCount ==
    /\ lane = "rx" /\ event = "count"
    /\ event' = EventFor(Cardinality(Filled))
    /\ late' = IF event' = "none" THEN 0 ELSE late
    /\ UNCHANGED <<lane, gap, txVars, rxBuf, rxHead, rxTail, rxTick, rxLapse, dmaIdx,
                   heard, came, got>>

(* HalUARTReadDMA: what is there from the head on, up to the length asked   *)
(* for.                                                                     *)
ReadCount(len) ==
    Cardinality({n \in 0..len-1 : n < RxMax /\ \A m \in 0..n : IsNew(Ahead(rxHead, m))})

(* SerialTx_CallBack: takes up to ReadMax bytes and hands on the first      *)
(* FrameMax of them.                                                        *)
HandedOn(n) == IF n < FrameMax THEN n ELSE FrameMax

SerialTx_CallBack ==
    /\ lane = "rx" /\ event \notin {"none", "count"}
    /\ LET n == ReadCount(ReadMax)
       IN  /\ rxBuf' = [i \in 0..RxMax-1 |->
                          IF \E m \in 0..n-1 : i = Ahead(rxHead, m) THEN Empty ELSE rxBuf[i]]
           /\ rxHead' = Ahead(rxHead, n)
           /\ got' = (got + n) % RxNum
    /\ event' = "none" /\ late' = 0
    /\ UNCHANGED <<lane, gap, txVars, rxTail, rxTick, rxLapse, dmaIdx, heard, came>>

-----------------------------------------------------------------------------
(* One character time passes; a receive poll is shorter than that.  The     *)
(* loop comes back to the poll in time: a bound on how late it may be, not  *)
(* a promise of the code.                                                   *)
Tick ==
    /\ gap < IF lane = "tx" THEN TxMaxGap ELSE RxMaxGap
    /\ event = "none"
    /\ gap' = gap + 1
    /\ dbufAge' = IF dbufAge > TxTick THEN dbufAge ELSE dbufAge + 1
    /\ txLapse' = IF txShdwValid THEN (txLapse + 1) % Wrap ELSE 0
    /\ rxLapse' = IF rxTick # 0 THEN (rxLapse + 1) % Wrap ELSE 0
    /\ heard' = FALSE
    /\ UNCHANGED <<lane, txBuf, txSel, txDMAPending, txShdwValid, writing, dma, irq,
                   wrote, sent, rxBuf, rxHead, rxTail, rxTick, dmaIdx, event,
                   came, got, late>>

(* HalUARTOpenDMA on the structure in cleared memory.                       *)
Init ==
    /\ lane \in {"tx", "rx"}
    /\ gap = 0
    /\ txBuf = [b \in 0..1 |-> <<>>] /\ txSel = 0
    /\ txDMAPending = FALSE /\ txShdwValid = FALSE /\ txLapse = 0
    /\ writing = NotWriting /\ dma = Idle /\ irq = FALSE
    /\ wrote = 0 /\ sent = 0 /\ dbufAge = TxTick + 1
    /\ rxBuf = [i \in 0..RxMax-1 |-> Empty]
    /\ rxHead = 0 /\ rxTail = 0 /\ rxTick = 0 /\ rxLapse = 0 /\ dmaIdx = 0
    /\ event = "none" /\ heard = FALSE /\ came = 0 /\ got = 0 /\ late = 0

Next ==
    \/ \E len \in 1..TxMax : HalUARTWrite(len)
    \/ HalUARTWriteDone
    \/ DmaByte
    \/ DmaIsr
    \/ TxPoll
    \/ RxByte
    \/ RxPoll
    \/ RxCount
    \/ SerialTx_CallBack
    \/ Tick

(* The loop keeps going round, the clock and the engine keep running and    *)
(* the interrupt is taken.  Strong fairness of the clock only undoes that   *)
(* a tick is not taken inside a poll.  Nobody is obliged to write or send.  *)
Spec ==
    /\ Init /\ [][Next]_vars
    /\ WF_vars(HalUARTWriteDone) /\ WF_vars(DmaByte) /\ WF_vars(DmaIsr)
    /\ WF_vars(TxPoll) /\ WF_vars(RxPoll) /\ WF_vars(RxCount)
    /\ WF_vars(SerialTx_CallBack) /\ SF_vars(Tick)

-----------------------------------------------------------------------------
(* Type invariant.                                                          *)
TypeOK ==
    /\ lane \in {"tx", "rx"} /\ gap \in Nat
    /\ txBuf \in [0..1 -> Seq(0..TxNum-1)] /\ \A b \in 0..1 : Len(txBuf[b]) <= TxMax
    /\ txSel \in 0..1 /\ {txDMAPending, txShdwValid, irq, heard} \subseteq BOOLEAN
    /\ txLapse \in 0..Wrap-1
    /\ writing \in [sel : 0..1, idx : 0..TxMax, len : 0..TxMax]
    /\ dma \in [armed : BOOLEAN, buf : 0..1, pos : 1..TxMax, len : 0..TxMax]
    /\ wrote \in 0..TxNum-1 /\ sent \in 0..TxNum-1 /\ dbufAge \in 0..TxTick+1
    /\ rxBuf \in [0..RxMax-1 -> (0..RxNum-1) \cup {Empty}]
    /\ {rxHead, rxTail, dmaIdx} \subseteq 0..RxMax-1
    /\ rxTick \in 0..RxIdle /\ rxLapse \in 0..Wrap-1
    /\ event \in {"none", "count", "full", "aboutFull", "timeout"}
    /\ came \in 0..RxNum-1 /\ got \in 0..RxNum-1 /\ late \in Nat

InFlight ==
    IF dma.armed /\ dma.len <= Len(txBuf[dma.buf]) THEN SubSeq(txBuf[dma.buf], dma.pos, dma.len) ELSE <<>>

(* Transmit: the bytes the engine still has to move followed by those       *)
(* queued are exactly the bytes accepted and not yet sent, in order.        *)
TxStreamIntact ==
    LET left == InFlight \o txBuf[txSel]
    IN  left = Numbers(sent, Len(left), TxNum) /\ (sent + Len(left)) % TxNum = wrote

(* Receive: the slots with new bytes are those from the head to where the   *)
(* engine writes, and carry the bytes received and not yet read, in order.  *)
RxRingSound ==
    LET n == Cardinality(Filled)
    IN  /\ Filled = {Ahead(rxHead, m) : m \in 0..n-1}
        /\ dmaIdx = Ahead(rxHead, n)
        /\ \A m \in 0..n-1 : rxBuf[Ahead(rxHead, m)] = (got + m) % RxNum
        /\ came = (got + n) % RxNum

(* Whatever the order of write, transfer, interrupt, poll and arriving      *)
(* bytes, none is lost, doubled or overtaken: although the engine reads a   *)
(* transmit buffer while the program fills the other and the two change     *)
(* places, and although it fills the ring while the callback empties it     *)
(* (which it does not overrun within the bound on the loop).                *)
BytesInOrder == IF lane = "tx" THEN TxStreamIntact ELSE RxRingSound

(* The comment in the poll that txShdwValid needs no protection, "because   *)
(* while the shadow was valid, DMA ISR cannot be triggered": while a poll   *)
(* waits for the line, or has a transfer to start, the channel is idle and  *)
(* no interrupt is outstanding; and a pending transfer has bytes to move.   *)
IsrIsExcluded ==
    /\ txShdwValid \/ txDMAPending => ~dma.armed /\ ~irq
    /\ txDMAPending => txBuf[txSel] # <<>>

(* No transfer starts within a character time of the byte before it, so the *)
(* first byte does not overwrite the last one in the UART, although the age *)
(* is only known modulo the sleep timer's byte ("so that DMA does not       *)
(* overwrite UART DBUF of previous packet").                                *)
NoEarlyFire == [][~dma.armed /\ dma'.armed => dbufAge > TxTick]_vars

(* As long as the loop is now and then away for more than a character time  *)
(* (and less than the timer's wrap), queued bytes are sent.                 *)
SlowPoll == TxPoll /\ gap > TxTick /\ gap < Wrap
QueuedIsSentBySlowPolls ==
    []<><<SlowPoll>>_vars => (txBuf[txSel] # <<>> ~> dma.armed)

(* The interrupt handler says of bytes queued behind a transfer "re-start   *)
(* the DMA immediately on it": they are sent.                               *)
QueuedIsSent == txBuf[txSel] # <<>> ~> dma.armed

(* When the callback may throw bytes away, and when silence may end a       *)
(* frame.  It throws away what it reads beyond a frame only if more than    *)
(* one byte has arrived since the poll before; a frame is cut off for       *)
(* silence only if nothing has come in since then, but for a byte that      *)
(* slips in during this poll ("If the DMA has transferred in more Rx bytes, *)
(* reset the Rx idle timer").                                               *)
FramesKeptUnlessLate ==
    [][/\ SerialTx_CallBack /\ HandedOn(ReadCount(ReadMax)) < ReadCount(ReadMax)
            => late > 1
       /\ event # "timeout" /\ event' = "timeout" => late <= 1]_vars

(* Received bytes are handed on in the end, however few they are.           *)
RxHandedOn == IsNew(rxHead) ~> event \notin {"none", "count"}
=============================================================================
