--------------------------- MODULE UartDma_proofs ---------------------------
(***************************************************************************)
(* Proofs about the UART driver, for any sizes of the buffers, any times   *)
(* and any lateness of the loop: its types, the claim that the interrupt   *)
(* is excluded while the poll waits, that no transfer starts too early,    *)
(* and that the bytes accepted for transmission leave in order.            *)
(***************************************************************************)
EXTENDS UartDma, FiniteSetTheorems, SequenceTheorems, TLAPS

(* What the poll and the interrupt rely on without saying it.  A write      *)
(* between its critical sections still sees its buffer (no poll runs in     *)
(* between); a transfer keeps its buffer's bytes until its interrupt.       *)
WriteInv ==
    writing # NotWriting =>
        /\ writing.len >= 1
        /\ writing.sel = txSel
        /\ writing.idx = Len(txBuf[txSel])
        /\ writing.idx + writing.len <= TxMax

Quiet == ~dma.armed /\ ~irq

TransferInv ==
    /\ ~(dma.armed /\ irq)
    /\ ~Quiet => txBuf[1 - txSel] # <<>>

(* The shadow is at least as young as the last byte; without it and with    *)
(* the channel quiet, the last byte is old.                                 *)
ShadowInv ==
    /\ Quiet /\ ~txShdwValid => dbufAge > TxTick
    /\ txShdwValid => txLapse <= dbufAge \/ dbufAge > TxTick

Driver == WriteInv /\ TransferInv /\ IsrIsExcluded /\ ShadowInv
Inv == TypeOK /\ Driver


-----------------------------------------------------------------------------
(* A run of byte numbers is a sequence of that length.                      *)
LEMMA NumbersType ==
    ASSUME NEW from \in Nat, NEW n \in Nat, NEW mod \in Nat \ {0}
    PROVE  /\ Numbers(from, n, mod) \in Seq(0..mod-1)
           /\ Len(Numbers(from, n, mod)) = n
<1>1. \A i \in 1..n : (from + i - 1) % mod \in 0..mod-1
  OBVIOUS
<1>2. Numbers(from, n, mod) \in [1..n -> 0..mod-1]
  BY <1>1 DEF Numbers
<1> QED
  BY <1>2

(* Steps round the ring stay on it.                                         *)
LEMMA AheadType ==
    ASSUME UartAssumption, NEW i \in Nat, NEW n \in Nat
    PROVE  Ahead(i, n) \in 0..RxMax-1
BY DEF Ahead, UartAssumption

(* The tail found is a slot of the ring.                                    *)
LEMMA FindTailType ==
    ASSUME UartAssumption, TypeOK
    PROVE  FindTail \in 0..RxMax-1
<1> DEFINE run == {n \in 0..RxMax-1 : \A m \in 0..n : IsNew(Ahead(rxHead, m))}
<1>1. IsFiniteSet(0..RxMax-1)
  BY FS_Interval DEF UartAssumption
<1>2. Cardinality(run) \in Nat
  BY <1>1, FS_Subset, FS_CardinalityType
<1>3. rxHead \in Nat
  BY DEF TypeOK, UartAssumption
<1> QED
  BY <1>2, <1>3, AheadType DEF FindTail

(* A read takes a number of bytes.                                          *)
LEMMA ReadCountType ==
    ASSUME NEW len \in Nat
    PROVE  ReadCount(len) \in Nat
<1>1. IsFiniteSet(0..len-1)
  BY FS_Interval
<1> QED
  BY <1>1, FS_Subset, FS_CardinalityType DEF ReadCount

(* What the handler leaves behind, whoever calls it: both buffers typed,    *)
(* the freed one empty, the other untouched.                                *)
LEMMA IsrType ==
    ASSUME UartAssumption, TypeOK, HalUARTIsrDMA
    PROVE  /\ txBuf' \in [0..1 -> Seq(0..TxNum-1)]
           /\ \A b \in 0..1 : Len(txBuf'[b]) <= TxMax
           /\ txBuf'[txSel] = txBuf[txSel] /\ txBuf'[1 - txSel] = <<>>
           /\ txDMAPending' \in BOOLEAN /\ txShdwValid' \in BOOLEAN /\ irq' \in BOOLEAN
           /\ txLapse' \in 0..Wrap-1
<1>1. <<>> \in Seq(0..TxNum-1) /\ Len(<<>>) = 0
  BY EmptySeq
<1>2. txSel \in 0..1 /\ 1 - txSel \in 0..1 /\ 1 - txSel # txSel
  BY DEF TypeOK
<1>3. txBuf' = [txBuf EXCEPT ![1 - txSel] = <<>>]
  BY DEF HalUARTIsrDMA
<1>4. txBuf' \in [0..1 -> Seq(0..TxNum-1)] /\ \A b \in 0..1 : Len(txBuf'[b]) <= TxMax
  <2>1. txBuf \in [0..1 -> Seq(0..TxNum-1)] /\ \A b \in 0..1 : Len(txBuf[b]) <= TxMax
    BY DEF TypeOK
  <2>2. \A b \in 0..1 : txBuf'[b] = IF b = 1 - txSel THEN <<>> ELSE txBuf[b]
    BY <1>3, <2>1
  <2>3. 0 <= TxMax
    BY DEF UartAssumption
  <2>4. txBuf' \in [0..1 -> Seq(0..TxNum-1)]
    BY <1>1, <1>3, <2>1
  <2> QED
    BY <1>1, <2>1, <2>2, <2>3, <2>4
<1>5. txBuf'[txSel] = txBuf[txSel] /\ txBuf'[1 - txSel] = <<>>
  BY <1>2, <1>3 DEF TypeOK
<1>6. txDMAPending' \in BOOLEAN /\ txShdwValid' \in BOOLEAN /\ irq' \in BOOLEAN
  BY DEF HalUARTIsrDMA, TypeOK
<1>7. txLapse' \in 0..Wrap-1
  BY DEF HalUARTIsrDMA, UartAssumption
<1> QED
  BY <1>4, <1>5, <1>6, <1>7

(* The second critical section of a write appends to what is there.         *)
LEMMA WriteDoneAppends ==
    ASSUME UartAssumption, TypeOK, WriteInv, HalUARTWriteDone
    PROVE  /\ txBuf' \in [0..1 -> Seq(0..TxNum-1)]
           /\ \A b \in 0..1 : Len(txBuf'[b]) <= TxMax
           /\ txBuf'[1 - txSel] = txBuf[1 - txSel]
           /\ Len(txBuf'[txSel]) > 0
<1> DEFINE old  == txBuf[txSel]
           data == Numbers(wrote, writing.len, TxNum)
           new  == SubSeq(old, 1, writing.idx) \o data
<1>1. txSel \in 0..1 /\ 1 - txSel \in 0..1 /\ 1 - txSel # txSel
  BY DEF TypeOK
<1>2. old \in Seq(0..TxNum-1)
  BY <1>1 DEF TypeOK
<1>3. /\ writing.len \in Nat /\ writing.len >= 1 /\ writing.sel = txSel
      /\ writing.idx = Len(old) /\ writing.idx + writing.len <= TxMax
  BY DEF WriteInv, HalUARTWriteDone, TypeOK
<1>4. SubSeq(old, 1, writing.idx) = old
  BY <1>2, <1>3, SubSeqFull
<1>5. TxNum \in Nat \ {0} /\ wrote \in Nat
  <2>1. TxMax \in Nat \ {0}
    BY DEF UartAssumption
  <2>2. TxNum \in Nat \ {0}
    BY <2>1 DEF TxNum
  <2>3. wrote \in 0..TxNum-1
    BY DEF TypeOK
  <2> QED
    BY <2>2, <2>3
<1>6. data \in Seq(0..TxNum-1) /\ Len(data) = writing.len
  <2> HIDE DEF data
  <2>1. data = Numbers(wrote, writing.len, TxNum)
    BY DEF data
  <2> QED
    BY <1>3, <1>5, <2>1, NumbersType
<1>7. new \in Seq(0..TxNum-1) /\ Len(new) = Len(old) + writing.len
  <2>1. old \o data \in Seq(0..TxNum-1) /\ Len(old \o data) = Len(old) + Len(data)
    <3> HIDE DEF old, data
    <3> QED
      BY <1>2, <1>6, ConcatProperties
  <2>2. new = old \o data
    BY <1>4
  <2> QED
    BY <1>6, <2>1, <2>2
<1>8. txBuf' = [txBuf EXCEPT ![txSel] = new]
  BY <1>3 DEF HalUARTWriteDone
<1>9. Len(old) \in Nat
  BY <1>2
<1>10. Len(new) <= TxMax /\ Len(new) > 0
  <2> HIDE DEF old, new
  <2> QED
    BY <1>3, <1>7, <1>9
<1>11. \A b \in 0..1 : txBuf'[b] = IF b = txSel THEN new ELSE txBuf[b]
  <2> HIDE DEF new
  <2> QED
    BY <1>1, <1>8 DEF TypeOK
<1> HIDE DEF new
<1>12. txBuf' \in [0..1 -> Seq(0..TxNum-1)]
  BY <1>1, <1>7, <1>8 DEF TypeOK
<1> QED
  BY <1>1, <1>10, <1>11, <1>12 DEF TypeOK

-----------------------------------------------------------------------------
(* The variables of the transmit half have their types.                     *)
TxTyped ==
    /\ txBuf \in [0..1 -> Seq(0..TxNum-1)] /\ \A b \in 0..1 : Len(txBuf[b]) <= TxMax
    /\ txSel \in 0..1 /\ {txDMAPending, txShdwValid, irq} \subseteq BOOLEAN
    /\ txLapse \in 0..Wrap-1
    /\ writing \in [sel : 0..1, idx : 0..TxMax, len : 0..TxMax]
    /\ dma \in [armed : BOOLEAN, buf : 0..1, pos : 1..TxMax, len : 0..TxMax]
    /\ wrote \in 0..TxNum-1 /\ sent \in 0..TxNum-1 /\ dbufAge \in 0..TxTick+1

RxTyped ==
    /\ rxBuf \in [0..RxMax-1 -> (0..RxNum-1) \cup {Empty}]
    /\ {rxHead, rxTail, dmaIdx} \subseteq 0..RxMax-1
    /\ rxTick \in 0..RxIdle /\ rxLapse \in 0..Wrap-1
    /\ event \in {"none", "count", "full", "aboutFull", "timeout"}
    /\ heard \in BOOLEAN
    /\ came \in 0..RxNum-1 /\ got \in 0..RxNum-1 /\ late \in Nat

LEMMA TypeSplits == TypeOK <=> lane \in {"tx", "rx"} /\ gap \in Nat /\ TxTyped /\ RxTyped
BY DEF TypeOK, TxTyped, RxTyped

(* The initial structure satisfies the invariant.                           *)
LEMMA InitInv ==
    ASSUME UartAssumption, Init
    PROVE  Inv
<1>1. TypeOK
  <2>1. <<>> \in Seq(0..TxNum-1) /\ Len(<<>>) = 0
    BY EmptySeq
  <2>2. /\ txBuf \in [0..1 -> Seq(0..TxNum-1)]
        /\ \A b \in 0..1 : Len(txBuf[b]) <= TxMax
    BY <2>1 DEF Init, UartAssumption
  <2>3. rxBuf \in [0..RxMax-1 -> (0..RxNum-1) \cup {Empty}]
    BY DEF Init
  <2>4. writing \in [sel : 0..1, idx : 0..TxMax, len : 0..TxMax]
    BY DEF Init, NotWriting, UartAssumption
  <2>5. dma \in [armed : BOOLEAN, buf : 0..1, pos : 1..TxMax, len : 0..TxMax]
    BY DEF Init, Idle, UartAssumption
  <2>6. 0 \in 0..TxNum-1 /\ 0 \in 0..RxNum-1
    BY DEF UartAssumption, TxNum, RxNum
  <2>7. 0 \in 0..Wrap-1 /\ 0 \in 0..RxMax-1 /\ 0 \in 0..RxIdle /\ TxTick+1 \in 0..TxTick+1
    BY DEF UartAssumption
  <2>8. TxTyped
    <3>1. {txDMAPending, txShdwValid, irq} \subseteq BOOLEAN
      BY DEF Init
    <3>2. /\ txSel \in 0..1 /\ txLapse \in 0..Wrap-1 /\ dbufAge \in 0..TxTick+1
          /\ wrote \in 0..TxNum-1 /\ sent \in 0..TxNum-1
      BY <2>6, <2>7 DEF Init
    <3> QED
      BY <2>2, <2>4, <2>5, <3>1, <3>2 DEF TxTyped
  <2>9. RxTyped
    BY <2>3, <2>6, <2>7 DEF Init, RxTyped
  <2> QED
    BY <2>8, <2>9, TypeSplits DEF Init
<1>2. Driver
  BY DEF Init, Driver, WriteInv, TransferInv, IsrIsExcluded, ShadowInv, Quiet, Idle, UartAssumption
<1> QED
  BY <1>1, <1>2 DEF Inv

(* The same facts one by one, in the form the steps need them.              *)
LEMMA ConstFacts ==
    ASSUME UartAssumption
    PROVE  /\ TxMax \in Nat /\ TxMax >= 1 /\ TxTick \in Nat /\ TxTick >= 1
           /\ TxTick < Wrap /\ Wrap \in Nat /\ Wrap >= 1
           /\ RxMax \in Nat /\ RxMax >= 1 /\ RxIdle \in Nat /\ ReadMax \in Nat
           /\ TxNum \in Nat \ {0} /\ RxNum \in Nat \ {0}
<1>1. /\ TxMax \in Nat \ {0} /\ TxTick \in Nat \ {0} /\ Wrap \in Nat \ {0}
      /\ RxMax \in Nat \ {0} /\ RxIdle \in Nat \ {0} /\ ReadMax \in Nat \ {0}
      /\ TxTick < Wrap
  BY DEF UartAssumption
<1> QED
  BY <1>1 DEF TxNum, RxNum

LEMMA TxFacts ==
    ASSUME UartAssumption, TxTyped
    PROVE  /\ txBuf \in [0..1 -> Seq(0..TxNum-1)]
           /\ \A b \in 0..1 : Len(txBuf[b]) \in Nat /\ Len(txBuf[b]) <= TxMax
           /\ txSel \in 0..1 /\ 1 - txSel \in 0..1
           /\ txDMAPending \in BOOLEAN /\ txShdwValid \in BOOLEAN /\ irq \in BOOLEAN
           /\ txLapse \in Nat /\ txLapse < Wrap
           /\ writing.sel \in 0..1 /\ writing.idx \in 0..TxMax /\ writing.len \in 0..TxMax
           /\ dma = [armed |-> dma.armed, buf |-> dma.buf, pos |-> dma.pos, len |-> dma.len]
           /\ dma.armed \in BOOLEAN /\ dma.buf \in 0..1
           /\ dma.pos \in 1..TxMax /\ dma.len \in 0..TxMax
           /\ wrote \in Nat /\ sent \in Nat
           /\ dbufAge \in Nat /\ dbufAge <= TxTick + 1
<1>1. /\ txBuf \in [0..1 -> Seq(0..TxNum-1)] /\ \A b \in 0..1 : Len(txBuf[b]) <= TxMax
      /\ txSel \in 0..1 /\ txLapse \in 0..Wrap-1
  BY DEF TxTyped
<1>2. \A b \in 0..1 : Len(txBuf[b]) \in Nat
  BY <1>1
<1>3. txDMAPending \in BOOLEAN /\ txShdwValid \in BOOLEAN /\ irq \in BOOLEAN
  BY Zenon DEF TxTyped
<1>4. writing \in [sel : 0..1, idx : 0..TxMax, len : 0..TxMax]
  BY DEF TxTyped
<1>5. dma \in [armed : BOOLEAN, buf : 0..1, pos : 1..TxMax, len : 0..TxMax]
  BY DEF TxTyped
<1>6. wrote \in 0..TxNum-1 /\ sent \in 0..TxNum-1 /\ dbufAge \in 0..TxTick+1
  BY DEF TxTyped
<1>7. 1 - txSel \in 0..1 /\ txLapse \in Nat /\ txLapse < Wrap
  BY <1>1, ConstFacts
<1>8. writing.sel \in 0..1 /\ writing.idx \in 0..TxMax /\ writing.len \in 0..TxMax
  BY <1>4
<1>9. /\ dma = [armed |-> dma.armed, buf |-> dma.buf, pos |-> dma.pos, len |-> dma.len]
      /\ dma.armed \in BOOLEAN /\ dma.buf \in 0..1
      /\ dma.pos \in 1..TxMax /\ dma.len \in 0..TxMax
  BY <1>5
<1>10. wrote \in Nat /\ sent \in Nat /\ dbufAge \in Nat /\ dbufAge <= TxTick + 1
  BY <1>6, ConstFacts
<1> QED
  BY <1>1, <1>2, <1>3, <1>7, <1>8, <1>9, <1>10

(* Each step keeps the types of the transmit half.                          *)
LEMMA TxStep ==
    ASSUME UartAssumption, TypeOK, WriteInv, Next
    PROVE  TxTyped'
<1>0. TxTyped
  BY TypeSplits
<1>a. TxMax \in Nat /\ TxMax >= 1 /\ Wrap \in Nat /\ Wrap >= 1 /\ TxTick \in Nat
  BY ConstFacts
<1>b. /\ txLapse \in Nat /\ txLapse < Wrap /\ sent \in Nat /\ wrote \in Nat
      /\ dbufAge \in Nat /\ dbufAge <= TxTick + 1
  BY <1>0, TxFacts
<1>c. Len(txBuf[txSel]) \in 0..TxMax /\ writing.len \in Nat /\ 1 - txSel \in 0..1
  <2>1. /\ \A b \in 0..1 : Len(txBuf[b]) \in Nat /\ Len(txBuf[b]) <= TxMax
        /\ txSel \in 0..1 /\ writing.len \in 0..TxMax
    BY <1>0, TxFacts
  <2> QED
    BY <1>a, <2>1
<1>d. /\ dma = [armed |-> dma.armed, buf |-> dma.buf, pos |-> dma.pos, len |-> dma.len]
      /\ dma.armed \in BOOLEAN /\ dma.buf \in 0..1
      /\ dma.pos \in 1..TxMax /\ dma.len \in 0..TxMax
  BY <1>0, TxFacts
<1>1. ASSUME NEW len \in 1..TxMax, HalUARTWrite(len) PROVE TxTyped'
  <2>1. Len(txBuf[txSel]) \in Nat /\ Len(txBuf[txSel]) <= TxMax
    BY <1>0, TxFacts
  <2>2. writing' \in [sel : 0..1, idx : 0..TxMax, len : 0..TxMax]
    BY <1>0, <1>1, <2>1, TxFacts, ConstFacts DEF HalUARTWrite
  <2> QED
    BY <1>0, <1>1, <2>2 DEF TxTyped, HalUARTWrite
<1>2. CASE HalUARTWriteDone
  <2>1. wrote' \in 0..TxNum-1
    <3>1. TxNum \in Nat \ {0}
      BY DEF TxNum, UartAssumption
    <3>2. wrote + writing.len \in Nat
      BY <1>b, <1>c
    <3> QED
      BY <1>2, <3>1, <3>2 DEF HalUARTWriteDone
  <2>2. writing' \in [sel : 0..1, idx : 0..TxMax, len : 0..TxMax]
    BY <1>2 DEF HalUARTWriteDone, NotWriting, UartAssumption
  <2>3. txDMAPending' \in BOOLEAN
    BY <1>0, <1>2 DEF TxTyped, HalUARTWriteDone
  <2>4. /\ txBuf' \in [0..1 -> Seq(0..TxNum-1)]
        /\ \A b \in 0..1 : Len(txBuf'[b]) <= TxMax
    BY <1>2, WriteDoneAppends
  <2>5. UNCHANGED <<txSel, txShdwValid, txLapse, dma, irq, sent, dbufAge>>
    BY <1>2 DEF HalUARTWriteDone
  <2> QED
    BY <1>0, <2>1, <2>2, <2>3, <2>4, <2>5 DEF TxTyped
<1>3. CASE DmaByte
  <2>1. sent' \in 0..TxNum-1
    <3>1. TxNum \in Nat \ {0}
      BY DEF TxNum, UartAssumption
    <3>2. sent + 1 \in Nat
      BY <1>b
    <3> QED
      BY <1>3, <3>1, <3>2 DEF DmaByte
  <2>2. dma' \in [armed : BOOLEAN, buf : 0..1, pos : 1..TxMax, len : 0..TxMax]
    <3>1. CASE dma.pos < dma.len /\ dma' = [dma EXCEPT !.pos = @ + 1]
      <4>1. dma' = [armed |-> dma.armed, buf |-> dma.buf, pos |-> dma.pos + 1, len |-> dma.len]
        BY <1>d, <3>1
      <4>2. dma.pos + 1 \in 1..TxMax
        BY <1>a, <1>d, <3>1
      <4> QED
        BY <1>d, <4>1, <4>2
    <3>2. CASE dma' = Idle
      BY <3>2, ConstFacts DEF Idle
    <3> QED
      BY <1>3, <3>1, <3>2 DEF DmaByte
  <2>3. irq' \in BOOLEAN /\ dbufAge' \in 0..TxTick+1
    <3>1. irq' \in BOOLEAN
      BY <1>0, <1>3 DEF TxTyped, DmaByte
    <3>2. dbufAge' \in 0..TxTick+1
      BY <1>a, <1>3 DEF DmaByte
    <3> QED
      BY <3>1, <3>2
  <2>4. UNCHANGED <<txBuf, txSel, txDMAPending, txShdwValid, txLapse, writing, wrote>>
    BY <1>3 DEF DmaByte
  <2> QED
    BY <1>0, <2>1, <2>2, <2>3, <2>4 DEF TxTyped
<1>4. CASE DmaIsr
  <2>1. UNCHANGED <<txSel, writing, dma, wrote, sent, dbufAge>> /\ HalUARTIsrDMA
    BY <1>4 DEF DmaIsr
  <2> QED
    BY <1>0, <2>1, IsrType DEF TxTyped
<1>5. CASE TxPoll
  <2>1. UNCHANGED <<writing, wrote, sent, dbufAge>>
    BY <1>5 DEF TxPoll
  <2>2. CASE Fire
    <3>1. Len(txBuf[txSel]) \in 0..TxMax /\ 1 - txSel \in 0..1
      BY <1>c
    <3>2. dma' \in [armed : BOOLEAN, buf : 0..1, pos : 1..TxMax, len : 0..TxMax]
      BY <1>0, <1>a, <2>2, <3>1 DEF TxTyped, Fire
    <3>3. txLapse' \in 0..Wrap-1
      BY <2>2 DEF Fire, UartAssumption
    <3> QED
      BY <1>0, <2>1, <2>2, <3>1, <3>2, <3>3 DEF TxTyped, Fire
  <2>3. CASE Rekick
    <3>1. UNCHANGED <<txSel, dma>> /\ HalUARTIsrDMA
      BY <2>3 DEF Rekick
    <3> QED
      BY <1>0, <2>1, <3>1, IsrType DEF TxTyped
  <2>4. CASE Pass
    <3>1. txShdwValid' \in BOOLEAN
      BY <1>0, <2>4 DEF TxTyped, Pass, StillWaits
    <3>2. txLapse' \in 0..Wrap-1
      BY <1>a, <1>b, <2>4 DEF Pass
    <3>3. UNCHANGED <<txBuf, txSel, txDMAPending, dma, irq>>
      BY <2>4 DEF Pass
    <3> QED
      BY <1>0, <2>1, <3>1, <3>2, <3>3 DEF TxTyped
  <2> QED
    BY <1>5, <2>2, <2>3, <2>4 DEF TxPoll
<1>6. CASE RxByte \/ RxPoll \/ RxCount \/ SerialTx_CallBack
  BY <1>0, <1>6 DEF TxTyped, RxByte, RxPoll, RxCount, SerialTx_CallBack, txVars
<1>7. CASE Tick
  <2>1. txLapse' \in 0..Wrap-1
    BY <1>a, <1>b, <1>7 DEF Tick
  <2>2. dbufAge' \in 0..TxTick+1
    BY <1>a, <1>b, <1>7 DEF Tick
  <2>3. UNCHANGED <<txBuf, txSel, txDMAPending, txShdwValid, writing, dma, irq, wrote, sent>>
    BY <1>7 DEF Tick
  <2> QED
    BY <1>0, <2>1, <2>2, <2>3 DEF TxTyped
<1> QED
  BY <1>1, <1>2, <1>3, <1>4, <1>5, <1>6, <1>7 DEF Next

(* Each step keeps the types of the receive half, of the choice and of the  *)
(* gap.                                                                     *)
LEMMA RxStep ==
    ASSUME UartAssumption, TypeOK, Next
    PROVE  lane' \in {"tx", "rx"} /\ gap' \in Nat /\ RxTyped'
<1>0. lane \in {"tx", "rx"} /\ gap \in Nat /\ RxTyped
  BY TypeSplits
<1>a. /\ Wrap \in Nat /\ Wrap >= 1 /\ RxIdle \in Nat /\ RxNum \in Nat \ {0}
      /\ ReadMax \in Nat /\ RxMax \in Nat /\ RxMax >= 1
  BY ConstFacts
<1>b. /\ rxHead \in Nat /\ dmaIdx \in 0..RxMax-1 /\ rxTick \in Nat /\ rxTick <= RxIdle
      /\ rxLapse \in Nat /\ came \in Nat /\ got \in Nat /\ late \in Nat
  <2>1. /\ {rxHead, rxTail, dmaIdx} \subseteq 0..RxMax-1
        /\ rxTick \in 0..RxIdle /\ rxLapse \in 0..Wrap-1
        /\ came \in 0..RxNum-1 /\ got \in 0..RxNum-1 /\ late \in Nat
    BY <1>0 DEF RxTyped
  <2> QED
    BY <1>a, <2>1
<1>1. ASSUME NEW len \in 1..TxMax, HalUARTWrite(len)
      PROVE  lane' \in {"tx", "rx"} /\ gap' \in Nat /\ RxTyped'
  BY <1>0, <1>1 DEF HalUARTWrite, rxVars, RxTyped
<1>2. CASE HalUARTWriteDone \/ DmaByte \/ DmaIsr
  BY <1>0, <1>2 DEF HalUARTWriteDone, DmaByte, DmaIsr, rxVars, RxTyped
<1>3. CASE TxPoll
  BY <1>0, <1>3 DEF TxPoll, rxVars, RxTyped
<1>4. CASE RxByte
  <2>1. UNCHANGED <<lane, gap, rxHead, rxTail, rxTick, rxLapse, event, got>>
    BY <1>4 DEF RxByte
  <2>2. came' \in 0..RxNum-1 /\ late' \in Nat /\ heard' \in BOOLEAN
    BY <1>a, <1>b, <1>4 DEF RxByte
  <2>3. dmaIdx' \in 0..RxMax-1
    BY <1>b, <1>4, AheadType DEF RxByte
  <2>4. rxBuf' \in [0..RxMax-1 -> (0..RxNum-1) \cup {Empty}]
    BY <1>0, <1>4 DEF RxByte, RxTyped
  <2>5. {rxHead', rxTail', dmaIdx'} \subseteq 0..RxMax-1
    BY <1>0, <2>1, <2>3 DEF RxTyped
  <2> QED
    BY <1>0, <2>1, <2>2, <2>4, <2>5 DEF RxTyped
<1>5. CASE RxPoll
  <2>1. UNCHANGED <<lane, rxBuf, rxHead, dmaIdx, heard, came, got>> /\ gap' = 0
    BY <1>5 DEF RxPoll
  <2>2. CASE IdleTimer /\ event' = "count" /\ UNCHANGED late
    <3>1. rxTail' \in 0..RxMax-1
      BY <1>0, <2>2, FindTailType DEF IdleTimer, RxTyped
    <3>2. rxTick' \in 0..RxIdle
      BY <1>a, <1>b, <2>2 DEF IdleTimer
    <3>3. rxLapse' \in 0..Wrap-1
      <4>1. rxLapse \in 0..Wrap-1 /\ 0 \in 0..Wrap-1
        BY <1>0, <1>a DEF RxTyped
      <4> QED
        BY <2>2, <4>1 DEF IdleTimer
    <3>4. {rxHead', rxTail', dmaIdx'} \subseteq 0..RxMax-1
      BY <1>0, <2>1, <3>1 DEF RxTyped
    <3> QED
      BY <1>0, <2>1, <2>2, <3>2, <3>3, <3>4 DEF RxTyped
  <2>3. CASE rxTick' = 0 /\ rxLapse' = 0 /\ late' = 0 /\ UNCHANGED <<rxTail, event>>
    <3>1. 0 \in 0..RxIdle /\ 0 \in 0..Wrap-1
      BY <1>a
    <3> QED
      BY <1>0, <2>1, <2>3, <3>1 DEF RxTyped
  <2> QED
    BY <1>5, <2>2, <2>3 DEF RxPoll
<1>6. CASE RxCount
  <2>1. UNCHANGED <<lane, gap, rxBuf, rxHead, rxTail, rxTick, rxLapse, dmaIdx, heard,
                    came, got>>
    BY <1>6 DEF RxCount
  <2>2. event' \in {"none", "full", "aboutFull", "timeout"}
    BY <1>6 DEF RxCount, EventFor
  <2>3. late' \in Nat
    BY <1>b, <1>6 DEF RxCount
  <2> QED
    BY <1>0, <2>1, <2>2, <2>3 DEF RxTyped
<1>7. CASE SerialTx_CallBack
  <2> DEFINE n == ReadCount(ReadMax)
  <2>1. n \in Nat
    BY <1>a, ReadCountType
  <2>2. UNCHANGED <<lane, gap, rxTail, rxTick, rxLapse, dmaIdx, heard, came>>
        /\ event' = "none" /\ late' = 0
    BY <1>7 DEF SerialTx_CallBack
  <2>3. rxBuf' \in [0..RxMax-1 -> (0..RxNum-1) \cup {Empty}]
    BY <1>0, <1>7 DEF SerialTx_CallBack, RxTyped
  <2>4. rxHead' \in 0..RxMax-1
    BY <1>b, <1>7, <2>1, AheadType DEF SerialTx_CallBack
  <2>5. got' \in 0..RxNum-1
    <3>1. got' = (got + n) % RxNum
      BY <1>7 DEF SerialTx_CallBack
    <3> HIDE DEF n
    <3> QED
      BY <1>a, <1>b, <2>1, <3>1
  <2>6. {rxHead', rxTail', dmaIdx'} \subseteq 0..RxMax-1
    BY <1>0, <2>2, <2>4 DEF RxTyped
  <2> QED
    BY <1>0, <2>2, <2>3, <2>5, <2>6 DEF RxTyped
<1>8. CASE Tick
  <2>1. UNCHANGED <<lane, rxBuf, rxHead, rxTail, rxTick, dmaIdx, event, came, got, late>>
        /\ gap' = gap + 1 /\ heard' = FALSE
    BY <1>8 DEF Tick
  <2>2. rxLapse' \in 0..Wrap-1
    BY <1>a, <1>b, <1>8 DEF Tick
  <2>3. gap' \in Nat
    BY <1>0, <2>1
  <2> QED
    BY <1>0, <2>1, <2>2, <2>3 DEF RxTyped
<1> QED
  BY <1>1, <1>2, <1>3, <1>4, <1>5, <1>6, <1>7, <1>8 DEF Next

-----------------------------------------------------------------------------
(* The steps of the receive half leave it alone.                            *)
LEMMA DriverUnchanged ==
    ASSUME Driver, UNCHANGED txVars
    PROVE  Driver'
BY DEF Driver, WriteInv, TransferInv, IsrIsExcluded, ShadowInv, Quiet, txVars

(* Only a poll that finds the channel free and the last byte old starts a   *)
(* transfer.                                                                *)
LEMMA FireIsLate ==
    ASSUME UartAssumption, TypeOK, Driver, Fire
    PROVE  Quiet /\ dbufAge > TxTick /\ txBuf[txSel] # <<>>
<1>1. Quiet /\ txBuf[txSel] # <<>>
  BY DEF Fire, Driver, IsrIsExcluded, Quiet
<1>2. TxTick \in Nat /\ txLapse \in Nat /\ dbufAge \in Nat
  BY TypeSplits, ConstFacts, TxFacts
<1>3. ~txShdwValid \/ txLapse > TxTick
  BY <1>2 DEF Fire, StillWaits
<1>4. dbufAge > TxTick
  BY <1>1, <1>2, <1>3 DEF Driver, ShadowInv
<1> QED
  BY <1>1, <1>4

(* Each step of the transmit half keeps it.                                 *)
LEMMA DriverStep ==
    ASSUME UartAssumption, TypeOK, Driver, Next
    PROVE  Driver'
<1>a. /\ txSel \in 0..1 /\ 1 - txSel \in 0..1 /\ 1 - txSel # txSel
      /\ dbufAge \in Nat /\ txLapse \in Nat /\ TxTick \in Nat
      /\ Wrap \in Nat /\ Wrap >= 1 /\ TxMax \in Nat
  <2>1. /\ txSel \in 0..1 /\ dbufAge \in Nat /\ txLapse \in Nat /\ TxTick \in Nat
        /\ Wrap \in Nat /\ Wrap >= 1 /\ TxMax \in Nat
    BY TypeSplits, ConstFacts, TxFacts
  <2> QED
    BY <2>1
<1>b. WriteInv /\ TransferInv /\ IsrIsExcluded /\ ShadowInv
  BY DEF Driver
<1>1. ASSUME NEW len \in 1..TxMax, HalUARTWrite(len) PROVE Driver'
  <2>1. UNCHANGED <<txBuf, txSel, txDMAPending, txShdwValid, txLapse, dma, irq, dbufAge>>
    BY <1>1 DEF HalUARTWrite
  <2>2. /\ writing' = [sel |-> txSel, idx |-> Len(txBuf[txSel]), len |-> len]
        /\ len + Len(txBuf[txSel]) <= TxMax
    BY <1>1 DEF HalUARTWrite
  <2>3. Len(txBuf[txSel]) \in Nat
    BY <1>a, TypeSplits, TxFacts
  <2>4. WriteInv'
    <3>1. Len(txBuf[txSel]) + len <= TxMax
      BY <1>a, <2>2, <2>3
    <3>2. len >= 1
      BY <1>a
    <3> QED
      BY <2>1, <2>2, <3>1, <3>2 DEF WriteInv
  <2> QED
    BY <1>b, <2>1, <2>4
    DEF Driver, TransferInv, IsrIsExcluded, ShadowInv, Quiet
<1>2. CASE HalUARTWriteDone
  <2>1. /\ UNCHANGED <<txSel, txShdwValid, txLapse, dma, irq, dbufAge>>
        /\ writing' = NotWriting
        /\ txDMAPending' = (txDMAPending \/ txBuf[1 - txSel] = <<>>)
    BY <1>2 DEF HalUARTWriteDone
  <2>2. txBuf'[1 - txSel] = txBuf[1 - txSel] /\ Len(txBuf'[txSel]) > 0
    BY <1>b, <1>2, WriteDoneAppends
  <2>3. txBuf'[txSel] # <<>>
    <3>1. Len(<<>>) = 0
      BY EmptySeq
    <3> QED
      BY <2>2, <3>1
  <2>4. WriteInv' /\ TransferInv' /\ ShadowInv'
    BY <1>b, <2>1, <2>2 DEF WriteInv, TransferInv, ShadowInv, Quiet
  <2>5. IsrIsExcluded'
    BY <1>b, <2>1, <2>3 DEF TransferInv, IsrIsExcluded, Quiet
  <2> QED
    BY <2>4, <2>5 DEF Driver
<1>3. CASE DmaByte
  <2>1. /\ UNCHANGED <<txBuf, txSel, txDMAPending, txShdwValid, txLapse, writing>>
        /\ dma.armed /\ dbufAge' = 0
    BY <1>3 DEF DmaByte
  <2>2. ~txShdwValid /\ ~txDMAPending /\ txBuf[1 - txSel] # <<>> /\ ~irq
    BY <1>b, <2>1 DEF TransferInv, IsrIsExcluded, Quiet
  <2>3. (dma'.armed /\ ~irq') \/ (~dma'.armed /\ irq')
    <3>1. CASE dma' = [dma EXCEPT !.pos = @ + 1] /\ UNCHANGED irq
      <4>1. dma = [armed |-> dma.armed, buf |-> dma.buf, pos |-> dma.pos, len |-> dma.len]
        BY TypeSplits, TxFacts
      <4>2. dma'.armed
        <5>1. dma' = [armed |-> dma.armed, buf |-> dma.buf, pos |-> dma.pos + 1,
                      len |-> dma.len]
          BY <3>1, <4>1
        <5>2. dma'.armed = dma.armed
          BY <5>1
        <5> QED
          BY <2>1, <5>2, Zenon
      <4> QED
        BY <2>2, <3>1, <4>2
    <3>2. CASE dma' = Idle /\ irq' = TRUE
      BY <3>2 DEF Idle
    <3> QED
      BY <1>3, <3>1, <3>2 DEF DmaByte
  <2> QED
    BY <1>b, <2>1, <2>2, <2>3
    DEF Driver, WriteInv, TransferInv, IsrIsExcluded, ShadowInv, Quiet
<1>4. ASSUME HalUARTIsrDMA, ~dma.armed, UNCHANGED <<txSel, writing, dma, dbufAge>>
      PROVE  Driver'
  <2>1. txBuf'[txSel] = txBuf[txSel] /\ txBuf'[1 - txSel] = <<>>
    BY <1>4, IsrType
  <2>2. /\ irq' = FALSE /\ txShdwValid' = TRUE /\ txLapse' = 0
        /\ txDMAPending' = (txDMAPending \/ txBuf[txSel] # <<>>)
    BY <1>4 DEF HalUARTIsrDMA
  <2>3. WriteInv' /\ TransferInv'
    BY <1>b, <1>4, <2>1, <2>2 DEF WriteInv, TransferInv, Quiet
  <2>4. IsrIsExcluded'
    BY <1>b, <1>4, <2>1, <2>2 DEF IsrIsExcluded
  <2>5. ShadowInv'
    BY <1>a, <1>4, <2>2 DEF ShadowInv
  <2> QED
    BY <2>3, <2>4, <2>5 DEF Driver
<1>5. CASE DmaIsr
  <2>1. HalUARTIsrDMA /\ irq /\ UNCHANGED <<txSel, writing, dma, dbufAge>>
    BY <1>5 DEF DmaIsr
  <2> QED
    BY <1>b, <1>4, <2>1 DEF TransferInv
<1>6. CASE TxPoll
  <2>1. writing = NotWriting /\ UNCHANGED <<writing, dbufAge>>
    BY <1>6 DEF TxPoll
  <2>2. CASE Fire
    <3>1. /\ dma' = [armed |-> TRUE, buf |-> txSel, pos |-> 1, len |-> Len(txBuf[txSel])]
          /\ txDMAPending' = FALSE /\ txSel' = 1 - txSel /\ irq' = FALSE
          /\ txShdwValid' = FALSE /\ UNCHANGED txBuf
      BY <2>2 DEF Fire
    <3>2. 1 - txSel' = txSel /\ txBuf[txSel] # <<>>
      BY <1>a, <2>2, <3>1, FireIsLate
    <3>3. dma'.armed
      BY <3>1
    <3> QED
      BY <2>1, <3>1, <3>2, <3>3
      DEF Driver, WriteInv, TransferInv, IsrIsExcluded, ShadowInv, Quiet
  <2>3. CASE Rekick
    BY <1>4, <2>1, <2>3 DEF Rekick
  <2>4. CASE Pass
    <3>1. /\ txShdwValid' = StillWaits
          /\ txLapse' = IF StillWaits THEN txLapse ELSE 0
          /\ UNCHANGED <<txBuf, txSel, txDMAPending, dma, irq>>
      BY <2>4 DEF Pass
    <3>2. WriteInv' /\ TransferInv'
      BY <1>b, <2>1, <3>1 DEF WriteInv, TransferInv, Quiet
    <3>3. IsrIsExcluded'
      BY <1>b, <3>1 DEF IsrIsExcluded, StillWaits
    <3>4. ShadowInv'
      <4>1. CASE StillWaits
        BY <1>b, <2>1, <3>1, <4>1 DEF ShadowInv, StillWaits, Quiet
      <4>2. CASE ~StillWaits
        <5>1. Quiet => dbufAge > TxTick
          BY <1>a, <1>b, <4>2 DEF ShadowInv, StillWaits
        <5> QED
          BY <2>1, <3>1, <4>2, <5>1 DEF ShadowInv, Quiet
      <4> QED
        BY <4>1, <4>2
    <3> QED
      BY <3>2, <3>3, <3>4 DEF Driver
  <2> QED
    BY <1>6, <2>2, <2>3, <2>4 DEF TxPoll
<1>7. CASE RxByte \/ RxPoll \/ RxCount \/ SerialTx_CallBack
  <2>1. UNCHANGED txVars
    BY <1>7 DEF RxByte, RxPoll, RxCount, SerialTx_CallBack
  <2> QED
    BY <2>1, DriverUnchanged
<1>8. CASE Tick
  <2>1. /\ UNCHANGED <<txBuf, txSel, txDMAPending, txShdwValid, writing, dma, irq>>
        /\ dbufAge' = IF dbufAge > TxTick THEN dbufAge ELSE dbufAge + 1
        /\ txLapse' = IF txShdwValid THEN (txLapse + 1) % Wrap ELSE 0
    BY <1>8 DEF Tick
  <2>2. (txLapse + 1) % Wrap <= txLapse + 1
    BY <1>a
  <2>3. ShadowInv'
    <3>1. txShdwValid => txLapse' <= txLapse + 1
      BY <2>1, <2>2
    <3>2. (txLapse + 1) % Wrap \in Nat
      BY <1>a
    <3>3. txShdwValid => txLapse' \in Nat
      BY <2>1, <3>2
    <3> QED
      BY <1>a, <1>b, <2>1, <3>1, <3>3 DEF ShadowInv, Quiet
  <2> QED
    BY <1>b, <2>1, <2>3 DEF Driver, WriteInv, TransferInv, IsrIsExcluded, Quiet
<1> QED
  BY <1>1, <1>2, <1>3, <1>5, <1>6, <1>7, <1>8 DEF Next

-----------------------------------------------------------------------------
(* The order of the bytes sent.  Byte numbers are counted modulo TxNum, and *)
(* these lemmas say how that adds up.                                       *)
LEMMA ModUnique ==
    ASSUME NEW N \in Nat \ {0}, NEW q \in Int, NEW r \in 0..N-1
    PROVE  (N * q + r) % N = r
OBVIOUS

LEMMA DivMod ==
    ASSUME NEW N \in Nat \ {0}, NEW x \in Nat
    PROVE  /\ x = N * (x \div N) + (x % N)
           /\ x \div N \in Int /\ x % N \in 0..N-1
OBVIOUS

LEMMA ModAdd ==
    ASSUME NEW N \in Nat \ {0}, NEW x \in Nat, NEW k \in Nat
    PROVE  ((x % N) + k) % N = (x + k) % N
<1>1. PICK q \in Int, r \in 0..N-1 : x = N * q + r /\ r = x % N
  BY DivMod
<1>2. r + k \in Nat
  OBVIOUS
<1>3. PICK p \in Int, s \in 0..N-1 : r + k = N * p + s /\ s = (r + k) % N
  BY <1>2, DivMod
<1>4. x + k = N * (q + p) + s /\ q + p \in Int
  BY <1>1, <1>3
<1>5. (x + k) % N = s
  BY <1>4, ModUnique
<1> QED
  BY <1>1, <1>3, <1>5

(* The bytes of the transfer under way that are still to be moved.          *)
Rem == IF dma.armed THEN dma.len - dma.pos + 1 ELSE 0

(* A transfer is of the whole other buffer, and a transfer is pending only  *)
(* while that buffer is free.                                               *)
TransferIsOfOther ==
    /\ dma.armed => /\ dma.buf = 1 - txSel
                    /\ dma.len = Len(txBuf[1 - txSel])
                    /\ dma.pos <= dma.len
    /\ txDMAPending => txBuf[1 - txSel] = <<>>

(* The same order as TxStreamIntact, byte by byte.                          *)
BytesNumbered ==
    /\ dma.armed => \A i \in dma.pos..dma.len :
                      txBuf[1 - txSel][i] = (sent + (i - dma.pos)) % TxNum
    /\ \A i \in 1..Len(txBuf[txSel]) : txBuf[txSel][i] = (sent + (Rem + i - 1)) % TxNum
    /\ wrote = (sent + (Rem + Len(txBuf[txSel]))) % TxNum

Order == TransferIsOfOther /\ BytesNumbered

(* What the steps rely on.                                                  *)
LEMMA OrderFacts ==
    ASSUME UartAssumption, TypeOK, Order
    PROVE  /\ txSel \in 0..1 /\ 1 - txSel \in 0..1 /\ 1 - txSel # txSel
           /\ Len(txBuf[txSel]) \in Nat /\ Len(txBuf[1 - txSel]) \in Nat
           /\ sent \in Nat /\ wrote \in Nat /\ TxNum \in Nat \ {0}
           /\ dma.armed \in BOOLEAN /\ dma.pos \in Nat /\ dma.pos >= 1
           /\ dma.len \in Nat /\ Rem \in Nat
<1>1. /\ txSel \in 0..1 /\ 1 - txSel \in 0..1
      /\ \A b \in 0..1 : Len(txBuf[b]) \in Nat
      /\ sent \in Nat /\ wrote \in Nat
  BY TypeSplits, TxFacts
<1>2. dma.armed \in BOOLEAN /\ dma.pos \in 1..TxMax /\ dma.len \in 0..TxMax
  BY TypeSplits, TxFacts
<1>3. TxMax \in Nat /\ TxNum \in Nat \ {0}
  BY ConstFacts
<1>4. dma.pos \in Nat /\ dma.pos >= 1 /\ dma.len \in Nat
  BY <1>2, <1>3
<1>5. Rem \in Nat
  BY <1>4 DEF Rem, Order, TransferIsOfOther
<1> QED
  BY <1>1, <1>2, <1>3, <1>4, <1>5

LEMMA OrderUnchanged ==
    ASSUME Order, UNCHANGED <<txBuf, txSel, txDMAPending, dma, sent, wrote>>
    PROVE  Order'
BY DEF Order, TransferIsOfOther, BytesNumbered, Rem

(* What the handler does when the channel is idle leaves the queue alone.   *)
LEMMA OrderIsr ==
    ASSUME UartAssumption, TypeOK, Order, HalUARTIsrDMA, ~dma.armed,
           UNCHANGED <<txSel, dma, sent, wrote>>
    PROVE  Order'
<1>1. txBuf'[txSel] = txBuf[txSel] /\ txBuf'[1 - txSel] = <<>>
  BY IsrType
<1>2. TransferIsOfOther'
  BY <1>1 DEF TransferIsOfOther
<1>3. BytesNumbered'
  BY <1>1 DEF BytesNumbered, Order, Rem
<1> QED
  BY <1>2, <1>3 DEF Order

(* The new bytes follow those already queued.                               *)
LEMMA OrderWriteDone ==
    ASSUME UartAssumption, TypeOK, WriteInv, Order, HalUARTWriteDone
    PROVE  Order'
<1> DEFINE old == txBuf[txSel]
           n   == writing.len
<1>a. /\ txSel \in 0..1 /\ 1 - txSel \in 0..1 /\ 1 - txSel # txSel
      /\ Len(old) \in Nat /\ sent \in Nat /\ wrote \in Nat /\ TxNum \in Nat \ {0}
      /\ Rem \in Nat
  BY OrderFacts
<1>b. old \in Seq(0..TxNum-1) /\ n \in Nat
  <2>1. txBuf \in [0..1 -> Seq(0..TxNum-1)] /\ writing.len \in 0..TxMax
    BY TypeSplits, TxFacts
  <2>2. TxMax \in Nat
    BY ConstFacts
  <2> QED
    BY <1>a, <2>1, <2>2
<1>1. UNCHANGED <<txSel, dma, sent>>
  BY DEF HalUARTWriteDone
<1>2. txBuf'[1 - txSel] = txBuf[1 - txSel]
  BY WriteDoneAppends
<1>3. txBuf'[txSel] = old \o Numbers(wrote, n, TxNum)
  <2>1. writing.sel = txSel /\ writing.idx = Len(old)
    BY DEF WriteInv, HalUARTWriteDone
  <2>2. SubSeq(old, 1, Len(old)) = old
    BY <1>b, SubSeqFull
  <2>3. txBuf' = [txBuf EXCEPT ![txSel] = SubSeq(@, 1, Len(old)) \o Numbers(wrote, n, TxNum)]
    BY <2>1 DEF HalUARTWriteDone
  <2> QED
    BY <1>a, <2>2, <2>3 DEF TypeOK
<1>4. Numbers(wrote, n, TxNum) \in Seq(0..TxNum-1) /\ Len(Numbers(wrote, n, TxNum)) = n
  BY <1>a, <1>b, NumbersType
<1>5. \A i \in 1..n : Numbers(wrote, n, TxNum)[i] = (wrote + i - 1) % TxNum
  BY DEF Numbers
<1>6. wrote = (sent + (Rem + Len(old))) % TxNum
  BY DEF Order, BytesNumbered
<1>7. \A k \in Nat : (wrote + k) % TxNum = (sent + (Rem + Len(old)) + k) % TxNum
  <2>1. sent + (Rem + Len(old)) \in Nat
    BY <1>a
  <2> HIDE DEF old
  <2> QED
    BY <1>a, <1>6, <2>1, ModAdd
<1>8. Rem' = Rem
  BY <1>1 DEF Rem
<1>9. /\ Len(txBuf'[txSel]) = Len(old) + n
      /\ \A i \in 1..Len(old) + n :
           txBuf'[txSel][i] = IF i <= Len(old) THEN old[i]
                              ELSE Numbers(wrote, n, TxNum)[i - Len(old)]
  <2> DEFINE more == Numbers(wrote, n, TxNum)
  <2>1. old \in Seq(0..TxNum-1) /\ more \in Seq(0..TxNum-1) /\ Len(more) = n
        /\ txBuf'[txSel] = old \o more
    BY <1>b, <1>3, <1>4
  <2> HIDE DEF old, n, more
  <2>2. /\ Len(old \o more) = Len(old) + Len(more)
        /\ \A i \in 1..Len(old) + Len(more) :
             (old \o more)[i] = IF i <= Len(old) THEN old[i] ELSE more[i - Len(old)]
    BY <2>1, ConcatProperties
  <2> QED
    BY <2>1, <2>2 DEF more
<1>10. ASSUME NEW i \in 1..Len(old) + n
       PROVE  txBuf'[txSel][i] = (sent + (Rem + i - 1)) % TxNum
  <2>1. CASE i <= Len(old)
    <3>1. i \in 1..Len(old)
      BY <1>a, <1>b, <2>1
    <3>2. old[i] = (sent + (Rem + i - 1)) % TxNum
      BY <3>1 DEF Order, BytesNumbered
    <3> QED
      BY <1>9, <2>1, <3>2
  <2>2. CASE ~(i <= Len(old))
    <3> DEFINE k == i - Len(old)
    <3>1. k \in 1..n /\ k - 1 \in Nat
      BY <1>a, <1>b, <2>2
    <3>2. txBuf'[txSel][i] = (wrote + k - 1) % TxNum
      BY <1>5, <1>9, <2>2, <3>1
    <3>3. (wrote + (k - 1)) % TxNum = (sent + (Rem + Len(old)) + (k - 1)) % TxNum
      <4> HIDE DEF k, old
      <4> QED
        BY <1>7, <3>1
    <3>4. /\ wrote + k - 1 = wrote + (k - 1)
          /\ sent + (Rem + Len(old)) + (k - 1) = sent + (Rem + i - 1)
      <4>1. wrote \in Nat /\ sent \in Nat /\ Rem \in Nat /\ Len(old) \in Nat /\ n \in Nat
        BY <1>a, <1>b
      <4> HIDE DEF old, n
      <4> QED
        BY <4>1
    <3> QED
      BY <3>2, <3>3, <3>4
  <2> QED
    BY <2>1, <2>2
<1>11. wrote' = (sent + (Rem + (Len(old) + n))) % TxNum
  <2>1. wrote' = (wrote + n) % TxNum
    BY DEF HalUARTWriteDone
  <2>2. (wrote + n) % TxNum = (sent + (Rem + Len(old)) + n) % TxNum
    <3> HIDE DEF old, n
    <3> QED
      BY <1>7, <1>b
  <2>3. sent + (Rem + Len(old)) + n = sent + (Rem + (Len(old) + n))
    <3>1. sent \in Nat /\ Rem \in Nat /\ Len(old) \in Nat /\ n \in Nat
      BY <1>a, <1>b
    <3> HIDE DEF old, n
    <3> QED
      BY <3>1
  <2> QED
    BY <2>1, <2>2, <2>3
<1>12. BytesNumbered'
  <2>1. dma'.armed => \A i \in dma'.pos..dma'.len :
                        txBuf'[1 - txSel][i] = (sent' + (i - dma'.pos)) % TxNum
    BY <1>1, <1>2 DEF Order, BytesNumbered
  <2>2. \A i \in 1..Len(txBuf'[txSel]) : txBuf'[txSel][i] = (sent + (Rem + i - 1)) % TxNum
    BY <1>9, <1>10
  <2>3. wrote' = (sent + (Rem + Len(txBuf'[txSel]))) % TxNum
    BY <1>9, <1>11
  <2> HIDE DEF old, n
  <2> QED
    BY <1>1, <1>8, <2>1, <2>2, <2>3 DEF BytesNumbered
<1>13. TransferIsOfOther'
  <2>1. txDMAPending' => txBuf'[1 - txSel'] = <<>>
    BY <1>1, <1>2 DEF HalUARTWriteDone, Order, TransferIsOfOther
  <2> QED
    BY <1>1, <1>2, <2>1 DEF Order, TransferIsOfOther
<1> QED
  BY <1>12, <1>13 DEF Order

(* The byte moved is the first of those left.                               *)
LEMMA OrderDmaByte ==
    ASSUME TypeOK, Order, DmaByte
    PROVE  Order'
<1>a. /\ Len(txBuf[txSel]) \in Nat /\ sent \in Nat /\ TxNum \in Nat \ {0}
      /\ dma.pos \in Nat /\ dma.len \in Nat /\ dma.armed /\ dma.pos <= dma.len
      /\ dma.buf = 1 - txSel /\ dma.len = Len(txBuf[1 - txSel])
  BY UartAssumption, OrderFacts DEF DmaByte, Order, TransferIsOfOther
<1>1. UNCHANGED <<txBuf, txSel, txDMAPending, wrote>> /\ sent' = (sent + 1) % TxNum
  BY DEF DmaByte
<1>b. sent \in Nat /\ dma.pos \in Nat /\ dma.len \in Nat /\ dma.pos <= dma.len
  BY <1>a
<1>2. Rem = dma.len - dma.pos + 1
  BY <1>a DEF Rem
<1>3. \A k \in Nat : (sent' + k) % TxNum = (sent + 1 + k) % TxNum
  <2>1. sent + 1 \in Nat
    BY <1>a
  <2> QED
    BY <1>a, <1>1, <2>1, ModAdd
<1>4. Rem' = Rem - 1 /\ Rem' \in Nat
  <2>1. CASE dma.pos < dma.len /\ dma' = [dma EXCEPT !.pos = @ + 1]
    <3>1. dma'.armed /\ dma'.pos = dma.pos + 1 /\ dma'.len = dma.len
      BY <1>a, <2>1 DEF TypeOK
    <3>2. Rem' = dma.len - (dma.pos + 1) + 1
      BY <3>1 DEF Rem
    <3>3. dma.pos < dma.len
      BY <2>1
    <3> QED
      BY <1>b, <1>2, <3>2, <3>3
  <2>2. CASE dma.pos >= dma.len /\ dma' = Idle
    <3>1. dma'.armed = FALSE
      BY <2>2 DEF Idle
    <3>2. dma.pos = dma.len
      BY <1>a, <2>2
    <3> QED
      BY <1>a, <1>2, <3>1, <3>2 DEF Rem
  <2> QED
    BY <2>1, <2>2 DEF DmaByte
<1>c. PICK r \in Nat : r = Rem' /\ Rem = r + 1
  <2>1. Rem' \in Nat /\ Rem = Rem' + 1
    BY <1>b, <1>2, <1>4
  <2> QED
    BY <2>1
<1>d. sent \in Nat /\ r \in Nat /\ Rem = r + 1
  BY <1>b, <1>c
<1>5. \A i \in 1..Len(txBuf[txSel]) : txBuf[txSel][i] = (sent' + (Rem' + i - 1)) % TxNum
  <2> SUFFICES ASSUME NEW i \in 1..Len(txBuf[txSel])
               PROVE  txBuf[txSel][i] = (sent' + (Rem' + i - 1)) % TxNum
    OBVIOUS
  <2>1. txBuf[txSel][i] = (sent + (Rem + i - 1)) % TxNum
    BY DEF Order, BytesNumbered
  <2>2. r + i - 1 \in Nat /\ sent + 1 + (r + i - 1) = sent + (Rem + i - 1)
    <3>1. i \in Nat /\ i >= 1
      BY <1>a
    <3> QED
      BY <1>d, <3>1
  <2> QED
    BY <1>3, <1>c, <2>1, <2>2
<1>6. wrote' = (sent' + (Rem' + Len(txBuf[txSel]))) % TxNum
  <2>1. wrote = (sent + (Rem + Len(txBuf[txSel]))) % TxNum
    BY DEF Order, BytesNumbered
  <2>2. /\ r + Len(txBuf[txSel]) \in Nat
        /\ sent + 1 + (r + Len(txBuf[txSel])) = sent + (Rem + Len(txBuf[txSel]))
    <3> DEFINE l == Len(txBuf[txSel])
    <3>1. l \in Nat
      BY <1>a
    <3> HIDE DEF l
    <3>2. r + l \in Nat /\ sent + 1 + (r + l) = sent + (Rem + l)
      BY <1>d, <3>1
    <3> QED
      BY <3>2 DEF l
  <2> QED
    BY <1>1, <1>3, <1>c, <2>1, <2>2
<1>7. CASE dma.pos < dma.len /\ dma' = [dma EXCEPT !.pos = @ + 1]
  <2>1. /\ dma'.armed = dma.armed /\ dma'.pos = dma.pos + 1 /\ dma'.len = dma.len
        /\ dma'.buf = dma.buf
    BY <1>7 DEF TypeOK
  <2>2. TransferIsOfOther'
    BY <1>a, <1>1, <1>7, <2>1 DEF Order, TransferIsOfOther
  <2>3. ASSUME NEW i \in dma'.pos..dma'.len
        PROVE  txBuf'[1 - txSel'][i] = (sent' + (i - dma'.pos)) % TxNum
    <3>1. i \in dma.pos..dma.len
      BY <1>a, <2>1
    <3>2. txBuf[1 - txSel][i] = (sent + (i - dma.pos)) % TxNum
      BY <1>a, <3>1 DEF Order, BytesNumbered
    <3>3. i - dma'.pos \in Nat /\ sent + 1 + (i - dma'.pos) = sent + (i - dma.pos)
      <4>1. dma'.pos = dma.pos + 1 /\ dma'.len = dma.len
        BY <2>1
      <4>2. i \in dma.pos + 1 .. dma.len
        BY <4>1
      <4> QED
        BY <1>b, <4>1, <4>2
    <3> QED
      BY <1>1, <1>3, <3>2, <3>3
  <2>4. BytesNumbered'
    BY <1>1, <1>5, <1>6, <2>3 DEF BytesNumbered
  <2> QED
    BY <2>2, <2>4 DEF Order
<1>8. CASE dma.pos >= dma.len /\ dma' = Idle
  <2>1. dma'.armed = FALSE
    BY <1>8 DEF Idle
  <2>2. TransferIsOfOther'
    BY <1>1, <2>1 DEF Order, TransferIsOfOther
  <2>3. BytesNumbered'
    BY <1>1, <1>5, <1>6, <2>1 DEF BytesNumbered
  <2> QED
    BY <2>2, <2>3 DEF Order
<1> QED
  BY <1>7, <1>8 DEF DmaByte

(* A transfer that starts takes the whole queue, and the free buffer becomes *)
(* the queue.                                                                *)
LEMMA OrderFire ==
    ASSUME TypeOK, Driver, Order, Fire, UNCHANGED <<sent, wrote>>
    PROVE  Order'
<1> DEFINE old == txBuf[txSel]
<1>a. /\ txSel \in 0..1 /\ 1 - txSel \in 0..1 /\ Len(old) \in Nat
      /\ sent \in Nat /\ TxNum \in Nat \ {0}
  BY UartAssumption, OrderFacts
<1>1. /\ dma' = [armed |-> TRUE, buf |-> txSel, pos |-> 1, len |-> Len(old)]
      /\ txDMAPending' = FALSE /\ txSel' = 1 - txSel /\ UNCHANGED txBuf
  BY DEF Fire
<1>2. ~dma.armed /\ old # <<>>
  BY UartAssumption, FireIsLate DEF Quiet
<1>3. txBuf[1 - txSel] = <<>>
  BY DEF Fire, Order, TransferIsOfOther
<1>4. 1 - txSel' = txSel
  BY <1>a, <1>1
<1>5. dma'.armed /\ dma'.buf = txSel /\ dma'.pos = 1 /\ dma'.len = Len(old)
  BY <1>1
<1>6. Len(old) >= 1
  <2>1. old \in Seq(0..TxNum-1)
    BY <1>a, TypeSplits, UartAssumption, TxFacts
  <2> HIDE DEF old
  <2>2. Len(old) # 0
    BY <1>2, <2>1, EmptySeq
  <2> QED
    BY <1>a, <2>2
<1>7. Rem = 0 /\ Rem' = Len(old)
  <2> HIDE DEF old
  <2> QED
    BY <1>a, <1>2, <1>5 DEF Rem
<1>8. Len(txBuf'[txSel']) = 0
  BY <1>1, <1>3, EmptySeq
<1>9. TransferIsOfOther'
  BY <1>1, <1>4, <1>5, <1>6 DEF TransferIsOfOther
<1>10. ASSUME NEW i \in 1..Len(old)
       PROVE  old[i] = (sent + (i - 1)) % TxNum
  <2>1. old[i] = (sent + (Rem + i - 1)) % TxNum
    BY DEF Order, BytesNumbered
  <2>2. Rem + i - 1 = i - 1
    BY <1>7
  <2> QED
    BY <2>1, <2>2
<1>11. wrote = (sent + Len(old)) % TxNum
  <2>1. wrote = (sent + (Rem + Len(old))) % TxNum
    BY DEF Order, BytesNumbered
  <2>2. Rem + Len(old) = Len(old)
    BY <1>a, <1>7
  <2> QED
    BY <2>1, <2>2
<1>12. BytesNumbered'
  <2>1. \A i \in dma'.pos..dma'.len :
          txBuf'[1 - txSel'][i] = (sent' + (i - dma'.pos)) % TxNum
    BY <1>1, <1>4, <1>5, <1>10
  <2>2. 1..Len(txBuf'[txSel']) = {}
    BY <1>8
  <2>3. wrote' = (sent' + (Rem' + Len(txBuf'[txSel']))) % TxNum
    <3>1. Rem' + Len(txBuf'[txSel']) = Len(old)
      BY <1>a, <1>7, <1>8
    <3> QED
      BY <1>11, <3>1
  <2> QED
    BY <2>1, <2>2, <2>3 DEF BytesNumbered
<1> QED
  BY <1>9, <1>12 DEF Order

(* Each step keeps the order.                                               *)
LEMMA OrderStep ==
    ASSUME UartAssumption, TypeOK, Driver, Order, Next
    PROVE  Order'
<1>1. ASSUME NEW len \in 1..TxMax, HalUARTWrite(len) PROVE Order'
  BY <1>1, OrderUnchanged DEF HalUARTWrite
<1>2. CASE HalUARTWriteDone
  BY <1>2, OrderWriteDone DEF Driver
<1>3. CASE DmaByte
  BY <1>3, OrderDmaByte
<1>4. CASE DmaIsr
  <2>1. ~dma.armed
    BY <1>4 DEF DmaIsr, Driver, TransferInv
  <2> QED
    BY <1>4, <2>1, OrderIsr DEF DmaIsr
<1>5. CASE TxPoll
  <2>1. UNCHANGED <<sent, wrote>>
    BY <1>5 DEF TxPoll
  <2>2. CASE Fire
    BY <2>1, <2>2, OrderFire
  <2>3. CASE Rekick
    BY <2>1, <2>3, OrderIsr DEF Rekick
  <2>4. CASE Pass
    BY <2>1, <2>4, OrderUnchanged DEF Pass
  <2> QED
    BY <1>5, <2>2, <2>3, <2>4 DEF TxPoll
<1>6. CASE RxByte \/ RxPoll \/ RxCount \/ SerialTx_CallBack
  BY <1>6, OrderUnchanged DEF RxByte, RxPoll, RxCount, SerialTx_CallBack, txVars
<1>7. CASE Tick
  BY <1>7, OrderUnchanged DEF Tick
<1> QED
  BY <1>1, <1>2, <1>3, <1>4, <1>5, <1>6, <1>7 DEF Next

(* The numbered bytes are the stream.                                       *)
LEMMA OrderIsIntact ==
    ASSUME TypeOK, Order
    PROVE  TxStreamIntact
<1> DEFINE queue == txBuf[txSel]
           other == txBuf[1 - txSel]
           left  == InFlight \o queue
<1>a. /\ txSel \in 0..1 /\ 1 - txSel \in 0..1
      /\ Len(queue) \in Nat /\ Len(other) \in Nat
      /\ sent \in Nat /\ wrote \in Nat /\ TxNum \in Nat \ {0}
      /\ dma.pos \in Nat /\ dma.pos >= 1 /\ dma.len \in Nat /\ Rem \in Nat
  BY UartAssumption, OrderFacts
<1>b. queue \in Seq(0..TxNum-1) /\ other \in Seq(0..TxNum-1)
  BY <1>a, TypeSplits, UartAssumption, TxFacts
<1>1. /\ InFlight \in Seq(0..TxNum-1) /\ Len(InFlight) = Rem
      /\ \A i \in 1..Rem : InFlight[i] = (sent + (i - 1)) % TxNum
  <2>1. CASE dma.armed
    <3>1. /\ dma.buf = 1 - txSel /\ dma.len = Len(other) /\ dma.pos <= dma.len
          /\ \A i \in dma.pos..dma.len : other[i] = (sent + (i - dma.pos)) % TxNum
      BY <2>1 DEF Order, TransferIsOfOther, BytesNumbered
    <3>2. InFlight = SubSeq(other, dma.pos, dma.len)
      <4>1. dma.buf = 1 - txSel /\ dma.len <= Len(txBuf[1 - txSel])
        BY <1>a, <3>1
      <4>2. InFlight = SubSeq(txBuf[1 - txSel], dma.pos, dma.len)
        BY <2>1, <4>1 DEF InFlight
      <4> QED
        BY <4>2
    <3>3. Rem = dma.len - dma.pos + 1
      BY <2>1 DEF Rem
    <3> HIDE DEF other
    <3>4. /\ SubSeq(other, dma.pos, dma.len) \in Seq(0..TxNum-1)
          /\ Len(SubSeq(other, dma.pos, dma.len)) = dma.len - dma.pos + 1
          /\ \A i \in 1..(dma.len - dma.pos + 1) :
               SubSeq(other, dma.pos, dma.len)[i] = other[dma.pos + i - 1]
      <4>1. dma.pos \in Int /\ dma.len \in Int /\ dma.pos <= dma.len
        BY <1>a, <3>1
      <4>2. \A i \in dma.pos..dma.len : other[i] \in 0..TxNum-1
        <5>1. \A i \in dma.pos..dma.len : i \in 1..Len(other)
          BY <1>a, <3>1
        <5> QED
          BY <1>b, <5>1, ElementOfSeq
      <4> QED
        BY <4>1, <4>2, SubSeqProperties
    <3>5. ASSUME NEW i \in 1..Rem PROVE InFlight[i] = (sent + (i - 1)) % TxNum
      <4>1. dma.pos + i - 1 \in dma.pos..dma.len /\ (dma.pos + i - 1) - dma.pos = i - 1
        BY <1>a, <3>3
      <4> QED
        BY <3>1, <3>2, <3>3, <3>4, <4>1
    <3> QED
      BY <3>2, <3>3, <3>4, <3>5
  <2>2. CASE ~dma.armed
    <3>1. InFlight = <<>> /\ Rem = 0
      BY <2>2 DEF InFlight, Rem
    <3> QED
      BY <3>1, EmptySeq
  <2> QED
    BY <2>1, <2>2
<1>2. /\ \A i \in 1..Len(queue) : queue[i] = (sent + (Rem + i - 1)) % TxNum
      /\ wrote = (sent + (Rem + Len(queue))) % TxNum
  BY DEF Order, BytesNumbered
<1> HIDE DEF queue
<1>3. /\ left \in Seq(0..TxNum-1) /\ Len(left) = Rem + Len(queue)
      /\ \A i \in 1..Rem + Len(queue) :
           left[i] = IF i <= Rem THEN InFlight[i] ELSE queue[i - Rem]
  BY <1>b, <1>1, ConcatProperties
<1>4. ASSUME NEW i \in 1..Len(left) PROVE left[i] = (sent + i - 1) % TxNum
  <2>1. i \in 1..Rem + Len(queue)
    BY <1>3
  <2>2. CASE i <= Rem
    <3>1. i \in 1..Rem /\ sent + (i - 1) = sent + i - 1
      BY <1>a, <2>1, <2>2
    <3> QED
      BY <1>1, <1>3, <2>1, <2>2, <3>1
  <2>3. CASE ~(i <= Rem)
    <3>1. i - Rem \in 1..Len(queue) /\ sent + (Rem + (i - Rem) - 1) = sent + i - 1
      BY <1>a, <2>1, <2>3
    <3>2. left[i] = queue[i - Rem]
      BY <1>3, <2>1, <2>3
    <3> QED
      BY <1>2, <3>1, <3>2
  <2> QED
    BY <2>2, <2>3
<1>5. left = Numbers(sent, Len(left), TxNum)
  <2>1. left = [i \in 1..Len(left) |-> left[i]]
    <3> HIDE DEF left
    <3> QED
      BY <1>3, SeqDef
  <2> HIDE DEF left
  <2> QED
    BY <1>4, <2>1 DEF Numbers
<1>6. (sent + Len(left)) % TxNum = wrote
  BY <1>2, <1>3
<1> QED
  BY <1>5, <1>6 DEF TxStreamIntact, queue

-----------------------------------------------------------------------------
(* Theorems.                                                                *)

LEMMA Invariance == Spec => []Inv
<1>1. Init => Inv
  BY UartAssumption, InitInv
<1>2. Inv /\ [Next]_vars => Inv'
  <2> SUFFICES ASSUME Inv, [Next]_vars PROVE Inv'
    OBVIOUS
  <2>1. CASE Next
    <3>1. TypeOK /\ WriteInv /\ Driver
      BY DEF Inv, Driver
    <3>2. TypeOK'
      <4>1. TxTyped'
        BY <2>1, <3>1, UartAssumption, TxStep
      <4>2. lane' \in {"tx", "rx"} /\ gap' \in Nat /\ RxTyped'
        BY <2>1, <3>1, UartAssumption, RxStep
      <4> QED
        BY <4>1, <4>2 DEF TypeOK, TxTyped, RxTyped
    <3>3. Driver'
      BY <2>1, <3>1, UartAssumption, DriverStep
    <3> QED
      BY <3>2, <3>3 DEF Inv
  <2>2. CASE UNCHANGED vars
    <3>1. UNCHANGED txVars
      BY <2>2 DEF vars
    <3>2. Driver'
      BY <3>1, DriverUnchanged DEF Inv
    <3>3. TypeOK'
      BY <2>2 DEF Inv, TypeOK, vars, txVars, rxVars
    <3> QED
      BY <3>2, <3>3 DEF Inv
  <2> QED
    BY <2>1, <2>2
<1> QED
  BY <1>1, <1>2, PTL DEF Spec

(* Types, for any sizes of buffers and ring.                                *)
THEOREM TypeCorrect == Spec => []TypeOK
<1>1. Inv => TypeOK
  BY DEF Inv
<1> QED
  BY <1>1, Invariance, PTL

(* While a poll waits for the line, or has a transfer to start, the         *)
(* transfer interrupt cannot come and the channel is idle.                  *)
THEOREM InterruptIsExcluded == Spec => []IsrIsExcluded
<1>1. Inv => IsrIsExcluded
  BY DEF Inv, Driver
<1> QED
  BY <1>1, Invariance, PTL

(* No transfer starts within a character time of the last byte, however     *)
(* late the polls are.                                                      *)
THEOREM TransfersWaitForTheLine == Spec => NoEarlyFire
<1>1. Inv /\ [Next]_vars => [~dma.armed /\ dma'.armed => dbufAge > TxTick]_vars
  <2> SUFFICES ASSUME Inv, Next, ~dma.armed, dma'.armed
               PROVE  dbufAge > TxTick
    OBVIOUS
  <2>1. CASE Fire
    BY <2>1, UartAssumption, FireIsLate DEF Inv
  <2>2. CASE ~Fire
    <3>1. dma' = dma \/ DmaByte
      BY <2>2 DEF Next, HalUARTWrite, HalUARTWriteDone, DmaIsr, TxPoll, Rekick, Pass,
                  RxByte, RxPoll, RxCount, SerialTx_CallBack, Tick, txVars
    <3> QED
      BY <3>1 DEF DmaByte
  <2> QED
    BY <2>1, <2>2
<1> QED
  BY <1>1, Invariance, PTL DEF Spec, NoEarlyFire

(* No byte accepted for transmission is lost, doubled or overtaken, for any *)
(* sizes, lateness and order of write, transfer, interrupt and poll: the    *)
(* transmit half of BytesInOrder.                                           *)
THEOREM TransmitKeepsOrder == Spec => [](lane = "tx" => BytesInOrder)
<1>1. Init => Order
  <2> SUFFICES ASSUME Init PROVE Order
    OBVIOUS
  <2>1. /\ txSel = 0 /\ txBuf = [b \in 0..1 |-> <<>>] /\ ~txDMAPending /\ ~dma.armed
        /\ sent = 0 /\ wrote = 0
    BY DEF Init, Idle
  <2>2. txBuf[txSel] = <<>> /\ Len(txBuf[txSel]) = 0 /\ Rem = 0
    BY <2>1, EmptySeq DEF Rem
  <2>3. 0 % TxNum = 0
    BY UartAssumption, ConstFacts
  <2> QED
    BY <2>1, <2>2, <2>3 DEF Order, TransferIsOfOther, BytesNumbered
<1>2. Inv /\ Order /\ [Next]_vars => Order'
  <2> SUFFICES ASSUME Inv, Order, [Next]_vars PROVE Order'
    OBVIOUS
  <2>1. CASE Next
    BY <2>1, UartAssumption, OrderStep DEF Inv
  <2>2. CASE UNCHANGED vars
    BY <2>2, OrderUnchanged DEF vars, txVars
  <2> QED
    BY <2>1, <2>2
<1>3. Inv /\ Order => (lane = "tx" => BytesInOrder)
  BY UartAssumption, OrderIsIntact DEF Inv, BytesInOrder
<1> QED
  BY <1>1, <1>2, <1>3, Invariance, PTL DEF Spec
=============================================================================
