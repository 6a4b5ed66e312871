---------------------------- MODULE RoutineProofs ----------------------------
(***************************************************************************)
(* Proofs about the routines that loop over bytes, words or readings, for   *)
(* every size: the transfers of the I3C driver, the delay, the C library    *)
(* and the start-up code.  The invariant of each says how far its loop has  *)
(* come.                                                                    *)
(***************************************************************************)
EXTENDS I3c, Delay, Libc, StartUp, SequenceTheorems, TLAPS

----------------------------------------------------------------------------
\* I3C: bytes are numbered, so what has left a FIFO and what is in it count on.

Numbered(a, b, n) ==
    /\ Len(a) + Len(b) = n
    /\ \A i \in 1..Len(a) : a[i] = i
    /\ \A i \in 1..Len(b) : b[i] = Len(a) + i

\* The order of the bytes, seen as one sequence or as two.
LEMMA NumberedWhole ==
    ASSUME NEW a \in Seq(Bytes), NEW b \in Seq(Bytes), NEW n, Numbered(a, b, n)
    PROVE  a \o b = [i \in 1..n |-> i]
<1>1. /\ Len(a) \in Nat /\ Len(b) \in Nat /\ n = Len(a) + Len(b)
      /\ \A i \in 1..Len(a) : a[i] = i
      /\ \A i \in 1..Len(b) : b[i] = Len(a) + i
  BY DEF Numbered
<1>2. /\ a \o b \in Seq(Bytes) /\ Len(a \o b) = Len(a) + Len(b)
      /\ \A i \in 1..(Len(a) + Len(b)) : (a \o b)[i] = IF i <= Len(a) THEN a[i] ELSE b[i - Len(a)]
  BY ConcatProperties
<1>3. ASSUME NEW i \in 1..n PROVE (a \o b)[i] = i
  <2>1. (a \o b)[i] = IF i <= Len(a) THEN a[i] ELSE b[i - Len(a)]
    BY <1>1, <1>2
  <2>2. CASE i <= Len(a)
    BY <1>1, <2>1, <2>2
  <2>3. CASE ~(i <= Len(a))
    <3>1. i - Len(a) \in 1..Len(b) /\ Len(a) + (i - Len(a)) = i
      BY <1>1, <2>3
    <3> QED BY <1>1, <2>1, <2>3, <3>1
  <2> QED BY <2>2, <2>3
<1> DEFINE w == a \o b
<1> HIDE DEF w
<1>4. w \in Seq(Bytes) /\ Len(w) = n /\ \A i \in 1..n : w[i] = i
  BY <1>1, <1>2, <1>3 DEF w
<1>5. w = [i \in 1..n |-> i]
  <2>1. w = [i \in 1..Len(w) |-> w[i]]
    BY <1>4
  <2> QED BY <1>4, <2>1
<1> QED BY <1>5 DEF w

\* Nothing has passed since a reset.
LEMMA NumberedEmpty == Numbered(<<>>, <<>>, 0)
BY DEF Numbered

\* The next byte enters.
LEMMA NumberedAppend ==
    ASSUME NEW a \in Seq(Bytes), NEW b \in Seq(Bytes), NEW n \in Nat, Numbered(a, b, n),
           n + 1 \in Bytes
    PROVE  Append(b, n + 1) \in Seq(Bytes) /\ Numbered(a, Append(b, n + 1), n + 1)
<1>1. /\ Append(b, n + 1) \in Seq(Bytes) /\ Len(Append(b, n + 1)) = Len(b) + 1
      /\ \A i \in 1..Len(b) : Append(b, n + 1)[i] = b[i]
      /\ Append(b, n + 1)[Len(b) + 1] = n + 1
  BY AppendProperties
<1> DEFINE w == Append(b, n + 1)
<1> HIDE DEF w
<1>2. /\ w \in Seq(Bytes) /\ Len(w) = Len(b) + 1
      /\ \A i \in 1..Len(b) : w[i] = b[i]
      /\ w[Len(b) + 1] = n + 1
  BY <1>1 DEF w
<1>3. Len(a) \in Nat /\ Len(b) \in Nat
  OBVIOUS
<1>4. ASSUME NEW i \in 1..Len(w) PROVE w[i] = Len(a) + i
  <2>1. CASE i = Len(b) + 1
    <3>1. Len(a) + Len(b) = n
      BY DEF Numbered
    <3>2. w[i] = n + 1
      BY <1>2, <2>1
    <3> QED BY <1>3, <2>1, <3>1, <3>2
  <2>2. CASE i # Len(b) + 1
    <3>1. i \in 1..Len(b)
      BY <1>2, <1>3, <2>2
    <3> QED BY <1>2, <3>1 DEF Numbered
  <2> QED BY <2>1, <2>2
<1>5. Numbered(a, w, n + 1)
  <2>1. Len(a) + Len(b) = n
    BY DEF Numbered
  <2> QED BY <1>2, <1>3, <1>4, <2>1 DEF Numbered
<1> QED BY <1>2, <1>5 DEF w

\* The oldest byte leaves.
LEMMA NumberedMove ==
    ASSUME NEW a \in Seq(Bytes), NEW b \in Seq(Bytes), NEW n, Numbered(a, b, n), b # <<>>
    PROVE  /\ Append(a, b[1]) \in Seq(Bytes) /\ Tail(b) \in Seq(Bytes)
           /\ Len(Tail(b)) = Len(b) - 1 /\ Len(Append(a, b[1])) = Len(a) + 1
           /\ Numbered(Append(a, b[1]), Tail(b), n)
<1>1. /\ Len(b) \in Nat \ {0} /\ Len(Tail(b)) = Len(b) - 1
      /\ \A i \in 1..Len(Tail(b)) : Tail(b)[i] = b[i + 1]
      /\ b[1] \in Bytes /\ Tail(b) \in Seq(Bytes)
  BY HeadTailProperties, EmptySeq
<1>2. /\ Append(a, b[1]) \in Seq(Bytes) /\ Len(Append(a, b[1])) = Len(a) + 1
      /\ \A i \in 1..Len(a) : Append(a, b[1])[i] = a[i]
      /\ Append(a, b[1])[Len(a) + 1] = b[1]
  BY <1>1, AppendProperties
<1> DEFINE u == Append(a, b[1])
           w == Tail(b)
<1> HIDE DEF u, w
<1>3. /\ Len(b) \in Nat \ {0} /\ Len(w) = Len(b) - 1 /\ Len(u) = Len(a) + 1
      /\ \A i \in 1..Len(w) : w[i] = b[i + 1]
      /\ \A i \in 1..Len(a) : u[i] = a[i]
      /\ u[Len(a) + 1] = b[1] /\ Len(a) \in Nat
      /\ u \in Seq(Bytes) /\ w \in Seq(Bytes)
  BY <1>1, <1>2 DEF u, w
<1>4. b[1] = Len(a) + 1
  <2>1. 1 \in 1..Len(b)
    BY <1>3
  <2> QED BY <2>1 DEF Numbered
<1>5. ASSUME NEW i \in 1..Len(u) PROVE u[i] = i
  <2>1. i \in 1..Len(a) \/ i = Len(a) + 1
    BY <1>3
  <2> QED BY <1>3, <1>4, <2>1 DEF Numbered
<1>6. ASSUME NEW i \in 1..Len(w) PROVE w[i] = Len(u) + i
  <2>1. i + 1 \in 1..Len(b) /\ w[i] = b[i + 1]
    BY <1>3
  <2>2. b[i + 1] = Len(a) + (i + 1)
    BY <2>1 DEF Numbered
  <2> QED BY <1>3, <2>1, <2>2
<1>7. Numbered(u, w, n)
  <2>1. Len(a) + Len(b) = n
    BY DEF Numbered
  <2> QED BY <1>3, <1>5, <1>6, <2>1 DEF Numbered
<1> QED BY <1>3, <1>7 DEF u, w

\* A FIFO is held in reset only by the step of a call that will let it go, and
\* a level that was read keeps its meaning until it is used: only the driver
\* fills the TX FIFO, and only the driver empties the RX FIFO.
Resetting ==
    /\ "TX_RST" \in ctrl => i3cCall \in {"init", "clear_tx"} /\ i3cPc = 1
    /\ "RX_RST" \in ctrl => i3cCall \in {"init", "clear_rx"} /\ i3cPc = 3

CallSteps ==
    /\ i3cCall = "init" => i3cPc \in 0..4
    /\ i3cCall = "clear_tx" => i3cPc \in 0..1
    /\ i3cCall = "clear_rx" => i3cPc \in 2..3
    /\ i3cCall = "write" => txNext + i3cPc <= MaxBytes
    /\ i3cCall = "read" => Len(buffer) + i3cPc <= MaxBytes

LevelHolds ==
    /\ i3cCall = "write" /\ room => Len(txFifo) < FifoDepth
    /\ i3cCall = "read" /\ room => rxFifo # <<>>

I3cInv ==
    /\ I3cTypeOK /\ Resetting /\ CallSteps /\ LevelHolds
    /\ Numbered(peerGot, txFifo, txNext) /\ Numbered(buffer, rxFifo, rxNext)
    /\ intrLost = {}

I3cFlags == {room, isr, peerAlive} \subseteq BOOLEAN

\* Types without the flags.
I3cTypes ==
    /\ ctrl \subseteq {"ENABLE", "TX_RST", "RX_RST"}
    /\ txFifo \in Seq(Bytes) /\ rxFifo \in Seq(Bytes)
    /\ peerGot \in Seq(Bytes) /\ buffer \in Seq(Bytes)
    /\ Len(txFifo) <= FifoDepth /\ Len(rxFifo) <= FifoDepth
    /\ txNext \in Bytes /\ rxNext \in Bytes
    /\ dynAddr \in 0..255
    /\ intrStatus \subseteq Interrupts /\ intrRead \subseteq Interrupts
    /\ i3cCall \in {"none", "init", "clear_tx", "clear_rx", "write", "read"}
    /\ i3cPc \in Nat

\* The type invariant in two halves.
LEMMA I3cTypesAre ==
    ASSUME intrLost = {}
    PROVE  I3cTypeOK <=> I3cTypes /\ I3cFlags
BY DEF I3cTypeOK, I3cTypes, I3cFlags

\* The initial state: both FIFOs are empty.
LEMMA I3cInitInv == I3cInit => I3cInv
<1> SUFFICES ASSUME I3cInit PROVE I3cInv
  OBVIOUS
<1>1. I3cFlags
  BY Zenon DEF I3cInit, I3cFlags
<1>2. I3cTypes
  BY I3cAssumption DEF I3cInit, I3cTypes, Bytes
<1>3. Resetting /\ CallSteps /\ LevelHolds /\ intrLost = {}
  BY DEF I3cInit, Resetting, CallSteps, LevelHolds
<1>4. Numbered(peerGot, txFifo, txNext) /\ Numbered(buffer, rxFifo, rxNext)
  BY NumberedEmpty DEF I3cInit
<1> QED BY <1>1, <1>2, <1>3, <1>4, I3cTypesAre DEF I3cInv

\* An update of CTRL, with the call that makes it, as it is allowed to.
LEMMA CtrlKeeps ==
    ASSUME I3cInv, NEW bits \in SUBSET {"ENABLE", "TX_RST", "RX_RST"}, WriteCtrl(bits),
           i3cCall' \in {"none", "init", "clear_tx", "clear_rx"}, i3cPc' \in Nat,
           UNCHANGED <<dynAddr, peerAlive, intrVars, room>>,
           "TX_RST" \in bits => i3cCall' \in {"init", "clear_tx"} /\ i3cPc' = 1,
           "RX_RST" \in bits => i3cCall' \in {"init", "clear_rx"} /\ i3cPc' = 3,
           i3cCall' = "init" => i3cPc' \in 0..4,
           i3cCall' = "clear_tx" => i3cPc' \in 0..1,
           i3cCall' = "clear_rx" => i3cPc' \in 2..3
    PROVE  I3cInv'
<1>1. I3cTypes /\ I3cFlags /\ intrLost = {}
      /\ Numbered(peerGot, txFifo, txNext) /\ Numbered(buffer, rxFifo, rxNext)
  BY I3cTypesAre DEF I3cInv
<1>2. /\ ctrl' = bits
      /\ \/ txFifo' = <<>> /\ peerGot' = <<>> /\ txNext' = 0
         \/ UNCHANGED <<txFifo, peerGot, txNext>>
      /\ \/ rxFifo' = <<>> /\ buffer' = <<>> /\ rxNext' = 0
         \/ UNCHANGED <<rxFifo, buffer, rxNext>>
  BY DEF WriteCtrl
<1>3. Numbered(peerGot', txFifo', txNext') /\ Numbered(buffer', rxFifo', rxNext')
  BY <1>1, <1>2, NumberedEmpty
<1>4. /\ txFifo' \in Seq(Bytes) /\ peerGot' \in Seq(Bytes) /\ Len(txFifo') <= FifoDepth
      /\ txNext' \in Bytes
  <2>1. CASE txFifo' = <<>> /\ peerGot' = <<>> /\ txNext' = 0
    BY <2>1, I3cAssumption DEF Bytes
  <2>2. CASE UNCHANGED <<txFifo, peerGot, txNext>>
    BY <1>1, <2>2 DEF I3cTypes
  <2> QED BY <1>2, <2>1, <2>2
<1>5. /\ rxFifo' \in Seq(Bytes) /\ buffer' \in Seq(Bytes) /\ Len(rxFifo') <= FifoDepth
      /\ rxNext' \in Bytes
  <2>1. CASE rxFifo' = <<>> /\ buffer' = <<>> /\ rxNext' = 0
    BY <2>1, I3cAssumption DEF Bytes
  <2>2. CASE UNCHANGED <<rxFifo, buffer, rxNext>>
    BY <1>1, <2>2 DEF I3cTypes
  <2> QED BY <1>2, <2>1, <2>2
<1>6. I3cTypes' /\ intrLost' = {}
  BY <1>1, <1>2, <1>4, <1>5 DEF I3cTypes, intrVars
<1>7. I3cFlags'
  BY <1>1, Zenon DEF I3cFlags, intrVars
<1>8. I3cTypeOK'
  BY <1>6, <1>7 DEF I3cTypeOK, I3cTypes, I3cFlags
<1>9. Resetting' /\ CallSteps' /\ LevelHolds'
  BY <1>2 DEF Resetting, CallSteps, LevelHolds
<1> QED BY <1>3, <1>6, <1>8, <1>9 DEF I3cInv

\* The updates of init, clear_tx_fifo and clear_rx_fifo.
LEMMA InitStepKeeps ==
    ASSUME I3cInv, InitStep
    PROVE  I3cInv'
<1>1. /\ i3cCall \in {"init", "clear_tx", "clear_rx"}
      /\ WriteCtrl(InitWrites[i3cPc + 1])
      /\ i3cPc' = i3cPc + 1
      /\ i3cCall' = IF i3cPc' = LastWrite THEN "none" ELSE i3cCall
      /\ UNCHANGED <<dynAddr, peerAlive, intrVars, room>>
  BY DEF InitStep
<1>2. /\ i3cPc \in {0, 1, 2, 3, 4}
      /\ i3cCall = "clear_tx" => i3cPc \in {0, 1}
      /\ i3cCall = "clear_rx" => i3cPc \in {2, 3}
      /\ ctrl \subseteq {"ENABLE", "TX_RST", "RX_RST"}
      /\ "TX_RST" \in ctrl => i3cPc = 1
      /\ "RX_RST" \in ctrl => i3cPc = 3
  BY <1>1 DEF I3cInv, CallSteps, Resetting, I3cTypeOK
<1>3. LastWrite = IF i3cCall = "clear_tx" THEN 2 ELSE IF i3cCall = "clear_rx" THEN 4 ELSE 5
  BY DEF LastWrite
<1>4. /\ InitWrites[1] = ctrl \cup {"TX_RST"} /\ InitWrites[2] = ctrl \ {"TX_RST"}
      /\ InitWrites[3] = ctrl \cup {"RX_RST"} /\ InitWrites[4] = ctrl \ {"RX_RST"}
      /\ InitWrites[5] = ctrl \cup {"ENABLE"}
  BY DEF InitWrites
<1>5. PICK bits : /\ bits = InitWrites[i3cPc + 1]
                  /\ \/ i3cPc = 0 /\ bits = ctrl \cup {"TX_RST"}
                     \/ i3cPc = 1 /\ bits = ctrl \ {"TX_RST"}
                     \/ i3cPc = 2 /\ bits = ctrl \cup {"RX_RST"}
                     \/ i3cPc = 3 /\ bits = ctrl \ {"RX_RST"}
                     \/ i3cPc = 4 /\ bits = ctrl \cup {"ENABLE"}
  <2>1. /\ i3cPc = 0 => InitWrites[i3cPc + 1] = ctrl \cup {"TX_RST"}
        /\ i3cPc = 1 => InitWrites[i3cPc + 1] = ctrl \ {"TX_RST"}
        /\ i3cPc = 2 => InitWrites[i3cPc + 1] = ctrl \cup {"RX_RST"}
        /\ i3cPc = 3 => InitWrites[i3cPc + 1] = ctrl \ {"RX_RST"}
        /\ i3cPc = 4 => InitWrites[i3cPc + 1] = ctrl \cup {"ENABLE"}
    BY <1>4
  <2> QED BY <1>2, <2>1
<1>6. bits \in SUBSET {"ENABLE", "TX_RST", "RX_RST"}
  BY <1>2, <1>5
<1>7. "TX_RST" \in bits => i3cPc = 0
  BY <1>2, <1>5
<1>8. "RX_RST" \in bits => i3cPc = 2
  BY <1>2, <1>5
<1>9. /\ i3cPc' \in Nat
      /\ i3cCall' \in {"none", "init", "clear_tx", "clear_rx"}
      /\ i3cCall' # "none" => i3cCall' = i3cCall
      /\ i3cPc = 0 => i3cCall' \in {"init", "clear_tx"} /\ i3cPc' = 1
      /\ i3cPc = 2 => i3cCall' \in {"init", "clear_rx"} /\ i3cPc' = 3
  BY <1>1, <1>2, <1>3
<1>10. /\ i3cCall' = "init" => i3cPc' \in 0..4
       /\ i3cCall' = "clear_tx" => i3cPc' \in 0..1
       /\ i3cCall' = "clear_rx" => i3cPc' \in 2..3
  BY <1>1, <1>2, <1>3
<1> QED BY <1>1, <1>5, <1>6, <1>7, <1>8, <1>9, <1>10, CtrlKeeps

\* A step that leaves both FIFOs as they are.
LEMMA QuietKeeps ==
    ASSUME I3cInv, UNCHANGED <<ctrl, txFifo, rxFifo, txNext, rxNext, peerGot, buffer>>,
           dynAddr' \in 0..255, I3cFlags', intrLost' = {},
           intrStatus' \subseteq Interrupts, intrRead' \subseteq Interrupts,
           i3cCall' \in {"none", "init", "clear_tx", "clear_rx", "write", "read"},
           i3cPc' \in Nat, Resetting', CallSteps', LevelHolds'
    PROVE  I3cInv'
<1>1. I3cTypeOK'
  BY DEF I3cInv, I3cTypeOK, I3cFlags
<1> QED BY <1>1 DEF I3cInv

\* A call begins.
LEMMA I3cCallKeeps ==
    ASSUME I3cInv,
           NEW name \in {"init", "clear_tx", "clear_rx", "write", "read"}, NEW n \in Nat,
           I3cCall(name, n),
           UNCHANGED <<i3cRegs, txNext, peerVars, buffer, intrVars>>,
           name \in {"init", "clear_tx"} => n = 0, name = "clear_rx" => n = 2,
           name = "write" => txNext + n <= MaxBytes,
           name = "read" => Len(buffer) + n <= MaxBytes
    PROVE  I3cInv'
<1>1. /\ i3cCall = "none" /\ i3cCall' = name /\ i3cPc' = n /\ room' = FALSE
      /\ UNCHANGED <<ctrl, txFifo, rxFifo, txNext, rxNext, peerGot, buffer, dynAddr>>
      /\ UNCHANGED <<intrStatus, intrRead, intrLost>>
      /\ UNCHANGED <<isr, peerAlive>>
  BY DEF I3cCall, i3cRegs, peerVars, intrVars
<1>2. I3cFlags'
  BY <1>1, Zenon DEF I3cInv, I3cTypeOK, I3cFlags
<1>3. Resetting'
  BY <1>1 DEF I3cInv, Resetting
<1>4. CallSteps'
  BY <1>1 DEF CallSteps
<1>5. LevelHolds'
  BY <1>1 DEF LevelHolds
<1>6. /\ dynAddr' \in 0..255 /\ intrLost' = {}
      /\ intrStatus' \subseteq Interrupts /\ intrRead' \subseteq Interrupts
  BY <1>1 DEF I3cInv, I3cTypeOK
<1> QED BY <1>1, <1>2, <1>3, <1>4, <1>5, <1>6, QuietKeeps

\* The driver looks at a level, or has transferred the last byte.
LEMMA PollKeepsFifos ==
    ASSUME I3cInv, PollTx \/ PollRx \/ TransferDone
    PROVE  I3cInv'
<1>1. /\ UNCHANGED <<ctrl, txFifo, rxFifo, txNext, rxNext, peerGot, buffer, dynAddr>>
      /\ UNCHANGED <<intrStatus, intrRead, intrLost, i3cPc>>
      /\ i3cCall \in {"write", "read"}
      /\ i3cCall' \in {"none", i3cCall}
  BY DEF PollTx, PollRx, TransferDone, i3cRegs, peerVars, intrVars
<1>2. UNCHANGED <<isr, peerAlive>>
  BY DEF PollTx, PollRx, TransferDone, peerVars, intrVars
<1>3. /\ i3cCall' = "write" => room' = (tx_fifo_level < FifoDepth)
      /\ i3cCall' = "read" => room' = (rx_fifo_level # 0)
  BY DEF PollTx, PollRx, TransferDone
<1>4. I3cFlags'
  <2>1. room' \in BOOLEAN
    <3>1. room \in BOOLEAN
      BY Zenon DEF I3cInv, I3cTypeOK
    <3>2. ASSUME PollTx PROVE room' \in BOOLEAN
      <4>1. room' = (tx_fifo_level < FifoDepth)
        BY <3>2, Zenon DEF PollTx
      <4> QED BY <4>1
    <3>3. ASSUME PollRx PROVE room' \in BOOLEAN
      <4>1. room' = (rx_fifo_level # 0)
        BY <3>3, Zenon DEF PollRx
      <4> QED BY <4>1
    <3>4. TransferDone => room' = room
      BY DEF TransferDone
    <3> QED BY <3>1, <3>2, <3>3, <3>4, Zenon
  <2>2. isr' \in BOOLEAN /\ peerAlive' \in BOOLEAN
    BY <1>2, Zenon DEF I3cInv, I3cTypeOK
  <2> QED BY <2>1, <2>2, Zenon DEF I3cFlags
<1>5. Resetting'
  BY <1>1 DEF I3cInv, Resetting
<1>6. CallSteps'
  BY <1>1 DEF I3cInv, CallSteps
<1>7. tx_fifo_level = Len(txFifo) /\ rx_fifo_level = Len(rxFifo)
  <2>1. /\ Len(txFifo) \in Nat /\ Len(txFifo) <= FifoDepth /\ FifoDepth \in 1..31
        /\ Len(rxFifo) \in Nat /\ Len(rxFifo) <= FifoDepth
    BY I3cAssumption DEF I3cInv, I3cTypeOK
  <2> QED BY <2>1 DEF tx_fifo_level, rx_fifo_level
<1>8. LevelHolds'
  <2>1. rx_fifo_level # 0 => rxFifo # <<>>
    BY <1>7
  <2> QED BY <1>1, <1>3, <1>7, <2>1 DEF LevelHolds
<1>9. /\ dynAddr' \in 0..255 /\ intrLost' = {} /\ i3cPc' \in Nat
      /\ intrStatus' \subseteq Interrupts /\ intrRead' \subseteq Interrupts
  BY <1>1 DEF I3cInv, I3cTypeOK
<1> QED BY <1>1, <1>4, <1>5, <1>6, <1>8, <1>9, QuietKeeps

\* The address, the handler, an interrupt, or the peer falling silent.
LEMMA AsideKeeps ==
    ASSUME I3cInv,
           \/ \E a \in Addresses : set_dynamic_address(a)
           \/ handle_interrupt \/ HandlerClears
           \/ \E i \in Interrupts : Interrupt(i)
           \/ PeerFallsSilent
    PROVE  I3cInv'
<1> USE DEF set_dynamic_address, handle_interrupt, HandlerClears, ClearInterrupts, Interrupt,
            PeerFallsSilent, i3cRegs, peerVars, callVars
<1>1. /\ UNCHANGED <<ctrl, txFifo, rxFifo, txNext, rxNext, peerGot, buffer>>
      /\ UNCHANGED <<i3cCall, i3cPc>>
  OBVIOUS
<1>2. UNCHANGED room
  OBVIOUS
<1>3. I3cFlags'
  <2>1. room \in BOOLEAN /\ isr \in BOOLEAN /\ peerAlive \in BOOLEAN
    BY Zenon DEF I3cInv, I3cTypeOK
  <2>2. room' \in BOOLEAN
    BY <1>2, <2>1, Zenon
  <2>3. isr' \in BOOLEAN
    BY <2>1 DEF intrVars
  <2>4. peerAlive' \in BOOLEAN
    BY <2>1
  <2> QED BY <2>2, <2>3, <2>4, Zenon DEF I3cFlags
<1>4. /\ dynAddr' \in 0..255 /\ intrLost' = {}
      /\ intrStatus' \subseteq Interrupts /\ intrRead' \subseteq Interrupts
  <2>1. /\ dynAddr \in 0..255 /\ intrLost = {} /\ Addresses \subseteq 0..255
        /\ intrStatus \subseteq Interrupts /\ intrRead \subseteq Interrupts
    BY I3cAssumption DEF I3cInv, I3cTypeOK
  <2> QED BY <2>1 DEF intrVars
<1>5. Resetting' /\ CallSteps' /\ LevelHolds'
  BY <1>1, <1>2 DEF I3cInv, Resetting, CallSteps, LevelHolds
<1>6. /\ i3cCall' \in {"none", "init", "clear_tx", "clear_rx", "write", "read"}
      /\ i3cPc' \in Nat
  BY <1>1 DEF I3cInv, I3cTypeOK
<1> QED BY <1>1, <1>3, <1>4, <1>5, <1>6, QuietKeeps

\* The driver writes a byte: the level it read says there is still room.
LEMMA WriteByteKeeps ==
    ASSUME I3cInv, WriteByte
    PROVE  I3cInv'
<1>0. I3cTypes /\ I3cFlags /\ intrLost = {}
  BY I3cTypesAre DEF I3cInv
<1>1. /\ i3cCall = "write" /\ i3cPc > 0 /\ PushTx(txNext + 1)
      /\ txNext' = txNext + 1 /\ i3cPc' = i3cPc - 1
      /\ UNCHANGED <<ctrl, rxFifo, dynAddr, rxNext, peerGot, buffer, i3cCall>>
      /\ UNCHANGED <<intrStatus, intrRead, intrLost>>
  BY DEF WriteByte, peerVars, intrVars
<1>2. room /\ room' = FALSE /\ UNCHANGED <<isr, peerAlive>>
  BY DEF WriteByte, peerVars, intrVars
<1>3. "TX_RST" \notin ctrl /\ Len(txFifo) < FifoDepth
  BY <1>1, <1>2 DEF I3cInv, Resetting, LevelHolds
<1>4. txFifo' = Append(txFifo, txNext + 1)
  BY <1>1, <1>3 DEF PushTx
<1>5. /\ txNext + i3cPc <= MaxBytes /\ txNext \in Nat /\ i3cPc \in Nat /\ MaxBytes \in Nat
      /\ txNext + 1 \in Bytes
  <2>1. txNext + i3cPc <= MaxBytes /\ txNext \in 0..MaxBytes /\ i3cPc \in Nat /\ MaxBytes \in Nat
    BY <1>0, <1>1, I3cAssumption DEF I3cInv, CallSteps, I3cTypes, Bytes
  <2> QED BY <1>1, <2>1 DEF Bytes
<1>6. txFifo' \in Seq(Bytes) /\ Numbered(peerGot, txFifo', txNext + 1)
  BY <1>0, <1>4, <1>5, NumberedAppend DEF I3cInv, I3cTypes
<1>7. Len(txFifo') <= FifoDepth
  <2>1. Len(txFifo') = Len(txFifo) + 1 /\ Len(txFifo) \in Nat
    BY <1>0, <1>4 DEF I3cTypes
  <2> QED BY <1>3, <2>1, I3cAssumption
<1>8. I3cTypeOK'
  <2>1. I3cFlags'
    BY <1>0, <1>2, Zenon DEF I3cFlags
  <2>2. i3cPc' \in Nat
    BY <1>1, <1>5
  <2> QED BY <1>0, <1>1, <1>5, <1>6, <1>7, <2>1, <2>2 DEF I3cTypeOK, I3cTypes, I3cFlags
<1>9. Resetting'
  BY <1>1 DEF I3cInv, Resetting
<1>10. CallSteps'
  BY <1>1, <1>5 DEF CallSteps
<1>11. LevelHolds'
  BY <1>2 DEF LevelHolds
<1> QED BY <1>0, <1>1, <1>6, <1>8, <1>9, <1>10, <1>11 DEF I3cInv

\* The driver reads a byte: the level it read says there is one.
LEMMA ReadByteKeeps ==
    ASSUME I3cInv, ReadByte
    PROVE  I3cInv'
<1>0. I3cTypes /\ I3cFlags /\ intrLost = {}
  BY I3cTypesAre DEF I3cInv
<1>1. /\ i3cCall = "read" /\ i3cPc > 0 /\ i3cPc' = i3cPc - 1
      /\ UNCHANGED <<ctrl, txFifo, dynAddr, txNext, rxNext, peerGot, i3cCall>>
      /\ UNCHANGED <<intrStatus, intrRead, intrLost>>
  BY DEF ReadByte, peerVars, intrVars
<1>2. room /\ room' = FALSE /\ UNCHANGED <<isr, peerAlive>>
  BY DEF ReadByte, peerVars, intrVars
<1>3. rxFifo # <<>>
  BY <1>1, <1>2 DEF I3cInv, LevelHolds
<1>4. buffer' = Append(buffer, rxFifo[1]) /\ rxFifo' = Tail(rxFifo)
  BY <1>3 DEF ReadByte
<1>5. /\ buffer' \in Seq(Bytes) /\ rxFifo' \in Seq(Bytes)
      /\ Len(rxFifo') = Len(rxFifo) - 1 /\ Len(buffer') = Len(buffer) + 1
      /\ Numbered(buffer', rxFifo', rxNext)
  BY <1>0, <1>3, <1>4, NumberedMove DEF I3cInv, I3cTypes
<1>6. /\ Len(buffer) + i3cPc <= MaxBytes /\ Len(buffer) \in Nat /\ i3cPc \in Nat
      /\ Len(rxFifo) <= FifoDepth /\ Len(rxFifo) \in Nat
  BY <1>0, <1>1 DEF I3cInv, CallSteps, I3cTypes
<1>7. I3cTypeOK'
  <2>1. I3cFlags'
    BY <1>0, <1>2, Zenon DEF I3cFlags
  <2>2. i3cPc' \in Nat /\ Len(rxFifo') <= FifoDepth
    BY <1>1, <1>5, <1>6, I3cAssumption
  <2> QED BY <1>0, <1>1, <1>5, <2>1, <2>2 DEF I3cTypeOK, I3cTypes, I3cFlags
<1>8. Resetting'
  BY <1>1 DEF I3cInv, Resetting
<1>9. CallSteps'
  <2>1. Len(buffer') + i3cPc' <= MaxBytes
    BY <1>1, <1>5, <1>6, I3cAssumption
  <2> QED BY <1>1, <2>1 DEF CallSteps
<1>10. LevelHolds'
  BY <1>2 DEF LevelHolds
<1> QED BY <1>0, <1>1, <1>5, <1>7, <1>8, <1>9, <1>10 DEF I3cInv

\* The peer takes a byte.
LEMMA PeerTakesKeeps ==
    ASSUME I3cInv, PeerTakes
    PROVE  I3cInv'
<1>0. I3cTypes /\ I3cFlags /\ intrLost = {}
  BY I3cTypesAre DEF I3cInv
<1>1. /\ txFifo # <<>> /\ peerGot' = Append(peerGot, txFifo[1]) /\ txFifo' = Tail(txFifo)
      /\ UNCHANGED <<ctrl, rxFifo, dynAddr, txNext, rxNext, buffer, i3cCall, i3cPc>>
      /\ UNCHANGED <<intrStatus, intrRead, intrLost>>
  BY DEF PeerTakes, intrVars, callVars
<1>2. UNCHANGED <<room, isr, peerAlive>>
  BY DEF PeerTakes, intrVars, callVars
<1>3. /\ peerGot' \in Seq(Bytes) /\ txFifo' \in Seq(Bytes) /\ Len(txFifo') = Len(txFifo) - 1
      /\ Numbered(peerGot', txFifo', txNext)
  BY <1>0, <1>1, NumberedMove DEF I3cInv, I3cTypes
<1>4. Len(txFifo) <= FifoDepth /\ Len(txFifo) \in Nat /\ FifoDepth \in Nat
  BY <1>0, I3cAssumption DEF I3cTypes
<1>5. I3cTypeOK'
  <2>1. I3cFlags'
    BY <1>0, <1>2, Zenon DEF I3cFlags
  <2>2. Len(txFifo') <= FifoDepth
    BY <1>3, <1>4
  <2> QED BY <1>0, <1>1, <1>3, <2>1, <2>2 DEF I3cTypeOK, I3cTypes, I3cFlags
<1>6. Resetting' /\ CallSteps'
  BY <1>1 DEF I3cInv, Resetting, CallSteps
<1>7. LevelHolds'
  <2>1. Len(txFifo) < FifoDepth => Len(txFifo') < FifoDepth
    BY <1>3, <1>4
  <2> QED BY <1>1, <1>2, <2>1 DEF I3cInv, LevelHolds
<1> QED BY <1>0, <1>1, <1>3, <1>5, <1>6, <1>7 DEF I3cInv

\* The peer sends a byte.
LEMMA PeerSendsKeeps ==
    ASSUME I3cInv, PeerSends
    PROVE  I3cInv'
<1>0. I3cTypes /\ I3cFlags /\ intrLost = {}
  BY I3cTypesAre DEF I3cInv
<1>1. /\ Len(rxFifo) < FifoDepth /\ rxNext < MaxBytes
      /\ rxNext' = rxNext + 1 /\ rxFifo' = Append(rxFifo, rxNext + 1)
      /\ UNCHANGED <<ctrl, txFifo, dynAddr, txNext, peerGot, buffer, i3cCall, i3cPc>>
      /\ UNCHANGED <<intrStatus, intrRead, intrLost>>
  BY DEF PeerSends, intrVars, callVars
<1>2. UNCHANGED <<room, isr, peerAlive>>
  BY DEF PeerSends, intrVars, callVars
<1>3. rxNext \in Nat /\ rxNext + 1 \in Bytes
  BY <1>0, <1>1, I3cAssumption DEF I3cTypes, Bytes
<1>4. rxFifo' \in Seq(Bytes) /\ Numbered(buffer, rxFifo', rxNext + 1)
  BY <1>0, <1>1, <1>3, NumberedAppend DEF I3cInv, I3cTypes
<1>5. Len(rxFifo') = Len(rxFifo) + 1 /\ Len(rxFifo) \in Nat
  BY <1>0, <1>1 DEF I3cTypes
<1>6. I3cTypeOK'
  <2>1. I3cFlags'
    BY <1>0, <1>2, Zenon DEF I3cFlags
  <2>2. Len(rxFifo') <= FifoDepth
    BY <1>1, <1>5, I3cAssumption
  <2> QED BY <1>0, <1>1, <1>3, <1>4, <2>1, <2>2 DEF I3cTypeOK, I3cTypes, I3cFlags
<1>7. Resetting' /\ CallSteps'
  BY <1>1 DEF I3cInv, Resetting, CallSteps
<1>8. LevelHolds'
  <2>1. rxFifo' # <<>>
    BY <1>5
  <2> QED BY <1>1, <1>2, <2>1 DEF I3cInv, LevelHolds
<1> QED BY <1>0, <1>1, <1>4, <1>6, <1>7, <1>8 DEF I3cInv

\* No step loses the invariant.
LEMMA I3cNextInv ==
    ASSUME I3cInv, I3cNext
    PROVE  I3cInv'
<1>1. CASE init \/ execute_i3c_recovery
  BY <1>1, I3cCallKeeps DEF init, execute_i3c_recovery
<1>2. CASE clear_tx_fifo
  BY <1>2, I3cCallKeeps DEF clear_tx_fifo
<1>3. CASE clear_rx_fifo
  BY <1>3, I3cCallKeeps DEF clear_rx_fifo
<1>4. ASSUME NEW n \in 1..MaxBytes, write(n) \/ read(n) PROVE I3cInv'
  <2>1. CASE write(n)
    BY <2>1, I3cCallKeeps DEF write
  <2>2. CASE read(n)
    BY <2>2, I3cCallKeeps DEF read
  <2> QED BY <1>4, <2>1, <2>2
<1>5. CASE enable \/ disable
  <2>1. PICK bits \in {ctrl \cup {"ENABLE"}, ctrl \ {"ENABLE"}} : SetControl(bits)
    BY <1>5 DEF enable, disable
  <2>2. /\ i3cCall = "none" /\ i3cCall' = "none" /\ i3cPc' = i3cPc /\ WriteCtrl(bits)
        /\ UNCHANGED <<dynAddr, peerAlive, intrVars, room>>
    BY <2>1 DEF SetControl, callVars
  <2>3. /\ ctrl \subseteq {"ENABLE", "TX_RST", "RX_RST"} /\ i3cPc \in Nat
        /\ "TX_RST" \notin ctrl /\ "RX_RST" \notin ctrl
    BY <2>2 DEF I3cInv, I3cTypeOK, Resetting
  <2>4. /\ bits \in SUBSET {"ENABLE", "TX_RST", "RX_RST"}
        /\ "TX_RST" \notin bits /\ "RX_RST" \notin bits
    BY <2>1, <2>3
  <2> QED BY <2>2, <2>3, <2>4, CtrlKeeps
<1> QED BY <1>1, <1>2, <1>3, <1>4, <1>5, InitStepKeeps, PollKeepsFifos, AsideKeeps,
           WriteByteKeeps, ReadByteKeeps, PeerTakesKeeps, PeerSendsKeeps
        DEF I3cNext, I3cCalls, I3cTransfer

\* The invariant holds throughout.
LEMMA I3cInvariant == I3cInit /\ [][I3cNext]_i3cVars => []I3cInv
<1>1. I3cInit => I3cInv
  BY I3cInitInv
<1>2. I3cInv /\ [I3cNext]_i3cVars => I3cInv'
  <2> SUFFICES ASSUME I3cInv, [I3cNext]_i3cVars PROVE I3cInv'
    OBVIOUS
  <2>1. CASE UNCHANGED i3cVars
    <3>1. /\ UNCHANGED <<ctrl, txFifo, rxFifo, txNext, rxNext, peerGot, buffer, dynAddr>>
          /\ UNCHANGED <<intrStatus, intrRead, intrLost, i3cCall, i3cPc>>
      BY <2>1 DEF i3cVars, i3cRegs, peerVars, intrVars, callVars
    <3>2. UNCHANGED <<room, isr, peerAlive>>
      BY <2>1 DEF i3cVars, peerVars, intrVars, callVars
    <3>3. I3cTypeOK' /\ Resetting' /\ CallSteps' /\ LevelHolds'
      BY <3>1, <3>2 DEF I3cInv, I3cTypeOK, Resetting, CallSteps, LevelHolds
    <3> QED BY <3>1, <3>3 DEF I3cInv
  <2> QED BY <2>1, I3cNextInv
<1> QED BY <1>1, <1>2, PTL

\* Types of the I3C driver.
THEOREM I3cIsTyped == I3cSpec => []I3cTypeOK
<1>1. I3cInv => I3cTypeOK
  BY DEF I3cInv
<1> QED BY <1>1, I3cInvariant, PTL DEF I3cSpec

\* What the numbering of the bytes says of a whole transfer.
LEMMA I3cFaithful == I3cInv => TransfersFaithful
<1> SUFFICES ASSUME I3cInv PROVE TransfersFaithful
  OBVIOUS
<1>1. /\ peerGot \in Seq(Bytes) /\ txFifo \in Seq(Bytes)
      /\ buffer \in Seq(Bytes) /\ rxFifo \in Seq(Bytes)
  BY DEF I3cInv, I3cTypeOK
<1>2. peerGot \o txFifo = [i \in 1..txNext |-> i]
  BY <1>1, NumberedWhole DEF I3cInv
<1>3. buffer \o rxFifo = [i \in 1..rxNext |-> i]
  BY <1>1, NumberedWhole DEF I3cInv
<1> QED BY <1>2, <1>3 DEF I3cInv, TransfersFaithful

\* For FIFOs of any depth a level register can show, any transfers and any
\* interrupts: no byte is dropped, doubled or reordered on its way through a
\* FIFO, and no interrupt is cleared unread.
THEOREM TransfersAreFaithful == I3cSpec => []TransfersFaithful
BY I3cFaithful, I3cInvariant, PTL DEF I3cSpec

----------------------------------------------------------------------------
\* Delays.

Step == 1..MaxStep

\* The reading whose low half has just been read.
Now == (cycle \div Half) * Half + low

\* What passed since start is what the ghost counted, or more than the range;
\* until a carry tears a reading, it is the counter at its low half.
Elapsing ==
    /\ delayPc # "none" => ~finished
    /\ delayPc = "low" /\ reading = "start" => elapsed = 0
    /\ delayPc = "high" /\ reading = "start" /\ ~torn =>
          elapsed \in 0..(Full - 1) /\ cycle = Now + elapsed
    /\ delayPc # "none" /\ reading = "poll" /\ ~torn =>
          elapsed = Cap \/ cycle - start = elapsed \/ cycle - start = elapsed - Full
    /\ delayPc = "high" /\ reading = "poll" /\ ~torn =>
          elapsed = Cap \/ \E e \in 0..elapsed : Now - start = e \/ Now - start = e - Full

\* A delay whose readings were whole has lasted as long as it should.
LongEnough == finished /\ ~torn => elapsed >= wait

DelayInv == DelayTypeOK /\ Elapsing /\ LongEnough

DelayFlags == {torn, finished} \subseteq BOOLEAN

\* The range of the counter.
LEMMA FullFacts ==
    /\ Half \in Nat \ {0, 1} /\ Full \in Nat \ {0} /\ Half < Full /\ Cap = Full
    /\ \A n \in Step : n \in Nat /\ n < Half
    /\ \A w \in CyclesToWait \cup {0} : w \in Nat /\ w < Full
<1>1. Half \in Nat \ {0, 1} /\ MaxStep \in 1..(Half - 1)
        /\ CyclesToWait \subseteq 0..(Half * Half - 2 * Half)
  BY DelayAssumption
<1>2. Half * Half \in Nat /\ Half < Half * Half
  BY <1>1
<1> QED BY <1>1, <1>2 DEF Full, Cap, Step

\* A quotient by its remainder.
LEMMA Quotient ==
    ASSUME NEW h \in Nat, NEW W \in Nat \ {0}, NEW w \in 0..(W - 1)
    PROVE  (h * W + w) \div W = h
OBVIOUS

\* A value of the counter by its halves.
LEMMA Halves ==
    ASSUME NEW c \in 0..(Full - 1)
    PROVE  /\ c \div Half \in Nat /\ c % Half \in 0..(Half - 1)
           /\ c = (c \div Half) * Half + (c % Half)
           /\ (c \div Half) * Half \in Nat
           /\ (c \div Half) * Half + Half <= Full
<1>1. Half \in Nat \ {0, 1} /\ c \in Nat /\ c < Half * Half
  BY FullFacts DEF Full
<1>2. c \in Int
  BY <1>1
<1>3. c \div Half \in Nat /\ c % Half \in 0..(Half - 1)
  BY <1>1
<1>4. c = (c \div Half) * Half + (c % Half)
  BY <1>1, <1>2
<1>5. c \div Half < Half
  BY <1>1
<1> DEFINE q == c \div Half
<1>6. q \in Nat /\ q < Half
  BY <1>3, <1>5
<1> HIDE DEF q
<1>7. q * Half + Half <= Half * Half /\ q * Half \in Nat
  BY <1>1, <1>6
<1>8. (c \div Half) * Half + Half <= Half * Half /\ (c \div Half) * Half \in Nat
  BY <1>7 DEF q
<1> QED BY <1>3, <1>4, <1>8, Zenon DEF Full

\* A reading no carry tears is the counter when its low half was read.
LEMMA Untorn ==
    ASSUME NEW c \in 0..(Full - 1), NEW n \in Nat, (c % Half) + n < Half
    PROVE  /\ (c + n) % Full = c + n
           /\ ((c + n) \div Half) * Half + (c % Half) = c
<1> DEFINE q == c \div Half
           r == c % Half
<1>1. /\ q \in Nat /\ r \in 0..(Half - 1) /\ c = q * Half + r /\ q * Half \in Nat
      /\ q * Half + Half <= Full
  BY Halves
<1>2. Half \in Nat \ {0, 1} /\ Full \in Nat \ {0}
  BY FullFacts
<1>3. r + n < Half
  OBVIOUS
<1> HIDE DEF q, r
<1>4. r + n \in 0..(Half - 1) /\ c + n = q * Half + (r + n)
  BY <1>1, <1>2, <1>3
<1>5. (c + n) \div Half = q
  BY <1>1, <1>2, <1>4, Quotient
<1>6. c + n \in 0..(Full - 1)
  BY <1>1, <1>2, <1>4
<1>7. (c + n) % Full = c + n
  BY <1>2, <1>6
<1>8. ((c + n) \div Half) * Half + r = c
  BY <1>1, <1>5
<1> QED BY <1>7, <1>8 DEF r

\* What Pass makes of the counter and of the ghost.
LEMMA PassFacts ==
    ASSUME DelayTypeOK, NEW n \in Step, Pass(n)
    PROVE  /\ cycle' \in 0..(Full - 1)
           /\ cycle' = cycle + n \/ cycle' = cycle + n - Full
           /\ elapsed' \in 0..Cap /\ elapsed <= elapsed'
           /\ elapsed' = Cap \/ (elapsed # Cap /\ elapsed' = elapsed + n /\ elapsed' < Full)
<1>1. /\ cycle \in 0..(Full - 1) /\ elapsed \in 0..Full /\ Full \in Nat \ {0} /\ Cap = Full
      /\ n \in Nat /\ n < Full
  BY FullFacts DEF DelayTypeOK
<1>2. /\ cycle' = (cycle + n) % Full
      /\ elapsed' = IF elapsed + n > Cap THEN Cap ELSE elapsed + n
  BY DEF Pass
<1>3. (cycle + n) % Full = IF cycle + n < Full THEN cycle + n ELSE cycle + n - Full
  BY <1>1
<1>4. n > 0
  BY DelayAssumption DEF Step
<1> QED BY <1>1, <1>2, <1>3, <1>4

\* The initial state.
LEMMA DelayInitInv == DelayInit => DelayInv
<1> SUFFICES ASSUME DelayInit PROVE DelayInv
  OBVIOUS
<1>1. DelayFlags
  BY Zenon DEF DelayInit, DelayFlags
<1>2. DelayTypeOK
  BY <1>1, FullFacts DEF DelayInit, DelayTypeOK, DelayFlags
<1>3. Elapsing /\ LongEnough
  BY DEF DelayInit, Elapsing, LongEnough
<1> QED BY <1>2, <1>3 DEF DelayInv

\* A reading, or a delay, begins.
LEMMA DelayBegins ==
    ASSUME DelayInv, syscall_get_time \/ \E w \in CyclesToWait : syscall_delay_us(w)
    PROVE  DelayInv'
<1>1. /\ delayPc' = "low" /\ reading' \in {"time", "start"} /\ elapsed' = 0
      /\ wait' \in CyclesToWait \cup {0} /\ UNCHANGED <<cycle, low, start>>
  BY DEF syscall_get_time, syscall_delay_us, DelayInv, DelayTypeOK
<1>2. torn' = FALSE /\ finished' = FALSE
  BY Zenon DEF syscall_get_time, syscall_delay_us
<1>3. DelayTypeOK'
  <2>1. DelayFlags'
    BY <1>2, Zenon DEF DelayFlags
  <2> QED BY <1>1, <2>1, FullFacts DEF DelayInv, DelayTypeOK, DelayFlags
<1>4. Elapsing' /\ LongEnough'
  BY <1>1, <1>2 DEF Elapsing, LongEnough
<1> QED BY <1>3, <1>4 DEF DelayInv

\* The low half is read.
LEMMA ReadLowKeeps ==
    ASSUME DelayInv, NEW n \in Step, ReadLow(n)
    PROVE  DelayInv'
<1>1. /\ delayPc = "low" /\ delayPc' = "high" /\ low' = cycle % Half
      /\ UNCHANGED <<reading, start, wait>>
  BY DEF ReadLow
<1>2. torn' = (torn \/ (cycle % Half) + n >= Half)
  BY DEF ReadLow
<1>3. finished' = finished /\ ~finished
  BY <1>1 DEF ReadLow, DelayInv, Elapsing
<1>4. /\ cycle \in 0..(Full - 1) /\ start \in 0..(Full - 1) /\ elapsed \in 0..Full
      /\ Half \in Nat \ {0, 1} /\ Full \in Nat \ {0} /\ Cap = Full /\ Half < Full
      /\ n \in Nat /\ n < Half
  BY FullFacts DEF DelayInv, DelayTypeOK
<1>5. /\ cycle' \in 0..(Full - 1)
      /\ cycle' = cycle + n \/ cycle' = cycle + n - Full
      /\ elapsed' \in 0..Cap /\ elapsed <= elapsed'
      /\ elapsed' = Cap \/ (elapsed # Cap /\ elapsed' = elapsed + n /\ elapsed' < Full)
  BY PassFacts DEF ReadLow, DelayInv
<1>6. cycle' = (cycle + n) % Full
  BY DEF ReadLow, Pass
<1>7. ASSUME ~torn'
      PROVE  ~torn /\ cycle' = cycle + n /\ Now' = cycle
  <2>1. ~torn /\ ~((cycle % Half) + n >= Half)
    BY <1>2, <1>7
  <2>2. cycle % Half \in Int
    BY <1>4
  <2>3. (cycle % Half) + n < Half
    BY <1>4, <2>1, <2>2
  <2>4. (cycle + n) % Full = cycle + n /\ ((cycle + n) \div Half) * Half + (cycle % Half) = cycle
    BY <1>4, <2>3, Untorn
  <2>5. cycle' = cycle + n
    BY <1>6, <2>4
  <2> QED BY <1>1, <2>1, <2>4, <2>5 DEF Now
<1>8. DelayTypeOK'
  <2>1. DelayFlags'
    <3>1. torn' \in BOOLEAN
      BY <1>2
    <3>2. finished' \in BOOLEAN
      BY <1>3, Zenon DEF DelayInv, DelayTypeOK
    <3> QED BY <3>1, <3>2, Zenon DEF DelayFlags
  <2>2. low' \in 0..(Half - 1)
    BY <1>1, <1>4
  <2> QED BY <1>1, <1>5, <2>1, <2>2 DEF DelayInv, DelayTypeOK, DelayFlags
<1>9. ASSUME reading = "start", ~torn'
      PROVE  elapsed' \in 0..(Full - 1) /\ cycle' = Now' + elapsed'
  <2>1. elapsed = 0
    BY <1>1, <1>9 DEF DelayInv, Elapsing
  <2>2. elapsed' = n
    <3>1. elapsed' = IF elapsed + n > Cap THEN Cap ELSE elapsed + n
      BY DEF ReadLow, Pass
    <3> QED BY <1>4, <2>1, <3>1
  <2> QED BY <1>4, <1>7, <1>9, <2>2
<1>10. ASSUME reading = "poll", ~torn'
       PROVE  /\ \/ elapsed' = Cap
                 \/ cycle' - start = elapsed' \/ cycle' - start = elapsed' - Full
              /\ \/ elapsed' = Cap
                 \/ \E e \in 0..elapsed' : Now' - start = e \/ Now' - start = e - Full
  <2>1. elapsed = Cap \/ cycle - start = elapsed \/ cycle - start = elapsed - Full
    BY <1>1, <1>7, <1>10 DEF DelayInv, Elapsing
  <2>2. CASE elapsed' = Cap
    BY <2>2
  <2>3. CASE elapsed' # Cap
    <3>1. elapsed' = elapsed + n /\ elapsed \in 0..elapsed'
      BY <1>4, <1>5, <2>3
    <3>2. cycle - start = elapsed \/ cycle - start = elapsed - Full
      BY <1>5, <2>1, <2>3
    <3>3. cycle' = cycle + n /\ Now' = cycle
      BY <1>7, <1>10
    <3>4. cycle' - start = elapsed' \/ cycle' - start = elapsed' - Full
      BY <1>4, <3>1, <3>2, <3>3
    <3> QED BY <3>1, <3>2, <3>3, <3>4
  <2> QED BY <2>2, <2>3
<1>11. Elapsing'
  <2>1. delayPc' # "none" => ~finished'
    BY <1>3
  <2> QED BY <1>1, <1>9, <1>10, <2>1 DEF Elapsing
<1>12. LongEnough'
  BY <1>3 DEF LongEnough
<1> QED BY <1>8, <1>11, <1>12 DEF DelayInv

\* A clock of F cycles that has moved m on from c0 to e0, seen from a reading
\* b0 that was x cycles behind c0: it is x + m behind e0, as long as that is below F.
LEMMA LaterReading ==
    ASSUME NEW F \in Nat, NEW m \in Nat, NEW x \in Nat, x + m < F
    PROVE  \A b0 \in 0..(F - 1), c0 \in 0..(F - 1), e0 \in 0..(F - 1) :
              (e0 = c0 + m \/ e0 = (c0 + m) - F) /\ (c0 - b0 = x \/ c0 - b0 = x - F)
                 => (e0 - b0 = x + m \/ e0 - b0 = (x + m) - F)
  OBVIOUS

\* The high half is read: the start of a delay, a poll that ends it or one that
\* does not.
LEMMA ReadHighKeeps ==
    ASSUME DelayInv, NEW n \in Step, ReadHigh(n)
    PROVE  DelayInv'
<1>1. /\ delayPc = "high" /\ UNCHANGED <<low, wait>>
      /\ start' = IF reading = "start" THEN Now ELSE start
      /\ reading' = IF reading = "start" THEN "poll" ELSE reading
      /\ delayPc' = IF reading = "time" \/ (reading = "poll" /\ DelayOver(Now))
                    THEN "none" ELSE "low"
  BY DEF ReadHigh, Now
<1>2. finished' = (reading = "poll" /\ DelayOver(Now)) /\ torn' = torn
  BY DEF ReadHigh, Now
<1>3. /\ cycle \in 0..(Full - 1) /\ start \in 0..(Full - 1) /\ elapsed \in 0..Full
      /\ low \in 0..(Half - 1) /\ reading \in {"time", "start", "poll"}
      /\ Half \in Nat \ {0, 1} /\ Full \in Nat \ {0} /\ Cap = Full /\ Half < Full
      /\ n \in Nat /\ n < Half
      /\ wait \in Nat /\ wait < Full
  BY FullFacts DEF DelayInv, DelayTypeOK
<1>4. /\ cycle' \in 0..(Full - 1)
      /\ cycle' = cycle + n \/ cycle' = cycle + n - Full
      /\ elapsed' \in 0..Cap /\ elapsed <= elapsed'
      /\ elapsed' = Cap \/ (elapsed # Cap /\ elapsed' = elapsed + n /\ elapsed' < Full)
  BY PassFacts DEF ReadHigh, DelayInv
<1>5. Now \in 0..(Full - 1)
  <2>1. (cycle \div Half) * Half \in Nat /\ (cycle \div Half) * Half + Half <= Full
    BY <1>3, Halves
  <2> QED BY <1>3, <2>1 DEF Now
<1>6. DelayTypeOK'
  <2>1. DelayFlags'
    <3>1. finished' \in BOOLEAN
      BY <1>2
    <3>2. torn' \in BOOLEAN
      BY <1>2, Zenon DEF DelayInv, DelayTypeOK
    <3> QED BY <3>1, <3>2, Zenon DEF DelayFlags
  <2> QED BY <1>1, <1>3, <1>4, <1>5, <2>1 DEF DelayInv, DelayTypeOK, DelayFlags
<1>7. ASSUME delayPc' # "none", ~torn'
      PROVE  /\ reading' = "poll" /\ delayPc' = "low"
             /\ \/ elapsed' = Cap
                \/ cycle' - start' = elapsed' \/ cycle' - start' = elapsed' - Full
  <2>1. reading' = "poll" /\ delayPc' = "low" /\ ~torn
    BY <1>1, <1>2, <1>3, <1>7
  <2>2. elapsed = Cap \/ cycle - start' = elapsed \/ cycle - start' = elapsed - Full
    <3>1. CASE reading = "start"
      <4>1. cycle = Now + elapsed /\ start' = Now
        BY <1>1, <2>1, <3>1 DEF DelayInv, Elapsing
      <4> QED BY <1>3, <1>5, <4>1
    <3>2. CASE reading = "poll"
      BY <1>1, <2>1, <3>2 DEF DelayInv, Elapsing
    <3> QED BY <1>1, <1>3, <1>7, <3>1, <3>2
  <2>3. start' \in 0..(Full - 1)
    BY <1>1, <1>3, <1>5
  <2>4. \/ elapsed' = Cap
        \/ cycle' - start' = elapsed' \/ cycle' - start' = elapsed' - Full
    <3>1. CASE elapsed' # Cap
      <4>1. /\ elapsed \in Nat /\ elapsed' = elapsed + n /\ elapsed + n < Full
            /\ cycle - start' = elapsed \/ cycle - start' = elapsed - Full
        BY <1>3, <1>4, <2>2, <3>1
      <4>2. Full \in Nat /\ n \in Nat /\ cycle \in 0..(Full - 1)
        BY <1>3
      <4>3. cycle' \in 0..(Full - 1) /\ (cycle' = cycle + n \/ cycle' = cycle + n - Full)
        BY <1>4
      <4>4. PICK b \in 0..(Full - 1) : b = start'
        BY <2>3
      <4>5. PICK c \in 0..(Full - 1) : c = cycle'
        BY <4>3
      <4>6. c - b = elapsed + n \/ c - b = (elapsed + n) - Full
        <5>1. c = cycle + n \/ c = (cycle + n) - Full
          BY <4>2, <4>3, <4>5
        <5>2. elapsed \in Nat /\ elapsed + n < Full
          BY <4>1
        <5>3. cycle - b = elapsed \/ cycle - b = elapsed - Full
          BY <4>1, <4>4
        <5>4. \A b0 \in 0..(Full - 1), c0 \in 0..(Full - 1), e0 \in 0..(Full - 1) :
                 (e0 = c0 + n \/ e0 = (c0 + n) - Full) /\ (c0 - b0 = elapsed \/ c0 - b0 = elapsed - Full)
                    => (e0 - b0 = elapsed + n \/ e0 - b0 = (elapsed + n) - Full)
          BY <4>2, <5>2, LaterReading, Zenon
        <5> QED BY <4>2, <5>1, <5>3, <5>4, Zenon
      <4> QED BY <4>1, <4>4, <4>5, <4>6
    <3> QED BY <3>1
  <2> QED BY <2>1, <2>4
<1>8. Elapsing'
  <2>1. delayPc' # "none" => ~finished'
    BY <1>1, <1>2
  <2>2. delayPc' # "high"
    BY <1>1
  <2>3. ~(delayPc' = "low" /\ reading' = "start")
    BY <1>1, <1>3
  <2> QED BY <1>7, <2>1, <2>2, <2>3 DEF Elapsing
<1>9. LongEnough'
  <2>1. ASSUME finished', ~torn' PROVE elapsed' >= wait
    <3>1. reading = "poll" /\ DelayOver(Now) /\ ~torn
      BY <1>2, <2>1
    <3>2. elapsed = Cap \/ \E e \in 0..elapsed : Now - start = e \/ Now - start = e - Full
      BY <1>1, <3>1 DEF DelayInv, Elapsing
    <3>3. CASE elapsed = Cap
      BY <1>3, <1>4, <3>3
    <3>4. ASSUME NEW e \in 0..elapsed, Now - start = e \/ Now - start = e - Full, elapsed # Cap
          PROVE  elapsed' >= wait
      <4>1. e \in 0..(Full - 1)
        BY <1>3, <3>4
      <4>2. (Now - start) % Full = e
        <5>1. CASE Now - start = e
          BY <1>3, <4>1, <5>1
        <5>2. CASE Now - start = e - Full
          BY <1>3, <4>1, <5>2
        <5> QED BY <3>4, <5>1, <5>2
      <4>3. e >= wait
        BY <3>1, <4>2 DEF DelayOver
      <4> QED BY <1>3, <1>4, <4>1, <4>3
    <3> QED BY <3>2, <3>3, <3>4
  <2> QED BY <1>1, <2>1 DEF LongEnough
<1> QED BY <1>6, <1>8, <1>9 DEF DelayInv

\* The invariant holds throughout.
LEMMA DelayInvariant == DelayInit /\ [][DelayNext]_delayVars => []DelayInv
<1>1. DelayInit => DelayInv
  BY DelayInitInv
<1>2. DelayInv /\ [DelayNext]_delayVars => DelayInv'
  <2> SUFFICES ASSUME DelayInv, [DelayNext]_delayVars PROVE DelayInv'
    OBVIOUS
  <2>1. CASE UNCHANGED delayVars
    <3>1. UNCHANGED <<cycle, delayPc, low, reading, start, wait, elapsed>>
      BY <2>1 DEF delayVars
    <3>2. UNCHANGED <<torn, finished>>
      BY <2>1 DEF delayVars
    <3> QED BY <3>1, <3>2 DEF DelayInv, DelayTypeOK, Elapsing, LongEnough, Now
  <2>2. CASE DelayStep
    BY <2>2, ReadLowKeeps, ReadHighKeeps DEF DelayStep, Step
  <2> QED BY <2>1, <2>2, DelayBegins DEF DelayNext
<1> QED BY <1>1, <1>2, PTL

\* For halves of any width, any delay well within the range of the counter and
\* any speed of the processor: a delay comes out short only if a carry has torn
\* one of its readings.
THEOREM DelayShortOnlyWhenTorn == DelaySpec => [](finished /\ elapsed < wait => torn)
<1>1. DelayInv => (finished /\ elapsed < wait => torn)
  <2> SUFFICES ASSUME DelayInv, finished, ~torn PROVE ~(elapsed < wait)
    OBVIOUS
  <2>1. elapsed >= wait
    BY DEF DelayInv, LongEnough
  <2>2. elapsed \in Int /\ wait \in Int
    BY DelayAssumption DEF DelayInv, DelayTypeOK, Cap, Full
  <2> QED BY <2>1, <2>2
<1> QED BY <1>1, DelayInvariant, PTL DEF DelaySpec

----------------------------------------------------------------------------
\* Start-up code.

\* What the two loops have done so far: .bss is zero up to t0, then to its end;
\* the words of .data up to t1 are in place, if .text ends on a word.
StackUntouched == \A a \in DOMAIN sram : a >= STACK_ORIGIN => sram[a] = Junk
BssZeroTo(n)   == \A a \in BSS_START..(n - 1) : sram[a] = Zero
DataInTo(n)    == layout.text % 4 = 0 =>
                     \A a \in 0..(n - 1) : a < DATA_END => sram[a] = <<"data", a>>

Zeroing ==
    startPc = "zero_bss" =>
        t0 \in BSS_START..STACK_ORIGIN /\ t0 % 4 = 0 /\ BssZeroTo(t0)

Copying ==
    startPc = "copy_data" =>
        /\ t1 \in 0..BSS_START /\ t1 % 4 = 0 /\ t0 = ROM_DATA_START + t1
        /\ BssZeroTo(BSS_END) /\ DataInTo(t1)

Started ==
    startPc = "main" => BssZeroTo(BSS_END) /\ DataInTo(DATA_END)

StartInv == StartTypeOK /\ StackUntouched /\ Zeroing /\ Copying /\ Started

\* Align rounds up to a multiple of 4 or of 16, by less than that.
LEMMA AlignFacts ==
    ASSUME NEW a \in Nat
    PROVE  /\ Align(a, 4) \in Nat /\ a <= Align(a, 4) /\ Align(a, 4) % 4 = 0
           /\ a % 4 = 0 => Align(a, 4) = a
           /\ Align(a, 16) \in Nat /\ a <= Align(a, 16) /\ Align(a, 16) % 4 = 0
  BY SMT DEF Align

\* The sections as rom.ld places them: in order, on words where the loops start.
LEMMA LayoutFacts ==
    ASSUME layout \in [text : TextSizes, data : DataSizes, bss : BssSizes]
    PROVE  /\ layout.text \in Nat /\ DATA_END \in Nat /\ layout.bss \in Nat
           /\ ROM_DATA_START = layout.text /\ DATA_END = layout.data /\ DATA_START = 0
           /\ BSS_START \in Nat /\ DATA_END <= BSS_START /\ BSS_START % 4 = 0
           /\ BSS_END \in Nat /\ BSS_START <= BSS_END
           /\ STACK_ORIGIN \in Nat /\ BSS_END <= STACK_ORIGIN /\ STACK_ORIGIN % 4 = 0
           /\ layout.text % 4 = 0 => LOADADDR = layout.text
<1>1. layout.text \in Nat /\ layout.data \in Nat /\ layout.bss \in Nat
  BY StartUpAssumption
<1>2. BSS_START \in Nat /\ layout.data <= BSS_START /\ BSS_START % 4 = 0
  BY <1>1, AlignFacts DEF BSS_START, DATA_END
<1>3. BSS_END \in Nat /\ BSS_START <= BSS_END
  BY <1>1, <1>2 DEF BSS_END
<1>4. STACK_ORIGIN \in Nat /\ BSS_END <= STACK_ORIGIN /\ STACK_ORIGIN % 4 = 0
  BY <1>3, AlignFacts DEF STACK_ORIGIN
<1>5. layout.text % 4 = 0 => LOADADDR = layout.text
  BY <1>1, AlignFacts DEF LOADADDR
<1> QED BY <1>1, <1>2, <1>3, <1>4, <1>5 DEF DATA_END, ROM_DATA_START, DATA_START

\* The symbols of a build do not change.
LEMMA LayoutFixed ==
    ASSUME UNCHANGED layout
    PROVE  /\ ROM_DATA_START' = ROM_DATA_START /\ DATA_END' = DATA_END
           /\ BSS_START' = BSS_START /\ BSS_END' = BSS_END
           /\ STACK_ORIGIN' = STACK_ORIGIN
  BY DEF ROM_DATA_START, DATA_END, BSS_START, BSS_END, STACK_ORIGIN

\* A word below the next multiple of 4 fits under it.
LEMMA WordFits ==
    ASSUME NEW a \in Nat, NEW b \in Nat, a % 4 = 0, b % 4 = 0, a < b
    PROVE  a + 4 <= b /\ (a + 4) % 4 = 0
  OBVIOUS

\* Every byte of the image in ROM is one SRAM may hold.
LEMMA RomByteIsByte ==
    ASSUME StartTypeOK, NEW a \in Int
    PROVE  RomByte(a) \in SramBytes
<1>1. LOADADDR \in Nat /\ layout.data \in Nat
  BY StartUpAssumption, AlignFacts DEF StartTypeOK, LOADADDR
<1>2. CASE a - LOADADDR \in 0..(layout.data - 1)
  <2>1. a - LOADADDR \in Nat
    BY <1>1, <1>2
  <2> QED BY <1>2, <2>1, Zenon DEF RomByte, SramBytes
<1>3. CASE a - LOADADDR \notin 0..(layout.data - 1)
  BY <1>3, Zenon DEF RomByte, SramBytes
<1> QED BY <1>2, <1>3

\* A word stored below the stack changes its four bytes and nothing else.
LEMMA StoreFacts ==
    ASSUME StartTypeOK, StackUntouched, UNCHANGED layout,
           NEW a \in Nat, NEW word, a + 4 <= STACK_ORIGIN, StoreWord(a, word),
           \A i \in 0..3 : word[i] \in SramBytes
    PROVE  /\ DOMAIN sram' = DOMAIN sram /\ StackUntouched'
           /\ \A b \in DOMAIN sram : sram'[b] \in SramBytes
           /\ \A b \in DOMAIN sram : b \notin a..(a + 3) => sram'[b] = sram[b]
           /\ \A b \in a..(a + 3) : b \in DOMAIN sram /\ sram'[b] = word[b - a]
<1>1. /\ DOMAIN sram' = DOMAIN sram
      /\ \A b \in DOMAIN sram : sram'[b] = IF b \in a..(a + 3) THEN word[b - a] ELSE sram[b]
  BY DEF StoreWord
<1>2. DOMAIN sram = 0..(STACK_ORIGIN + 3) /\ STACK_ORIGIN \in Nat
  BY LayoutFacts DEF StartTypeOK
<1>3. \A b \in a..(a + 3) : b \in DOMAIN sram /\ b - a \in 0..3
  BY <1>2
<1>4. \A b \in DOMAIN sram : sram'[b] \in SramBytes
  BY <1>1, <1>3 DEF StartTypeOK
<1>5. StackUntouched'
  BY <1>1, <1>2, LayoutFixed DEF StackUntouched
<1> QED BY <1>1, <1>3, <1>4, <1>5

\* The loops start from reset.
LEMMA ResetKeeps ==
    ASSUME layout \in [text : TextSizes, data : DataSizes, bss : BssSizes],
           UNCHANGED layout, sram' = [a \in 0..(STACK_ORIGIN + 3) |-> Junk],
           startPc' = "zero_bss", t0' = BSS_START, t1' = 0
    PROVE  StartInv'
<1>1. StartTypeOK'
  <2>1. \A a \in DOMAIN sram' : sram'[a] \in SramBytes
    BY DEF SramBytes
  <2> QED BY <2>1, LayoutFacts, LayoutFixed DEF StartTypeOK
<1>2. StackUntouched'
  BY LayoutFixed DEF StackUntouched
<1>3. Zeroing'
  BY LayoutFacts, LayoutFixed DEF Zeroing, BssZeroTo
<1> QED BY <1>1, <1>2, <1>3 DEF StartInv, Copying, Started

\* One word of .bss: the last one may reach past its end, never to the stack.
LEMMA ZeroWordKeeps ==
    ASSUME StartInv, ZeroWord
    PROVE  StartInv'
<1>1. /\ startPc = "zero_bss" /\ t0 < BSS_END /\ t0' = t0 + 4
      /\ UNCHANGED <<layout, startPc, t1>>
  BY DEF ZeroWord
<1>2. t0 \in BSS_START..STACK_ORIGIN /\ t0 % 4 = 0 /\ BssZeroTo(t0)
  BY <1>1 DEF StartInv, Zeroing
<1>3. t0 + 4 <= STACK_ORIGIN /\ (t0 + 4) % 4 = 0 /\ t0 \in Nat
  BY <1>1, <1>2, LayoutFacts, WordFits DEF StartInv, StartTypeOK
<1>4. StoreWord(t0, [i \in 0..3 |-> Zero])
  BY DEF ZeroWord
<1>5. \A i \in 0..3 : [j \in 0..3 |-> Zero][i] \in SramBytes
  BY DEF SramBytes
<1>6. /\ DOMAIN sram' = DOMAIN sram /\ StackUntouched'
      /\ \A b \in DOMAIN sram : sram'[b] \in SramBytes
      /\ \A b \in DOMAIN sram : b \notin t0..(t0 + 3) => sram'[b] = sram[b]
      /\ \A b \in t0..(t0 + 3) : b \in DOMAIN sram /\ sram'[b] = [i \in 0..3 |-> Zero][b - t0]
  BY <1>1, <1>3, <1>4, <1>5, StoreFacts DEF StartInv
<1>7. StartTypeOK'
  BY <1>1, <1>3, <1>6, LayoutFixed DEF StartInv, StartTypeOK
<1>8. BssZeroTo(t0)'
  <2>1. \A b \in t0..(t0 + 3) : sram'[b] = Zero
    BY <1>3, <1>6
  <2>2. \A b \in BSS_START..(t0 - 1) : sram'[b] = Zero
    <3>1. \A b \in BSS_START..(t0 - 1) : b \in DOMAIN sram /\ b \notin t0..(t0 + 3)
      BY <1>2, <1>3, LayoutFacts DEF StartInv, StartTypeOK
    <3> QED BY <1>2, <1>6, <3>1 DEF BssZeroTo
  <2>3. BSS_START' = BSS_START /\ BSS_START \in Nat /\ t0' = t0 + 4
    BY <1>1, LayoutFacts, LayoutFixed DEF StartInv, StartTypeOK
  <2> QED BY <1>3, <2>1, <2>2, <2>3 DEF BssZeroTo
<1>9. Zeroing'
  BY <1>1, <1>2, <1>3, <1>8, LayoutFacts, LayoutFixed DEF Zeroing, StartInv, StartTypeOK
<1> QED BY <1>1, <1>6, <1>7, <1>9 DEF StartInv, Copying, Started

\* .bss is done.
LEMMA ZeroDoneKeeps ==
    ASSUME StartInv, ZeroDone
    PROVE  StartInv'
<1>1. /\ startPc = "zero_bss" /\ t0 >= BSS_END /\ startPc' = "copy_data"
      /\ t0' = ROM_DATA_START /\ t1' = DATA_START /\ UNCHANGED <<layout, sram>>
  BY DEF ZeroDone
<1>2. StartTypeOK' /\ StackUntouched'
  BY <1>1, LayoutFacts, LayoutFixed DEF StartInv, StartTypeOK, StackUntouched
<1>3. BssZeroTo(BSS_END)'
  BY <1>1, LayoutFacts, LayoutFixed DEF StartInv, StartTypeOK, Zeroing, BssZeroTo
<1>4. DataInTo(t1)'
  BY <1>1, LayoutFacts DEF DataInTo, StartInv, StartTypeOK
<1>5. Copying'
  BY <1>1, <1>3, <1>4, LayoutFacts, LayoutFixed DEF Copying, StartInv, StartTypeOK
<1> QED BY <1>1, <1>2, <1>5 DEF StartInv, Zeroing, Started

\* One word of .data: the last one may reach into the padding before .bss,
\* never into .bss.
LEMMA CopyWordKeeps ==
    ASSUME StartInv, CopyWord
    PROVE  StartInv'
<1>1. /\ startPc = "copy_data" /\ t1 < DATA_END /\ t0' = t0 + 4 /\ t1' = t1 + 4
      /\ UNCHANGED <<layout, startPc>>
  BY DEF CopyWord
<1>2. /\ t1 \in 0..BSS_START /\ t1 % 4 = 0 /\ t0 = ROM_DATA_START + t1
      /\ BssZeroTo(BSS_END) /\ DataInTo(t1)
  BY <1>1 DEF StartInv, Copying
<1> DEFINE word == [i \in 0..3 |-> RomByte(t0 + i)]
<1>3. t1 + 4 <= BSS_START /\ (t1 + 4) % 4 = 0 /\ t1 \in Nat /\ t0 \in Nat
  <2>1. t1 \in Nat /\ t0 \in Nat
    BY DEF StartInv, StartTypeOK
  <2>2. BSS_START \in Nat /\ BSS_START % 4 = 0 /\ t1 < BSS_START
    BY <1>1, <2>1, LayoutFacts DEF StartInv, StartTypeOK
  <2> QED BY <1>2, <2>1, <2>2, WordFits
<1>4. StoreWord(t1, word)
  BY Zenon DEF CopyWord
<1>5. \A i \in 0..3 : word[i] = RomByte(t0 + i)
  OBVIOUS
<1>6. \A i \in 0..3 : word[i] \in SramBytes
  BY <1>3, <1>5, RomByteIsByte DEF StartInv
<1> HIDE DEF word
<1>7. t1 + 4 <= STACK_ORIGIN
  BY <1>3, LayoutFacts DEF StartInv, StartTypeOK
<1>8. /\ DOMAIN sram' = DOMAIN sram /\ StackUntouched'
      /\ \A b \in DOMAIN sram : sram'[b] \in SramBytes
      /\ \A b \in DOMAIN sram : b \notin t1..(t1 + 3) => sram'[b] = sram[b]
      /\ \A b \in t1..(t1 + 3) : b \in DOMAIN sram /\ sram'[b] = word[b - t1]
  BY <1>1, <1>3, <1>4, <1>6, <1>7, StoreFacts DEF StartInv
<1>9. StartTypeOK'
  BY <1>1, <1>3, <1>8, LayoutFixed DEF StartInv, StartTypeOK
<1>10. BssZeroTo(BSS_END)'
  <2>1. \A b \in BSS_START..(BSS_END - 1) : b \in DOMAIN sram /\ b \notin t1..(t1 + 3)
    BY <1>3, LayoutFacts DEF StartInv, StartTypeOK
  <2> QED BY <1>1, <1>2, <1>8, <2>1, LayoutFixed DEF BssZeroTo
<1>11. DataInTo(t1)'
  <2>1. SUFFICES ASSUME layout.text % 4 = 0, NEW b \in 0..(t1 + 3), b < DATA_END
                 PROVE  sram'[b] = <<"data", b>>
    BY <1>1, <1>3, LayoutFixed DEF DataInTo
  <2>2. CASE b \in 0..(t1 - 1)
    <3>1. b \in DOMAIN sram /\ b \notin t1..(t1 + 3)
      BY <1>3, <1>7, <2>2, LayoutFacts DEF StartInv, StartTypeOK
    <3>2. sram[b] = <<"data", b>>
      BY <1>2, <2>1, <2>2 DEF DataInTo
    <3> QED BY <1>8, <3>1, <3>2
  <2>3. CASE b \in t1..(t1 + 3)
    <3>1. b - t1 \in 0..3 /\ sram'[b] = RomByte(t0 + (b - t1))
      BY <1>3, <1>5, <1>8, <2>3
    <3>2. LOADADDR = layout.text /\ layout.text \in Nat /\ t0 = layout.text + t1
      BY <1>2, <2>1, LayoutFacts DEF StartInv, StartTypeOK
    <3>3. (t0 + (b - t1)) - LOADADDR = b
      <4>1. \A x \in Nat, y \in Nat, z \in Int : ((x + y) + (z - y)) - x = z
        OBVIOUS
      <4>2. b \in Int
        BY <1>3, <2>3
      <4>3. ((layout.text + t1) + (b - t1)) - layout.text = b
        BY <1>3, <3>2, <4>1, <4>2, Zenon
      <4> QED BY <3>2, <4>3, Zenon
    <3>4. b \in 0..(layout.data - 1)
      BY <1>3, <2>1, LayoutFacts DEF StartInv, StartTypeOK
    <3> QED BY <3>1, <3>3, <3>4 DEF RomByte
  <2> QED BY <1>3, <2>2, <2>3
<1>12. Copying'
  BY <1>1, <1>2, <1>3, <1>10, <1>11, LayoutFacts, LayoutFixed
     DEF Copying, StartInv, StartTypeOK
<1> QED BY <1>1, <1>8, <1>9, <1>12 DEF StartInv, Zeroing, Started

\* .data is done, and main is called.
LEMMA CopyDoneKeeps ==
    ASSUME StartInv, CopyDone
    PROVE  StartInv'
<1>1. /\ startPc = "copy_data" /\ t1 >= DATA_END /\ startPc' = "main"
      /\ UNCHANGED <<layout, sram, t0, t1>>
  BY DEF CopyDone
<1>2. StartTypeOK' /\ StackUntouched'
  BY <1>1, LayoutFixed DEF StartInv, StartTypeOK, StackUntouched
<1>3. BssZeroTo(BSS_END) /\ DataInTo(t1)
  BY <1>1 DEF StartInv, Copying
<1>4. BssZeroTo(BSS_END)'
  BY <1>1, <1>3, LayoutFixed DEF BssZeroTo
<1>5. DataInTo(DATA_END)'
  BY <1>1, <1>3, LayoutFacts, LayoutFixed DEF DataInTo, StartInv, StartTypeOK
<1> QED BY <1>1, <1>2, <1>4, <1>5 DEF StartInv, Zeroing, Copying, Started

\* StartInv holds initially and every step keeps it.
LEMMA StartInvariant == StartSpec => []StartInv
<1>1. StartInit => StartInv
  <2> SUFFICES ASSUME StartInit PROVE StartInv
    OBVIOUS
  <2>1. /\ layout \in [text : TextSizes, data : DataSizes, bss : BssSizes]
        /\ sram = [a \in 0..(STACK_ORIGIN + 3) |-> Junk]
        /\ startPc = "zero_bss" /\ t0 = BSS_START /\ t1 = 0
    BY DEF StartInit
  <2>2. StartTypeOK
    <3>1. \A a \in DOMAIN sram : sram[a] \in SramBytes
      BY <2>1 DEF SramBytes
    <3> QED BY <2>1, <3>1, LayoutFacts DEF StartTypeOK
  <2>3. StackUntouched /\ Zeroing
    BY <2>1, LayoutFacts DEF StackUntouched, Zeroing, BssZeroTo
  <2> QED BY <2>1, <2>2, <2>3 DEF StartInv, Copying, Started
<1>2. StartInv /\ [StartNext]_startVars => StartInv'
  <2> SUFFICES ASSUME StartInv, [StartNext]_startVars PROVE StartInv'
    OBVIOUS
  <2>1. CASE ZeroWord
    BY <2>1, ZeroWordKeeps
  <2>2. CASE ZeroDone
    BY <2>2, ZeroDoneKeeps
  <2>3. CASE CopyWord
    BY <2>3, CopyWordKeeps
  <2>4. CASE CopyDone
    BY <2>4, CopyDoneKeeps
  <2>5. CASE StartReset
    <3>1. sram' = [a \in 0..(STACK_ORIGIN + 3) |-> Junk]
      BY <2>5 DEF StartReset, StartInv, StartTypeOK
    <3> QED BY <2>5, <3>1, ResetKeeps DEF StartReset, StartInv, StartTypeOK
  <2>6. CASE UNCHANGED startVars
    <3>1. UNCHANGED <<layout, sram, startPc, t0, t1>>
      BY <2>6 DEF startVars
    <3> QED BY <3>1, LayoutFixed
         DEF StartInv, StartTypeOK, StackUntouched, Zeroing, Copying, Started,
             BssZeroTo, DataInTo
  <2> QED BY <2>1, <2>2, <2>3, <2>4, <2>5, <2>6 DEF StartNext
<1> QED BY <1>1, <1>2, PTL DEF StartSpec

\* For sections of any size: when main is called .data is in place to its last
\* byte (given .text ends on a word), .bss is zero and the stack untouched,
\* although the loops of start.S move whole words.
THEOREM ImageIsInPlace == StartSpec => []ImageInPlace
<1>1. StartInv => ImageInPlace
  <2> SUFFICES ASSUME StartInv, startPc = "main" PROVE ImageInPlace
    BY DEF ImageInPlace
  <2>1. BssZeroTo(BSS_END) /\ DataInTo(DATA_END) /\ StackUntouched
    BY DEF StartInv, Started
  <2>2. DATA_START = 0 /\ DATA_END \in Nat
    BY LayoutFacts DEF StartInv, StartTypeOK
  <2>3. layout.text % 4 = 0 =>
           \A a \in DATA_START..(DATA_END - 1) : sram[a] = <<"data", a - DATA_START>>
    BY <2>1, <2>2 DEF DataInTo
  <2> QED BY <2>1, <2>3 DEF ImageInPlace, BssZeroTo, StackUntouched
<1> QED BY <1>1, StartInvariant, PTL

----------------------------------------------------------------------------
\* C library routines.

CopyRoutines == {"memset", "memcpy", "memmove"}

\* The routine in progress goes from the end of its ranges.
Down == routine = "memmove" /\ Downwards(args.dest, args.src)

\* The byte a copying routine has to leave at a.
Wanted(a) == IF routine = "memset" THEN args.ch ELSE before[args.src + (a - args.dest)]

\* The bytes from lo to hi are as wanted, the others as they were at the call.
Moved(lo, hi) ==
    \A a \in Addrs : ram[a] = IF a \in lo..hi THEN Wanted(a) ELSE before[a]

\* Both ranges lie in memory.
Ranges == Fits(args.dest, args.count) /\ Fits(args.src, args.count)

\* How far a loop has come: the pointers follow the count, and what is behind
\* them is done.
CopyGoing ==
    /\ left <= args.count
    /\ Down => /\ d = args.dest + left /\ s = args.src + left
               /\ Moved(d, args.dest + (args.count - 1))
    /\ ~Down => /\ d = args.dest + (args.count - left) /\ Moved(args.dest, d - 1)
                /\ routine # "memset" => s = args.src + (args.count - left)
    /\ routine = "memcpy" =>
          args.dest + args.count <= args.src \/ args.src + args.count <= args.dest

CompareGoing ==
    /\ left <= args.count /\ result = 0
    /\ d = args.dest + (args.count - left) /\ s = args.src + (args.count - left)
    /\ \A i \in 0..((args.count - left) - 1) : ram[args.dest + i] = ram[args.src + i]

CountGoing ==
    /\ result \in Nat /\ s = args.src + result
    /\ \A i \in 0..(result - 1) : ram[args.src + i] # 0
    /\ \E a \in Addrs : a >= s /\ ram[a] = 0

Going ==
    active => /\ routine \in CopyRoutines => CopyGoing
              /\ routine = "memcmp" => CompareGoing
              /\ routine = "strlen" => CountGoing

LibcInv == LibcTypeOK /\ Ranges /\ Going /\ LibcRight

\* The types of everything but the flag.
LibcData ==
    /\ ram \in [Addrs -> Chars] /\ before \in [Addrs -> Chars]
    /\ routine \in {"none", "memset", "memcpy", "memmove", "memcmp", "strlen"}
    /\ d \in 0..RamSize /\ s \in 0..RamSize
    /\ left \in 0..MaxCount
    /\ result \in -1..RamSize
    /\ args \in [dest : Addrs, src : Addrs, ch : Chars, count : 0..MaxCount]

\* The parts of LibcTypeOK.
LEMMA LibcParts == LibcTypeOK <=> LibcData /\ active \in BOOLEAN
  BY Zenon DEF LibcTypeOK, LibcData

\* The same after a step.
LEMMA LibcPartsNext == LibcTypeOK' <=> LibcData' /\ active' \in BOOLEAN
  BY Zenon DEF LibcTypeOK, LibcData

\* The integers a loop computes with.
LEMMA LibcNumbers ==
    ASSUME LibcData
    PROVE  /\ RamSize \in Nat /\ args.dest \in Addrs /\ args.src \in Addrs
           /\ args.dest \in Nat /\ args.src \in Nat /\ args.count \in Nat
           /\ args.ch \in Chars /\ d \in Nat /\ s \in Nat /\ left \in Nat /\ result \in Int
  BY LibcAssumption DEF LibcData, Addrs

\* While a routine runs nothing has been returned, and all that LibcRight says
\* is that comparing writes nothing.
LEMMA RightWhileActive ==
    ASSUME active', routine' \in {"memcmp", "strlen"} => ram' = before'
    PROVE  LibcRight'
  BY Zenon DEF LibcRight, Returned

\* What is left after a call has been made.
LEMMA EnterFacts ==
    ASSUME LibcInv, NEW name \in CopyRoutines \cup {"memcmp", "strlen"},
           NEW dest \in Addrs, NEW src \in Addrs, NEW ch \in Chars, NEW n \in 0..MaxCount,
           NEW d0 \in 0..RamSize, NEW s0 \in 0..RamSize,
           Enter(name, dest, src, ch, n, d0, s0), Fits(dest, n), Fits(src, n)
    PROVE  /\ routine' = name /\ d' = d0 /\ s' = s0 /\ left' = n /\ result' = 0
           /\ args'.dest = dest /\ args'.src = src /\ args'.ch = ch /\ args'.count = n
           /\ ram' = ram /\ before' = ram
           /\ LibcTypeOK' /\ Ranges' /\ LibcRight' /\ LibcData /\ LibcData'
<1>1. active' = TRUE /\ LibcData
  BY LibcParts DEF Enter, LibcInv
<1>2. /\ routine' = name /\ d' = d0 /\ s' = s0 /\ left' = n /\ result' = 0
      /\ args' = [dest |-> dest, src |-> src, ch |-> ch, count |-> n]
      /\ ram' = ram /\ before' = ram
  BY DEF Enter
<1>3. args'.dest = dest /\ args'.src = src /\ args'.ch = ch /\ args'.count = n
  BY <1>2
<1>4. LibcData'
  BY <1>1, <1>2, LibcAssumption DEF LibcData, CopyRoutines
<1>5. LibcTypeOK'
  BY <1>1, <1>4, LibcPartsNext
<1>6. Ranges'
  BY <1>3 DEF Ranges, Fits
<1>7. LibcRight'
  BY <1>1, <1>2, RightWhileActive
<1> QED BY <1>1, <1>2, <1>3, <1>4, <1>5, <1>6, <1>7

\* A call of memset.
LEMMA MemsetKeeps ==
    ASSUME LibcInv, NEW dest \in Addrs, NEW n \in 0..MaxCount, NEW ch \in Chars,
           memset(dest, ch, n)
    PROVE  LibcInv'
<1>1. /\ 0 \in Addrs /\ dest \in 0..RamSize /\ 0 \in 0..RamSize
      /\ Fits(dest, n) /\ Fits(0, n)
  BY LibcAssumption DEF memset, Fits, Addrs
<1>2. /\ routine' = "memset" /\ d' = dest /\ left' = n /\ args'.dest = dest
      /\ args'.count = n /\ ram' = ram /\ before' = ram
      /\ LibcTypeOK' /\ Ranges' /\ LibcRight'
  BY <1>1, EnterFacts, Zenon DEF memset, CopyRoutines
<1>3. CopyGoing'
  <2>1. ~Down'
    BY <1>2 DEF Down
  <2>2. Moved(args.dest, d - 1)'
    BY <1>2, LibcAssumption DEF Moved, Addrs
  <2> QED BY <1>2, <2>1, <2>2, LibcAssumption DEF CopyGoing, Addrs
<1>4. Going'
  BY <1>2, <1>3 DEF Going
<1> QED BY <1>2, <1>4 DEF LibcInv

\* A call of memcpy, whose ranges do not overlap.
LEMMA MemcpyKeeps ==
    ASSUME LibcInv, NEW dest \in Addrs, NEW src \in Addrs, NEW n \in 0..MaxCount,
           memcpy(dest, src, n)
    PROVE  LibcInv'
<1>1. /\ 0 \in Chars /\ dest \in 0..RamSize /\ src \in 0..RamSize
      /\ Fits(dest, n) /\ Fits(src, n)
  BY LibcAssumption DEF memcpy, Fits, Addrs
<1>2. /\ routine' = "memcpy" /\ d' = dest /\ s' = src /\ left' = n /\ args'.dest = dest
      /\ args'.src = src /\ args'.count = n /\ ram' = ram /\ before' = ram
      /\ LibcTypeOK' /\ Ranges' /\ LibcRight'
  BY <1>1, EnterFacts, Zenon DEF memcpy, CopyRoutines
<1>3. CopyGoing'
  <2>1. ~Down'
    BY <1>2 DEF Down
  <2>2. Moved(args.dest, d - 1)'
    BY <1>2, LibcAssumption DEF Moved, Addrs
  <2>3. dest + n <= src \/ src + n <= dest
    BY DEF memcpy
  <2> QED BY <1>2, <2>1, <2>2, <2>3, LibcAssumption DEF CopyGoing, Addrs
<1>4. Going'
  BY <1>2, <1>3 DEF Going
<1> QED BY <1>2, <1>4 DEF LibcInv

\* A call of memmove, in either direction.
LEMMA MemmoveKeeps ==
    ASSUME LibcInv, NEW dest \in Addrs, NEW src \in Addrs, NEW n \in 0..MaxCount,
           memmove(dest, src, n)
    PROVE  LibcInv'
<1> DEFINE down == Downwards(dest, src)
           d0 == IF down THEN dest + n ELSE dest
           s0 == IF down THEN src + n ELSE src
<1>1. /\ 0 \in Chars /\ Fits(dest, n) /\ Fits(src, n)
      /\ d0 \in 0..RamSize /\ s0 \in 0..RamSize
  BY LibcAssumption DEF memmove, Fits, Addrs
<1>2. Enter("memmove", dest, src, 0, n, d0, s0)
  BY DEF memmove
<1>3. /\ routine' = "memmove" /\ d' = d0 /\ s' = s0 /\ left' = n /\ args'.dest = dest
      /\ args'.src = src /\ args'.count = n /\ ram' = ram /\ before' = ram
      /\ LibcTypeOK' /\ Ranges' /\ LibcRight'
  <2> HIDE DEF d0, s0
  <2> QED BY <1>1, <1>2, EnterFacts, Zenon DEF CopyRoutines
<1>4. CopyGoing'
  <2>1. Down' <=> down
    BY <1>3 DEF Down, Downwards
  <2>2. ASSUME ~down PROVE Moved(args.dest, d - 1)'
    BY <1>3, <2>2, LibcAssumption DEF Moved, Addrs
  <2>3. ASSUME down PROVE Moved(d, args.dest + (args.count - 1))'
    BY <1>3, <2>3, LibcAssumption DEF Moved, Addrs
  <2> HIDE DEF down
  <2> QED BY <1>3, <2>1, <2>2, <2>3, LibcAssumption DEF CopyGoing, Addrs
<1>5. Going'
  BY <1>3, <1>4 DEF Going
<1> QED BY <1>3, <1>5 DEF LibcInv

\* A call of memcmp.
LEMMA MemcmpKeeps ==
    ASSUME LibcInv, NEW dest \in Addrs, NEW src \in Addrs, NEW n \in 0..MaxCount,
           memcmp(dest, src, n)
    PROVE  LibcInv'
<1>1. /\ 0 \in Chars /\ dest \in 0..RamSize /\ src \in 0..RamSize
      /\ Fits(dest, n) /\ Fits(src, n)
  BY LibcAssumption DEF memcmp, Fits, Addrs
<1>2. /\ routine' = "memcmp" /\ d' = dest /\ s' = src /\ left' = n /\ args'.dest = dest
      /\ args'.src = src /\ args'.count = n /\ result' = 0
      /\ LibcTypeOK' /\ Ranges' /\ LibcRight'
  BY <1>1, EnterFacts, Zenon DEF memcmp
<1>3. CompareGoing'
  BY <1>2, LibcAssumption DEF CompareGoing, Addrs
<1>4. Going'
  BY <1>2, <1>3 DEF Going, CopyRoutines
<1> QED BY <1>2, <1>4 DEF LibcInv

\* A call of strlen, on a string that is terminated.
LEMMA StrlenKeeps ==
    ASSUME LibcInv, NEW str \in Addrs, strlen(str)
    PROVE  LibcInv'
<1>1. /\ 0 \in Chars /\ 0 \in 0..MaxCount /\ str \in 0..RamSize /\ str \in Nat
      /\ Fits(str, 0)
  BY LibcAssumption DEF strlen, Fits, Addrs
<1>2. /\ routine' = "strlen" /\ s' = str /\ args'.src = str /\ result' = 0 /\ ram' = ram
      /\ LibcTypeOK' /\ Ranges' /\ LibcRight'
  BY <1>1, EnterFacts, Zenon DEF strlen
<1>3. \E a \in Addrs : a >= str /\ ram[a] = 0
  BY DEF strlen
<1>4. CountGoing'
  BY <1>1, <1>2, <1>3 DEF CountGoing
<1>5. Going'
  BY <1>2, <1>4 DEF Going, CopyRoutines
<1> QED BY <1>2, <1>5 DEF LibcInv

\* Writing the wanted byte next to the bytes done extends them.
LEMMA OneMore ==
    ASSUME LibcData, Moved(args.dest, d - 1), UNCHANGED <<routine, before, args>>,
           d \in Addrs, d >= args.dest, ram' = [ram EXCEPT ![d] = Wanted(d)], d' = d + 1
    PROVE  Moved(args.dest, d - 1)'
<1>1. \A a : Wanted(a)' = Wanted(a)
  BY DEF Wanted
<1>2. /\ \A a \in Addrs : ram'[a] = IF a = d THEN Wanted(d) ELSE ram[a]
      /\ args'.dest = args.dest /\ before' = before
  BY DEF LibcData
<1>3. \A a \in Addrs : a \in args.dest..d <=> (a = d \/ a \in args.dest..(d - 1))
  BY LibcNumbers DEF Addrs
<1>4. d' - 1 = d
  BY LibcNumbers
<1>5. \A a \in Addrs : ram[a] = IF a \in args.dest..(d - 1) THEN Wanted(a) ELSE before[a]
  BY DEF Moved
<1>6. \A a \in Addrs : ram'[a] = IF a \in args.dest..d THEN Wanted(a) ELSE before[a]
  BY <1>2, <1>3, <1>5
<1> QED BY <1>1, <1>2, <1>4, <1>6 DEF Moved

\* The same from the end of the range downwards.
LEMMA OneMoreBelow ==
    ASSUME LibcData, NEW hi \in Int, Moved(d, hi), UNCHANGED <<routine, before, args>>,
           d - 1 \in Addrs, d - 1 <= hi, ram' = [ram EXCEPT ![d - 1] = Wanted(d - 1)],
           d' = d - 1
    PROVE  \A a \in Addrs : ram'[a] = IF a \in d'..hi THEN Wanted(a)' ELSE before'[a]
<1>1. \A a : Wanted(a)' = Wanted(a)
  BY DEF Wanted
<1>2. /\ \A a \in Addrs : ram'[a] = IF a = d - 1 THEN Wanted(d - 1) ELSE ram[a]
      /\ before' = before
  BY DEF LibcData
<1>3. \A a \in Addrs : a \in (d - 1)..hi <=> (a = d - 1 \/ a \in d..hi)
  BY LibcNumbers DEF Addrs
<1>4. \A a \in Addrs : ram[a] = IF a \in d..hi THEN Wanted(a) ELSE before[a]
  BY DEF Moved
<1>5. \A a \in Addrs : ram'[a] = IF a \in (d - 1)..hi THEN Wanted(a) ELSE before[a]
  BY <1>2, <1>3, <1>4
<1> QED BY <1>1, <1>2, <1>5

\* A byte copied upwards.  The source byte is still the one of the call: memcpy's
\* ranges are disjoint and memmove goes upwards only to a lower address.
LEMMA CopyUpKeeps ==
    ASSUME LibcData, Ranges, CopyGoing, routine \in CopyRoutines, ~Down, left > 0,
           StepUp(IF routine = "memset" THEN args.ch ELSE ram[s]),
           UNCHANGED <<routine, result, before, args>>
    PROVE  LibcData' /\ CopyGoing'
<1> DEFINE k == args.count - left
<1>1. /\ d = args.dest + k /\ Moved(args.dest, d - 1) /\ left <= args.count
      /\ routine # "memset" => s = args.src + k
      /\ routine = "memcpy" =>
            args.dest + args.count <= args.src \/ args.src + args.count <= args.dest
  BY DEF CopyGoing
<1>2. /\ args.dest \in Nat /\ args.src \in Nat /\ args.count \in Nat /\ left \in Nat
      /\ RamSize \in Nat /\ d \in Nat /\ s \in Nat
      /\ args.dest + args.count <= RamSize /\ args.src + args.count <= RamSize
  BY LibcNumbers DEF Ranges, Fits
<1>3. k \in Nat /\ k < args.count
  BY <1>1, <1>2
<1>4. d \in Addrs /\ d >= args.dest /\ d - args.dest = k
  BY <1>1, <1>2, <1>3 DEF Addrs
<1>5. ASSUME routine # "memset" PROVE ram[s] = before[s] /\ s \in Addrs
  <2>1. s = args.src + k
    BY <1>1, <1>5
  <2>2. s \in Addrs
    BY <1>2, <1>3, <2>1 DEF Addrs
  <2>3. s \notin args.dest..(d - 1)
    <3>1. CASE routine = "memcpy"
      BY <1>1, <1>2, <1>3, <2>1, <3>1
    <3>2. CASE routine = "memmove"
      <4>1. args.dest < args.src
        BY <1>2, <3>2 DEF Down, Downwards
      <4> QED BY <1>1, <1>2, <1>3, <2>1, <4>1
    <3> QED BY <1>5, <3>1, <3>2 DEF CopyRoutines
  <2> QED BY <1>1, <2>2, <2>3 DEF Moved
<1>6. (IF routine = "memset" THEN args.ch ELSE ram[s]) = Wanted(d)
  <2>1. CASE routine = "memset"
    BY <2>1 DEF Wanted
  <2>2. CASE routine # "memset"
    <3>1. s = args.src + (d - args.dest)
      BY <1>1, <1>4, <2>2
    <3> QED BY <1>5, <2>2, <3>1 DEF Wanted
  <2> QED BY <2>1, <2>2
<1>7. /\ ram' = [ram EXCEPT ![d] = Wanted(d)] /\ d' = d + 1 /\ left' = left - 1
      /\ s' = IF routine = "memset" THEN s ELSE s + 1
  BY <1>6 DEF StepUp
<1>8. Wanted(d) \in Chars
  <2>1. CASE routine = "memset"
    BY <2>1, LibcNumbers DEF Wanted
  <2>2. CASE routine # "memset"
    BY <1>5, <1>6, <2>2 DEF LibcData
  <2> QED BY <2>1, <2>2
<1>9. LibcData'
  <2>1. ram' \in [Addrs -> Chars] /\ before' \in [Addrs -> Chars]
    BY <1>7, <1>8 DEF LibcData
  <2>2. d' \in 0..RamSize
    BY <1>2, <1>4, <1>7 DEF Addrs
  <2>3. left' \in 0..MaxCount
    BY <1>2, <1>7, LibcAssumption DEF LibcData
  <2>4. s' \in 0..RamSize
    BY <1>2, <1>5, <1>7 DEF LibcData, Addrs
  <2> QED BY <2>1, <2>2, <2>3, <2>4 DEF LibcData
<1>10. Moved(args.dest, d - 1)'
  BY <1>1, <1>4, <1>7, OneMore
<1>11. CopyGoing'
  <2>1. ~Down'
    BY DEF Down
  <2>2. args.count - left' = k + 1 /\ left' <= args.count
    BY <1>1, <1>2, <1>7
  <2>3. d' = args.dest + (k + 1)
    BY <1>1, <1>2, <1>3, <1>7
  <2>4. routine # "memset" => s' = args.src + (k + 1)
    BY <1>1, <1>2, <1>3, <1>7
  <2> QED BY <1>1, <1>10, <2>1, <2>2, <2>3, <2>4 DEF CopyGoing
<1> QED BY <1>9, <1>11

\* A byte copied downwards: the source is below what has been written.
LEMMA CopyDownKeeps ==
    ASSUME LibcData, Ranges, CopyGoing, Down, left > 0, StepDown,
           UNCHANGED <<routine, result, before, args>>
    PROVE  LibcData' /\ CopyGoing'
<1> DEFINE hi == args.dest + (args.count - 1)
<1>1. /\ d = args.dest + left /\ s = args.src + left /\ Moved(d, hi) /\ left <= args.count
      /\ routine = "memmove"
  BY DEF CopyGoing, Down
<1>2. /\ args.dest \in Nat /\ args.src \in Nat /\ args.count \in Nat /\ left \in Nat
      /\ RamSize \in Nat /\ args.dest >= args.src
      /\ args.dest + args.count <= RamSize /\ args.src + args.count <= RamSize
  BY LibcNumbers DEF Ranges, Fits, Down, Downwards
<1>3. /\ d - 1 \in Addrs /\ s - 1 \in Addrs /\ d - 1 <= hi /\ hi \in Int
      /\ s - 1 \notin d..hi
  BY <1>1, <1>2 DEF Addrs
<1>4. ram[s - 1] = before[s - 1]
  BY <1>1, <1>3 DEF Moved
<1>5. Wanted(d - 1) = ram[s - 1]
  <2>1. args.src + ((d - 1) - args.dest) = s - 1
    BY <1>1, <1>2
  <2> QED BY <1>1, <1>4, <2>1 DEF Wanted
<1>6. /\ ram' = [ram EXCEPT ![d - 1] = Wanted(d - 1)] /\ d' = d - 1 /\ s' = s - 1
      /\ left' = left - 1
  BY <1>5 DEF StepDown
<1>7. LibcData'
  <2>1. Wanted(d - 1) \in Chars
    BY <1>3, <1>5 DEF LibcData
  <2>2. ram' \in [Addrs -> Chars] /\ before' \in [Addrs -> Chars]
    BY <1>6, <2>1 DEF LibcData
  <2>3. d' \in 0..RamSize /\ s' \in 0..RamSize
    BY <1>2, <1>3, <1>6 DEF Addrs
  <2>4. left' \in 0..MaxCount
    BY <1>2, <1>6, LibcAssumption DEF LibcData
  <2> QED BY <2>2, <2>3, <2>4 DEF LibcData
<1>8. Moved(d, args.dest + (args.count - 1))'
  <2> HIDE DEF hi
  <2>1. \A a \in Addrs : ram'[a] = IF a \in d'..hi THEN Wanted(a)' ELSE before'[a]
    BY <1>1, <1>3, <1>6, OneMoreBelow
  <2>2. hi = args'.dest + (args'.count - 1)
    BY DEF hi
  <2> QED BY <2>1, <2>2 DEF Moved
<1>9. CopyGoing'
  <2>1. Down'
    BY DEF Down
  <2>2. left' <= args.count /\ d' = args.dest + left' /\ s' = args.src + left'
    BY <1>1, <1>2, <1>6
  <2> QED BY <1>1, <1>8, <2>1, <2>2 DEF CopyGoing
<1> QED BY <1>7, <1>9

\* A byte of memset, memcpy or memmove.
LEMMA CopyByteKeeps ==
    ASSUME LibcInv, CopyByte
    PROVE  LibcInv'
<1>1. /\ active /\ routine \in CopyRoutines /\ left > 0
      /\ UNCHANGED <<routine, result, before, args>>
  BY DEF CopyByte, CopyRoutines
<1>2. LibcData /\ Ranges /\ CopyGoing /\ active \in BOOLEAN
  BY <1>1, LibcParts DEF LibcInv, Going
<1>3. LibcData' /\ CopyGoing'
  <2>1. CASE Down
    <3>1. StepDown
      BY <2>1 DEF CopyByte, Down
    <3> QED BY <1>1, <1>2, <2>1, <3>1, CopyDownKeeps
  <2>2. CASE ~Down
    <3>1. StepUp(IF routine = "memset" THEN args.ch ELSE ram[s])
      BY <2>2 DEF CopyByte, Down
    <3> QED BY <1>1, <1>2, <2>2, <3>1, CopyUpKeeps
  <2> QED BY <2>1, <2>2
<1>4. active' = active
  BY DEF CopyByte
<1>5. LibcTypeOK'
  BY <1>2, <1>3, <1>4, LibcPartsNext
<1>6. Ranges'
  BY <1>1, <1>2 DEF Ranges
<1>7. Going'
  BY <1>1, <1>3 DEF Going, CopyRoutines
<1>8. LibcRight'
  <2>1. routine' \notin {"memcmp", "strlen"}
    BY <1>1 DEF CopyRoutines
  <2> QED BY <1>1, <1>4, <2>1, RightWhileActive
<1> QED BY <1>5, <1>6, <1>7, <1>8 DEF LibcInv

\* The verdict memcmp has to return: that of the first byte that differs.
Differs(i) == ram[args.dest + i] # ram[args.src + i]

MemcmpVerdict ==
    IF \E i \in 0..(args.count - 1) : Differs(i)
    THEN \E i \in 0..(args.count - 1) :
            /\ Differs(i) /\ \A j \in 0..(i - 1) : ~Differs(j)
            /\ result = IF ram[args.dest + i] < ram[args.src + i] THEN -1 ELSE 1
    ELSE result = 0

\* memcmp and strlen have returned with what LibcRight asks of them.
LEMMA RightForMemcmp ==
    ASSUME routine' = "memcmp", MemcmpVerdict', ram' = before'
    PROVE  LibcRight'
  BY DEF LibcRight, Returned, MemcmpVerdict, Differs

\* The same for strlen.
LEMMA RightForStrlen ==
    ASSUME routine' = "strlen", ram'[args'.src + result'] = 0,
           \A i \in 0..(result' - 1) : ram'[args'.src + i] # 0, ram' = before'
    PROVE  LibcRight'
  BY DEF LibcRight, Returned

\* memcmp looks at one byte of each range.
LEMMA CompareByteKeeps ==
    ASSUME LibcInv, CompareByte
    PROVE  LibcInv'
<1> DEFINE k == args.count - left
<1>1. /\ active /\ routine = "memcmp" /\ left > 0 /\ left' = left - 1
      /\ UNCHANGED <<ram, routine, before, args>>
  BY DEF CompareByte
<1>2. LibcData /\ Ranges /\ CompareGoing /\ active \in BOOLEAN /\ ram = before
  BY <1>1, LibcParts DEF LibcInv, Going, LibcRight
<1>3. /\ args.dest \in Nat /\ args.src \in Nat /\ args.count \in Nat /\ left \in Nat
      /\ RamSize \in Nat /\ left <= args.count /\ result = 0
      /\ args.dest + args.count <= RamSize /\ args.src + args.count <= RamSize
  BY <1>2, LibcNumbers DEF Ranges, Fits, CompareGoing
<1>4. /\ k \in Nat /\ k < args.count /\ d = args.dest + k /\ s = args.src + k
      /\ \A i \in 0..(k - 1) : ~Differs(i)
  BY <1>1, <1>2, <1>3 DEF CompareGoing, Differs
<1>5. left' \in 0..MaxCount /\ left' <= args.count /\ args.count - left' = k + 1
  BY <1>1, <1>2, <1>3, LibcAssumption DEF LibcData
<1>6. Ranges'
  BY <1>1, <1>2 DEF Ranges
<1>7. CASE ram[d] # ram[s]
  <2>1. /\ result' = (IF ram[d] < ram[s] THEN -1 ELSE 1) /\ active' = FALSE
        /\ UNCHANGED <<d, s>>
    BY <1>7 DEF CompareByte
  <2>2. result' \in -1..RamSize
    BY <2>1, LibcAssumption
  <2>3. LibcData'
    BY <1>1, <1>2, <1>5, <2>1, <2>2 DEF LibcData
  <2>4. MemcmpVerdict'
    <3>1. Differs(k)
      BY <1>4, <1>7 DEF Differs
    <3>2. \A i : Differs(i)' = Differs(i)
      BY <1>1 DEF Differs
    <3>3. k \in 0..(args.count - 1)
      BY <1>3, <1>4
    <3>4. result' = IF ram[args.dest + k] < ram[args.src + k] THEN -1 ELSE 1
      BY <1>4, <2>1
    <3> HIDE DEF k
    <3> QED BY <1>1, <1>4, <3>1, <3>2, <3>3, <3>4 DEF MemcmpVerdict
  <2>5. LibcRight'
    BY <1>1, <1>2, <2>4, RightForMemcmp
  <2>6. LibcTypeOK' /\ Going'
    BY <2>1, <2>3, LibcPartsNext DEF Going
  <2> QED BY <1>6, <2>5, <2>6 DEF LibcInv
<1>8. CASE ram[d] = ram[s]
  <2>1. d' = d + 1 /\ s' = s + 1 /\ result' = result /\ active' = active
    BY <1>8 DEF CompareByte
  <2>2. d' \in 0..RamSize /\ s' \in 0..RamSize
    BY <1>3, <1>4, <2>1
  <2>3. LibcData'
    BY <1>1, <1>2, <1>5, <2>1, <2>2 DEF LibcData
  <2>4. CompareGoing'
    <3>1. ~Differs(k)
      BY <1>4, <1>8 DEF Differs
    <3>2. \A i \in 0..k : ram[args.dest + i] = ram[args.src + i]
      BY <1>4, <3>1 DEF Differs
    <3>3. d' = args.dest + (k + 1) /\ s' = args.src + (k + 1) /\ (k + 1) - 1 = k
      BY <1>3, <1>4, <2>1
    <3> HIDE DEF k
    <3> QED BY <1>1, <1>3, <1>5, <2>1, <3>2, <3>3 DEF CompareGoing
  <2>5. LibcRight'
    BY <1>1, <1>2, <2>1, RightWhileActive
  <2>6. Going'
    BY <1>1, <2>4 DEF Going, CopyRoutines
  <2> QED BY <1>2, <1>6, <2>1, <2>3, <2>5, <2>6, LibcPartsNext DEF LibcInv
<1> QED BY <1>7, <1>8

\* strlen looks at one character: the terminator lies at s or beyond.
LEMMA CountCharKeeps ==
    ASSUME LibcInv, CountChar
    PROVE  LibcInv'
<1>1. /\ active /\ routine = "strlen" /\ s' = s + 1
      /\ UNCHANGED <<ram, routine, d, left, before, args>>
  BY DEF CountChar
<1>2. LibcData /\ Ranges /\ CountGoing /\ active \in BOOLEAN /\ ram = before
  BY <1>1, LibcParts DEF LibcInv, Going, LibcRight
<1>3. /\ result \in Nat /\ s = args.src + result /\ args.src \in Nat /\ RamSize \in Nat
      /\ \A i \in 0..(result - 1) : ram[args.src + i] # 0
  BY <1>2, LibcNumbers DEF CountGoing
<1>4. PICK a \in Addrs : a >= s /\ ram[a] = 0
  BY <1>2 DEF CountGoing
<1>5. s' \in 0..RamSize /\ result + 1 \in 0..RamSize
  BY <1>1, <1>3, <1>4 DEF Addrs
<1>6. Ranges'
  BY <1>1, <1>2 DEF Ranges
<1>7. CASE ram[s] # 0
  <2>1. result' = result + 1 /\ active' = active
    BY <1>7 DEF CountChar
  <2>2. LibcData'
    BY <1>1, <1>2, <1>3, <1>5, <2>1 DEF LibcData
  <2>3. CountGoing'
    <3>1. a >= s'
      BY <1>1, <1>3, <1>4, <1>7 DEF Addrs
    <3>2. s' = args'.src + result' /\ result' \in Nat
      BY <1>1, <1>3, <2>1
    <3>3. \A i \in 0..(result' - 1) : i \in 0..(result - 1) \/ i = result
      BY <1>3, <2>1
    <3>4. \A i \in 0..(result' - 1) : ram'[args'.src + i] # 0
      BY <1>1, <1>3, <1>7, <3>3
    <3> QED BY <1>1, <1>4, <3>1, <3>2, <3>4 DEF CountGoing
  <2>4. LibcRight'
    BY <1>1, <1>2, <2>1, RightWhileActive
  <2>5. Going'
    BY <1>1, <2>3 DEF Going, CopyRoutines
  <2> QED BY <1>2, <1>6, <2>1, <2>2, <2>4, <2>5, LibcPartsNext DEF LibcInv
<1>8. CASE ram[s] = 0
  <2>1. active' = FALSE /\ result' = result
    BY <1>8 DEF CountChar
  <2>2. LibcData'
    BY <1>1, <1>2, <1>5, <2>1 DEF LibcData
  <2>3. LibcRight'
    BY <1>1, <1>2, <1>3, <1>8, <2>1, RightForStrlen
  <2>4. LibcTypeOK' /\ Going'
    BY <2>1, <2>2, LibcPartsNext DEF Going
  <2> QED BY <1>6, <2>3, <2>4 DEF LibcInv
<1> QED BY <1>7, <1>8

\* A loop has come to its end.
LEMMA ReturnKeeps ==
    ASSUME LibcInv, Return
    PROVE  LibcInv'
<1>1. /\ active /\ routine # "strlen" /\ left = 0 /\ active' = FALSE
      /\ UNCHANGED <<ram, routine, d, s, left, result, before, args>>
  BY DEF Return
<1>2. LibcData /\ Ranges /\ Going
  BY LibcParts DEF LibcInv
<1>3. LibcData' /\ Ranges'
  BY <1>1, <1>2 DEF LibcData, Ranges
<1>4. LibcTypeOK' /\ Going'
  BY <1>1, <1>3, LibcPartsNext DEF Going
<1>5. LibcRight'
  <2>1. CASE routine \in CopyRoutines
    <3>1. CopyGoing
      BY <1>1, <1>2, <2>1 DEF Going
    <3>2. Moved(args.dest, args.dest + (args.count - 1))
      <4>1. CASE Down
        BY <1>1, <1>2, <3>1, <4>1, LibcNumbers DEF CopyGoing
      <4>2. CASE ~Down
        <5>1. d - 1 = args.dest + (args.count - 1)
          BY <1>1, <1>2, <3>1, <4>2, LibcNumbers DEF CopyGoing
        <5> QED BY <3>1, <4>2, <5>1 DEF CopyGoing
      <4> QED BY <4>1, <4>2
    <3>3. args.dest + (args.count - 1) = (args.dest + args.count) - 1
      BY <1>2, LibcNumbers
    <3>4. \A a \in Addrs : ram[a] = IF a \in Dest THEN Wanted(a) ELSE before[a]
      BY <3>2, <3>3 DEF Moved, Dest
    <3>5. routine = "memset" =>
             ram = [a \in Addrs |-> IF a \in Dest THEN args.ch ELSE before[a]]
      BY <1>2, <3>4 DEF Wanted, LibcData
    <3>6. routine # "memset" =>
             ram = [a \in Addrs |-> IF a \in Dest THEN before[args.src + (a - args.dest)]
                                                  ELSE before[a]]
      BY <1>2, <3>4 DEF Wanted, LibcData
    <3> QED BY <1>1, <2>1, <3>5, <3>6 DEF LibcRight, Returned, CopyRoutines, Dest
  <2>2. CASE routine = "memcmp"
    <3>1. CompareGoing /\ ram = before
      BY <1>1, <1>2, <2>2 DEF Going, LibcInv, LibcRight
    <3>2. args.count - left = args.count
      BY <1>1, <1>2, LibcNumbers
    <3>3. result = 0 /\ \A i \in 0..(args.count - 1) : ~Differs(i)
      BY <3>1, <3>2 DEF CompareGoing, Differs
    <3>4. MemcmpVerdict'
      BY <1>1, <3>3 DEF MemcmpVerdict, Differs
    <3> QED BY <1>1, <2>2, <3>1, <3>4, RightForMemcmp
  <2>3. CASE routine = "none"
    BY <1>1, <2>3 DEF LibcRight, Returned
  <2> QED BY <1>1, <1>2, <2>1, <2>2, <2>3 DEF LibcData, CopyRoutines
<1> QED BY <1>3, <1>4, <1>5 DEF LibcInv

\* LibcInv holds initially and every step keeps it.
LEMMA LibcInvariant == LibcSpec => []LibcInv
<1>1. LibcInit => LibcInv
  <2> SUFFICES ASSUME LibcInit PROVE LibcInv
    OBVIOUS
  <2>1. /\ ram = [a \in Addrs |-> 0] /\ before = ram
        /\ routine = "none" /\ d = 0 /\ s = 0 /\ left = 0 /\ result = 0
        /\ args = [dest |-> 0, src |-> 0, ch |-> 0, count |-> 0]
    BY DEF LibcInit
  <2>2. active = FALSE
    BY DEF LibcInit
  <2>3. LibcData
    BY <2>1, LibcAssumption DEF LibcData, Addrs
  <2>4. Ranges
    BY <2>1, LibcAssumption DEF Ranges, Fits
  <2>5. Going
    BY <2>2 DEF Going
  <2>6. LibcRight
    BY <2>1 DEF LibcRight, Returned
  <2> QED BY <2>2, <2>3, <2>4, <2>5, <2>6, LibcParts DEF LibcInv
<1>2. LibcInv /\ [LibcNext]_libcVars => LibcInv'
  <2> SUFFICES ASSUME LibcInv, [LibcNext]_libcVars PROVE LibcInv'
    OBVIOUS
  <2>1. ASSUME NEW dest \in Addrs, NEW n \in 0..MaxCount, NEW ch \in Chars,
               memset(dest, ch, n)
        PROVE  LibcInv'
    BY <2>1, MemsetKeeps
  <2>2. ASSUME NEW dest \in Addrs, NEW n \in 0..MaxCount, NEW src \in Addrs,
               memcpy(dest, src, n) \/ memmove(dest, src, n) \/ memcmp(dest, src, n)
        PROVE  LibcInv'
    BY <2>2, MemcpyKeeps, MemmoveKeeps, MemcmpKeeps
  <2>3. ASSUME NEW str \in Addrs, strlen(str) PROVE LibcInv'
    BY <2>3, StrlenKeeps
  <2>4. CASE CopyByte
    BY <2>4, CopyByteKeeps
  <2>5. CASE CompareByte
    BY <2>5, CompareByteKeeps
  <2>6. CASE CountChar
    BY <2>6, CountCharKeeps
  <2>7. CASE Return
    BY <2>7, ReturnKeeps
  <2>8. CASE UNCHANGED libcVars
    <3>1. UNCHANGED <<ram, routine, active, d, s, left, result, before, args>>
      BY <2>8 DEF libcVars
    <3>2. LibcTypeOK' /\ Ranges'
      BY <3>1, Zenon DEF LibcInv, LibcTypeOK, Ranges
    <3>3. Going'
      BY <3>1 DEF LibcInv, Going, CopyGoing, CompareGoing, CountGoing, Moved, Wanted, Down
    <3>4. LibcRight'
      BY <3>1 DEF LibcInv, LibcRight, Returned, Dest
    <3> QED BY <3>2, <3>3, <3>4 DEF LibcInv
  <2> QED BY <2>1, <2>2, <2>3, <2>4, <2>5, <2>6, <2>7, <2>8 DEF LibcNext
<1> QED BY <1>1, <1>2, PTL DEF LibcSpec

\* For memory of any size, any values of a byte and any number of bytes per
\* call: each routine leaves what the C library promises, memmove of
\* overlapping ranges included.
THEOREM LibcIsRight == LibcSpec => []LibcRight
<1>1. LibcInv => LibcRight
  BY DEF LibcInv
<1> QED BY <1>1, LibcInvariant, PTL
=============================================================================
