-------------------------------- MODULE I3c --------------------------------
(***************************************************************************)
(* Class I3c: init, enable and disable, byte transfers through two hardware *)
(* FIFOs, and the interrupt handler, which preempts the rest at any         *)
(* register access.  The peer takes and sends bytes while the controller is *)
(* enabled, at its own pace, and may fall silent for good in the middle of  *)
(* a transfer; the driver waits for it without a timeout.                   *)
(*                                                                         *)
(* Bytes are numbered in the order they enter the TX FIFO or leave the peer,*)
(* from the last reset of their FIFO on.                                    *)
(***************************************************************************)
EXTENDS Integers, Sequences

CONSTANTS FifoDepth,    \* depth of both FIFOs (16)
          Interrupts,   \* interrupts of the controller
          Addresses,    \* values of set_dynamic_address
          MaxBytes      \* bound: bytes per direction and FIFO reset

\* A level is read from the low five bits of its register.
ASSUME I3cAssumption ==
    /\ FifoDepth \in 1..31
    /\ Addresses \subseteq 0..255
    /\ MaxBytes \in Nat

VARIABLES
    ctrl,         \* REG_CTRL: the bits that are set
    txFifo, rxFifo,
    txNext,       \* bytes the driver has written to TX_FIFO
    rxNext,       \* bytes the peer has sent
    peerGot,      \* bytes the peer has received
    buffer,       \* bytes read has stored
    dynAddr,      \* REG_DYNAMIC_ADDR
    intrStatus,   \* REG_INTR_STATUS: the bits that are set
    i3cCall,      \* operation in progress
    i3cPc,        \* updates of CTRL made; bytes left of write or read
    room,         \* the level read last lets the transfer go on
    isr,          \* the handler has read intr_status
    intrRead,     \* intr_status
    intrLost,     \* ghost: interrupts cleared that the handler never read
    peerAlive     \* the peer responds

i3cRegs == <<ctrl, txFifo, rxFifo, dynAddr>>
peerVars == <<rxNext, peerGot, peerAlive>>
intrVars == <<intrStatus, isr, intrRead, intrLost>>
callVars == <<i3cCall, i3cPc, room>>
i3cVars == <<i3cRegs, txNext, peerVars, buffer, intrVars, callVars>>

Bytes == 0..MaxBytes    \* 0: what an empty FIFO returns

I3cTypeOK ==
    /\ ctrl \subseteq {"ENABLE", "TX_RST", "RX_RST"}
    /\ {txFifo, rxFifo, peerGot, buffer} \subseteq Seq(Bytes)
    /\ Len(txFifo) <= FifoDepth /\ Len(rxFifo) <= FifoDepth
    /\ txNext \in Bytes /\ rxNext \in Bytes
    /\ dynAddr \in 0..255
    /\ intrStatus \subseteq Interrupts /\ intrRead \subseteq Interrupts
    /\ intrLost \subseteq Interrupts
    /\ i3cCall \in {"none", "init", "clear_tx", "clear_rx", "write", "read"}
    /\ i3cPc \in Nat
    /\ {room, isr, peerAlive} \subseteq BOOLEAN

I3cInit ==
    /\ ctrl = {} /\ txFifo = <<>> /\ rxFifo = <<>> /\ dynAddr = 0
    /\ txNext = 0 /\ rxNext = 0 /\ peerGot = <<>> /\ buffer = <<>>
    /\ intrStatus = {} /\ isr = FALSE /\ intrRead = {} /\ intrLost = {}
    /\ i3cCall = "none" /\ i3cPc = 0 /\ room = FALSE
    /\ peerAlive = TRUE

----------------------------------------------------------------------------
\* Registers.

\* Setting a reset bit empties its FIFO (external).
WriteCtrl(bits) ==
    /\ ctrl' = bits
    /\ IF "TX_RST" \in bits THEN txFifo' = <<>> /\ peerGot' = <<>> /\ txNext' = 0
       ELSE UNCHANGED <<txFifo, peerGot, txNext>>
    /\ IF "RX_RST" \in bits THEN rxFifo' = <<>> /\ buffer' = <<>> /\ rxNext' = 0
       ELSE UNCHANGED <<rxFifo, buffer, rxNext>>

\* A byte written to a full FIFO, or to one held in reset, is lost (external).
PushTx(b) ==
    txFifo' = IF Len(txFifo) < FifoDepth /\ "TX_RST" \notin ctrl
              THEN Append(txFifo, b) ELSE txFifo

tx_fifo_level == Len(txFifo) % 32
rx_fifo_level == Len(rxFifo) % 32

----------------------------------------------------------------------------
\* The driver.  While the handler runs, the interrupted call stands still.

I3cCall(name, n) ==
    /\ ~isr /\ i3cCall = "none"
    /\ i3cCall' = name /\ i3cPc' = n /\ room' = FALSE

init          == I3cCall("init", 0) /\ UNCHANGED <<i3cRegs, txNext, peerVars, buffer, intrVars>>
\* Recovery::execute_i3c_recovery, which so far only sets the controller up:
\* the recovery image is not waited for.
execute_i3c_recovery == init
clear_tx_fifo == I3cCall("clear_tx", 0) /\ UNCHANGED <<i3cRegs, txNext, peerVars, buffer, intrVars>>
clear_rx_fifo == I3cCall("clear_rx", 2) /\ UNCHANGED <<i3cRegs, txNext, peerVars, buffer, intrVars>>

\* clear_tx_fifo, clear_rx_fifo and enable: five updates of CTRL, each the
\* present value with one bit changed.
InitWrites ==
    << ctrl \cup {"TX_RST"}, ctrl \ {"TX_RST"}, ctrl \cup {"RX_RST"}, ctrl \ {"RX_RST"},
       ctrl \cup {"ENABLE"} >>

LastWrite == CASE i3cCall = "clear_tx" -> 2 [] i3cCall = "clear_rx" -> 4 [] OTHER -> 5

InitStep ==
    /\ ~isr /\ i3cCall \in {"init", "clear_tx", "clear_rx"}
    /\ WriteCtrl(InitWrites[i3cPc + 1])
    /\ i3cPc' = i3cPc + 1
    /\ i3cCall' = IF i3cPc' = LastWrite THEN "none" ELSE i3cCall
    /\ UNCHANGED <<dynAddr, peerAlive, intrVars, room>>

write(n) ==
    /\ txNext + n <= MaxBytes
    /\ I3cCall("write", n)
    /\ UNCHANGED <<i3cRegs, txNext, peerVars, buffer, intrVars>>

read(n) ==
    /\ Len(buffer) + n <= MaxBytes
    /\ I3cCall("read", n)
    /\ UNCHANGED <<i3cRegs, txNext, peerVars, buffer, intrVars>>

\* Mutant: a full FIFO is taken to have room for one more.
PollTx_one_more ==
    /\ ~isr /\ i3cCall = "write" /\ i3cPc > 0 /\ ~room
    /\ room' = (tx_fifo_level <= FifoDepth)
    /\ UNCHANGED <<i3cRegs, txNext, peerVars, buffer, intrVars, i3cCall, i3cPc>>

PollTx ==
    /\ ~isr /\ i3cCall = "write" /\ i3cPc > 0 /\ ~room
    /\ room' = (tx_fifo_level < FifoDepth)
    /\ UNCHANGED <<i3cRegs, txNext, peerVars, buffer, intrVars, i3cCall, i3cPc>>

WriteByte ==
    /\ ~isr /\ i3cCall = "write" /\ i3cPc > 0 /\ room
    /\ PushTx(txNext + 1)
    /\ txNext' = txNext + 1
    /\ i3cPc' = i3cPc - 1 /\ room' = FALSE
    /\ UNCHANGED <<ctrl, rxFifo, dynAddr, peerVars, buffer, intrVars, i3cCall>>

\* Mutant: waits until the rest of the transfer is in the FIFO.
PollRx_all_at_once ==
    /\ ~isr /\ i3cCall = "read" /\ i3cPc > 0 /\ ~room
    /\ room' = (rx_fifo_level >= i3cPc)
    /\ UNCHANGED <<i3cRegs, txNext, peerVars, buffer, intrVars, i3cCall, i3cPc>>

PollRx ==
    /\ ~isr /\ i3cCall = "read" /\ i3cPc > 0 /\ ~room
    /\ room' = (rx_fifo_level # 0)
    /\ UNCHANGED <<i3cRegs, txNext, peerVars, buffer, intrVars, i3cCall, i3cPc>>

ReadByte ==
    /\ ~isr /\ i3cCall = "read" /\ i3cPc > 0 /\ room
    /\ IF rxFifo = <<>> THEN buffer' = Append(buffer, 0) /\ UNCHANGED rxFifo
       ELSE buffer' = Append(buffer, rxFifo[1]) /\ rxFifo' = Tail(rxFifo)
    /\ i3cPc' = i3cPc - 1 /\ room' = FALSE
    /\ UNCHANGED <<ctrl, txFifo, dynAddr, txNext, peerVars, intrVars, i3cCall>>

TransferDone ==
    /\ ~isr /\ i3cCall \in {"write", "read"} /\ i3cPc = 0
    /\ i3cCall' = "none"
    /\ UNCHANGED <<i3cRegs, txNext, peerVars, buffer, intrVars, i3cPc, room>>

\* enable, disable and set_dynamic_address, a single update each.
SetControl(bits) ==
    /\ ~isr /\ i3cCall = "none"
    /\ WriteCtrl(bits)
    /\ UNCHANGED <<dynAddr, peerAlive, intrVars, callVars>>
enable  == SetControl(ctrl \cup {"ENABLE"})
disable == SetControl(ctrl \ {"ENABLE"})

set_dynamic_address(a) ==
    /\ ~isr /\ i3cCall = "none"
    /\ dynAddr' = a
    /\ UNCHANGED <<ctrl, txFifo, rxFifo, txNext, peerVars, buffer, intrVars, callVars>>

handle_interrupt ==
    /\ ~isr /\ intrStatus # {}
    /\ isr' = TRUE /\ intrRead' = intrStatus
    /\ UNCHANGED <<i3cRegs, txNext, peerVars, buffer, intrStatus, intrLost, callVars>>

\* A bit written as 1 is cleared (external).
ClearInterrupts(bits) ==
    /\ intrStatus' = intrStatus \ bits
    /\ intrLost' = intrLost \cup ((intrStatus \cap bits) \ intrRead)

HandlerClears ==
    /\ isr
    /\ ClearInterrupts(intrRead)
    /\ isr' = FALSE /\ intrRead' = {}
    /\ UNCHANGED <<i3cRegs, txNext, peerVars, buffer, callVars>>

----------------------------------------------------------------------------
\* The controller and its peer (external).

Interrupt(i) ==
    /\ i \notin intrStatus
    /\ intrStatus' = intrStatus \cup {i}
    /\ UNCHANGED <<i3cRegs, txNext, peerVars, buffer, isr, intrRead, intrLost, callVars>>

PeerTakes ==
    /\ peerAlive /\ "ENABLE" \in ctrl /\ txFifo # <<>>
    /\ peerGot' = Append(peerGot, txFifo[1]) /\ txFifo' = Tail(txFifo)
    /\ UNCHANGED <<ctrl, rxFifo, dynAddr, txNext, rxNext, peerAlive, buffer,
                   intrVars, callVars>>

\* The bus stalls while the RX FIFO is full.
PeerSends ==
    /\ peerAlive /\ "ENABLE" \in ctrl /\ "RX_RST" \notin ctrl
    /\ Len(rxFifo) < FifoDepth /\ rxNext < MaxBytes
    /\ rxNext' = rxNext + 1 /\ rxFifo' = Append(rxFifo, rxNext + 1)
    /\ UNCHANGED <<ctrl, txFifo, dynAddr, txNext, peerGot, peerAlive, buffer,
                   intrVars, callVars>>

PeerFallsSilent ==
    /\ peerAlive /\ peerAlive' = FALSE
    /\ UNCHANGED <<i3cRegs, txNext, rxNext, peerGot, buffer, intrVars, callVars>>

I3cCalls ==
    \/ init \/ execute_i3c_recovery \/ clear_tx_fifo \/ clear_rx_fifo \/ enable \/ disable
    \/ \E n \in 1..MaxBytes : write(n) \/ read(n)
    \/ \E a \in Addresses : set_dynamic_address(a)

I3cTransfer == PollTx \/ WriteByte \/ PollRx \/ ReadByte \/ TransferDone

I3cNext ==
    \/ I3cCalls \/ InitStep \/ I3cTransfer
    \/ handle_interrupt \/ HandlerClears \/ \E i \in Interrupts : Interrupt(i)
    \/ PeerTakes \/ PeerSends \/ PeerFallsSilent

\* The MCU goes on executing, between interrupts; a peer that responds gets
\* round to every byte.
I3cFairness ==
    /\ SF_i3cVars(I3cTransfer) /\ WF_i3cVars(HandlerClears)
    /\ WF_i3cVars(PeerTakes) /\ WF_i3cVars(PeerSends)

I3cSpec == I3cInit /\ [][I3cNext]_i3cVars /\ I3cFairness

----------------------------------------------------------------------------
\* Properties.

\* Between the driver filling a FIFO and the peer emptying it, or the other way
\* round, from one reset of the FIFO to the next and across interrupts, no byte
\* is dropped, doubled or reordered, and the handler clears no interrupt it has
\* not read.
TransfersFaithful ==
    /\ peerGot \o txFifo = [i \in 1..txNext |-> i]
    /\ buffer \o rxFifo = [i \in 1..rxNext |-> i]
    /\ intrLost = {}

\* A transfer of an enabled controller ends unless the peer falls silent: there
\* is no timeout to end it otherwise.
TransferEnds ==
    (i3cCall \in {"write", "read"} /\ "ENABLE" \in ctrl)
        ~> (i3cCall \notin {"write", "read"} \/ ~peerAlive)
=============================================================================
