------------------------------ MODULE OtpProofs ------------------------------
(***************************************************************************)
(* Proofs about the OTP driver, for any memory, partition size, word count  *)
(* and timeout.  What is read and written is right because, from its first  *)
(* command on, a call shares the controller with nobody: a command still in  *)
(* it is the call's own, at the word at hand (OwnCommand), and one that has  *)
(* ended without an error has done its work (Landed).                       *)
(***************************************************************************)
EXTENDS Otp, TLAPS

\* A call stays inside its words and keeps its count of polls.
CallOK ==
    /\ pc # "idle" => call.tmo > 0 /\ call.op # "none"
    /\ pc = "before" => call.op \in {"read", "write"}
    /\ call.op \in {"read", "write"} =>
          /\ call.addr + call.n <= NumWords /\ call.i <= call.n
          /\ pc # "idle" => call.i < call.n
          /\ call.i > 0 \/ pc = "after" => call.issued
    /\ call.op = "write" => Len(call.data) = call.n

\* What the controller is busy with once a call has issued a command.
OwnCommand ==
    call.op \in {"read", "write"} /\ call.issued /\ ~ctl.idle =>
        /\ pc # "before" /\ call.i < call.n
        /\ ctl.cmd = OpCommand /\ ctl.addr = call.addr + call.i
        /\ call.op = "write" => ctl.wdata = call.data[call.i + 1]

\* What a command that ended without an error has left.
Landed ==
    pc = "after" /\ ctl.idle /\ ~ctl.error =>
        /\ call.op = "read" => ctl.rdata = mem[call.addr + call.i]
        /\ call.op = "write" => mem[call.addr + call.i] = call.data[call.i + 1]

OtpInv == TypeOK /\ CallOK /\ OwnCommand /\ Landed /\ ReadsOwnWords /\ WritesInOrder

Results == {"none", "OK", "TIMEOUT", "OTP_READ_ERROR", "OTP_WRITE_ERROR"}

----------------------------------------------------------------------------
\* The first word exists, and every word is in a partition.
LEMMA AddrFacts ==
    /\ 0 \in Addrs /\ 0 \in Partitions
    /\ \A a \in Addrs : PartitionOf(a) \in Partitions
<1>1. 0 \in Addrs
  BY OtpAssumption DEF Addrs
<1>2. PartitionOf(0) = 0
  BY OtpAssumption DEF PartitionOf
<1> QED BY <1>1, <1>2 DEF Partitions

\* NoCall is a call.
LEMMA NoCallType ==
    /\ NoCall \in Calls /\ TIMEOUT_CYCLES \in 0..TIMEOUT_CYCLES
    /\ TIMEOUT_CYCLES > 0
<1>1. TIMEOUT_CYCLES \in 0..TIMEOUT_CYCLES /\ TIMEOUT_CYCLES > 0
  BY OtpAssumption
<1>2. <<>> \in Seq(Words)
  OBVIOUS
<1> QED BY <1>1, <1>2, AddrFacts DEF NoCall, Calls

\* Blank fuses, no call.
LEMMA InitOtp == Init => OtpInv
<1> SUFFICES ASSUME Init PROVE OtpInv
  OBVIOUS
<1>1. {} \in Words
  BY DEF Words
<1>2. ctl \in Controllers
  BY <1>1, AddrFacts DEF Init, Controllers, Commands
<1>3. TypeOK
  BY <1>1, <1>2, NoCallType DEF Init, TypeOK
<1>4. CallOK /\ OwnCommand /\ Landed /\ ReadsOwnWords /\ WritesInOrder
  BY DEF Init, CallOK, OwnCommand, Landed, ReadsOwnWords, WritesInOrder, NoCall
<1> QED BY <1>3, <1>4 DEF OtpInv

\* A call begins: it has read and written nothing and issued no command.
LEMMA NewCall ==
    ASSUME OtpInv, NEW c \in Calls,
           c.i = 0, c.issued = FALSE, c.tmo = TIMEOUT_CYCLES, c.op # "none",
           c.op \in {"read", "write"} => c.addr + c.n <= NumWords,
           c.op = "write" => Len(c.data) = c.n,
           call' = c, out' = <<>>, ctl' \in Controllers, ret' \in Results,
           UNCHANGED <<mem, locked, base>>,
           \/ pc' = "idle"
           \/ pc' = "before" /\ c.op \in {"read", "write"} /\ c.n > 0
           \/ pc' = "after" /\ c.op \notin {"read", "write"}
    PROVE  OtpInv'
<1>1. TypeOK'
  BY DEF OtpInv, TypeOK, Results
<1>2. CallOK'
  BY NoCallType DEF CallOK, Calls
<1>3. OwnCommand' /\ Landed' /\ ReadsOwnWords' /\ WritesInOrder'
  BY DEF OwnCommand, Landed, ReadsOwnWords, WritesInOrder
<1> QED BY <1>1, <1>2, <1>3 DEF OtpInv

\* What WriteCmd makes of the controller.
LEMMA WriteCmdType ==
    ASSUME ctl \in Controllers, NEW c \in Commands, NEW a \in Addrs, NEW w \in Words
    PROVE  WriteCmd(c, a, w) \in Controllers
BY DEF WriteCmd, Controllers

\* Every operation but clear_error begins a call.
LEMMA ClientOtp == ASSUME OtpInv, ClientCall PROVE OtpInv'
<1>1. CASE init
  <2> DEFINE c == [NoCall EXCEPT !.op = "init"]
  <2>1. c \in Calls /\ c.i = 0 /\ c.issued = FALSE /\ c.tmo = TIMEOUT_CYCLES /\ c.op = "init"
    BY NoCallType DEF NoCall, Calls
  <2>2. /\ call' = c /\ out' = <<>> /\ ctl' \in Controllers /\ ret' \in Results
        /\ UNCHANGED <<mem, locked, base>> /\ pc' = "after"
    BY <1>1 DEF init, Begin, OtpInv, TypeOK, Results
  <2> HIDE DEF c
  <2> QED BY <2>1, <2>2, NewCall
<1>2. CASE clear_error
  <2>1. ctl' = [ctl EXCEPT !.error = FALSE] /\ ctl \in Controllers /\ pc = "idle"
    BY <1>2 DEF clear_error, OtpInv, TypeOK
  <2>2. /\ ctl' \in Controllers /\ ctl'.idle = ctl.idle /\ ctl'.cmd = ctl.cmd
        /\ ctl'.addr = ctl.addr /\ ctl'.wdata = ctl.wdata
    BY <2>1 DEF Controllers
  <2>3. UNCHANGED <<mem, locked, pc, call, out, ret, base>>
    BY <1>2 DEF clear_error
  <2> QED BY <2>1, <2>2, <2>3 DEF OtpInv, TypeOK, CallOK, OwnCommand, Landed, ReadsOwnWords,
                             WritesInOrder, OpCommand
<1>3. ASSUME NEW a \in Addrs, NEW n \in 0..MaxCount, a + n <= NumWords, read_words(a, n)
      PROVE  OtpInv'
  <2> DEFINE c == [NoCall EXCEPT !.op = "read", !.addr = a, !.n = n]
  <2>0. n \in Nat
    BY OtpAssumption
  <2>1. /\ c \in Calls /\ c.i = 0 /\ c.issued = FALSE /\ c.tmo = TIMEOUT_CYCLES
        /\ c.op = "read" /\ c.addr = a /\ c.n = n
    BY <2>0, NoCallType DEF NoCall, Calls
  <2>2. /\ call' = c /\ out' = <<>> /\ ctl' \in Controllers /\ ret' \in Results
        /\ UNCHANGED <<mem, locked, base>>
        /\ IF c.n = 0 THEN pc' = "idle" ELSE pc' = "before"
    BY <1>3 DEF read_words, BeginWords, Begin, OtpInv, TypeOK, Results
  <2>3. c.n = 0 \/ c.n > 0
    BY <2>0, <2>1
  <2> HIDE DEF c
  <2> QED BY <1>3, <2>1, <2>2, <2>3, NewCall
<1>4. ASSUME NEW a \in Addrs, NEW n \in 0..MaxCount, NEW ws \in [1..n -> Words],
             a + n <= NumWords, write_words(a, ws)
      PROVE  OtpInv'
  <2> DEFINE c == [NoCall EXCEPT !.op = "write", !.addr = a, !.n = Len(ws), !.data = ws]
  <2>1. ws \in Seq(Words) /\ Len(ws) = n /\ n \in Nat
    BY OtpAssumption
  <2>2. /\ c \in Calls /\ c.i = 0 /\ c.issued = FALSE /\ c.tmo = TIMEOUT_CYCLES
        /\ c.op = "write" /\ c.addr = a /\ c.n = n /\ c.data = ws
    BY <2>1, NoCallType DEF NoCall, Calls
  <2>3. /\ call' = c /\ out' = <<>> /\ ctl' \in Controllers /\ ret' \in Results
        /\ UNCHANGED <<mem, locked, base>>
        /\ IF c.n = 0 THEN pc' = "idle" ELSE pc' = "before"
    BY <1>4 DEF write_words, BeginWords, Begin, OtpInv, TypeOK, Results
  <2>4. c.n = 0 \/ c.n > 0
    BY <2>1, <2>2
  <2> HIDE DEF c
  <2> QED BY <1>4, <2>1, <2>2, <2>3, <2>4, NewCall
<1>5. ASSUME NEW p \in Partitions, lock_partition(p) PROVE OtpInv'
  <2> DEFINE c == [NoCall EXCEPT !.op = "lock", !.part = p]
  <2>1. c \in Calls /\ c.i = 0 /\ c.issued = FALSE /\ c.tmo = TIMEOUT_CYCLES /\ c.op = "lock"
    BY NoCallType DEF NoCall, Calls
  <2>2. ctl \in Controllers /\ ctl.addr \in Addrs /\ ctl.wdata \in Words
    BY DEF OtpInv, TypeOK, Controllers
  <2>3. ctl' \in Controllers
    BY <1>5, <2>2, WriteCmdType DEF lock_partition, Commands
  <2>4. /\ call' = c /\ out' = <<>> /\ ret' \in Results
        /\ UNCHANGED <<mem, locked, base>> /\ pc' = "after"
    BY <1>5 DEF lock_partition, Begin, OtpInv, TypeOK, Results
  <2> HIDE DEF c
  <2> QED BY <2>1, <2>3, <2>4, NewCall
<1> QED BY <1>1, <1>2, <1>3, <1>4, <1>5 DEF ClientCall

----------------------------------------------------------------------------
\* The words of a call are words of the memory.
LEMMA CallAddr ==
    ASSUME OtpInv, call.op \in {"read", "write"}, call.i < call.n
    PROVE  /\ call.addr + call.i \in Addrs
           /\ call.op = "write" => call.data[call.i + 1] \in Words
<1>1. call \in Calls /\ call.addr + call.n <= NumWords
  BY DEF OtpInv, TypeOK, CallOK
<1>2. call.addr \in 0..(NumWords - 1) /\ call.i \in Nat /\ call.n \in Nat
  BY <1>1 DEF Calls, Addrs
<1>3. call.addr + call.i \in Addrs
  BY <1>1, <1>2, OtpAssumption DEF Addrs
<1>4. call.op = "write" => call.data[call.i + 1] \in Words
  <2>1. call.data \in Seq(Words) /\ (call.op = "write" => Len(call.data) = call.n)
    BY <1>1 DEF Calls, OtpInv, CallOK
  <2> QED BY <1>2, <2>1
<1> QED BY <1>3, <1>4

\* The fields of a call that has changed its count, its word or its flag.
LEMMA CallFields ==
    ASSUME call \in Calls, NEW i \in Nat, NEW t \in 0..TIMEOUT_CYCLES, NEW b \in BOOLEAN,
           call' = [call EXCEPT !.i = i, !.tmo = t, !.issued = b]
    PROVE  /\ call' \in Calls
           /\ call'.i = i /\ call'.tmo = t /\ call'.issued = b
           /\ call'.op = call.op /\ call'.addr = call.addr /\ call'.n = call.n
           /\ call'.data = call.data /\ call'.part = call.part
BY DEF Calls

\* A turn of a wait changes the count only.
LEMMA WaitOtp == ASSUME OtpInv, WaitBusy PROVE OtpInv'
<1>1. call \in Calls /\ pc # "idle" /\ call.tmo > 0
  BY DEF OtpInv, TypeOK, CallOK, WaitBusy
<1>2. /\ call.tmo \in 1..TIMEOUT_CYCLES /\ call.tmo - 1 \in 0..TIMEOUT_CYCLES
      /\ call.i \in Nat /\ call.issued \in BOOLEAN
  BY <1>1, OtpAssumption DEF Calls
<1>3. call' = [call EXCEPT !.i = call.i, !.tmo = call.tmo - 1, !.issued = call.issued]
  BY <1>1 DEF WaitBusy, Calls
<1>4. /\ call' \in Calls
      /\ call'.i = call.i /\ call'.tmo = call.tmo - 1 /\ call'.issued = call.issued
      /\ call'.op = call.op /\ call'.addr = call.addr /\ call'.n = call.n
      /\ call'.data = call.data
  BY <1>1, <1>2, <1>3, CallFields
<1>5. /\ UNCHANGED <<ctl, mem, locked, out, base>> /\ ~ctl.idle
      /\ IF call.tmo - 1 = 0 THEN pc' = "idle" /\ ret' = "TIMEOUT" ELSE UNCHANGED <<pc, ret>>
  BY DEF WaitBusy, Return, is_idle
<1>6. TypeOK'
  BY <1>4, <1>5 DEF OtpInv, TypeOK
<1>7. CallOK'
  BY <1>2, <1>4, <1>5 DEF OtpInv, CallOK
<1>8. OwnCommand' /\ Landed'
  BY <1>4, <1>5 DEF OtpInv, OwnCommand, Landed, OpCommand
<1>9. ReadsOwnWords' /\ WritesInOrder'
  BY <1>4, <1>5 DEF OtpInv, ReadsOwnWords, WritesInOrder
<1> QED BY <1>6, <1>7, <1>8, <1>9 DEF OtpInv

\* The command of the word at hand goes to an idle controller; with the first
\* one the call takes its picture of the fuses.
LEMMA IssueOtp == ASSUME OtpInv, IssueCommand PROVE OtpInv'
<1>1. /\ call \in Calls /\ ctl \in Controllers /\ pc = "before" /\ ctl.idle
      /\ call.op \in {"read", "write"} /\ call.i < call.n
  BY DEF OtpInv, TypeOK, CallOK, IssueCommand, is_idle
<1>2. call' = [call EXCEPT !.i = call.i, !.tmo = TIMEOUT_CYCLES, !.issued = TRUE]
  BY <1>1 DEF IssueCommand, Calls
<1>3. call.i \in Nat
  BY <1>1 DEF Calls
<1>4. /\ call' \in Calls
      /\ call'.i = call.i /\ call'.tmo = TIMEOUT_CYCLES /\ call'.issued = TRUE
      /\ call'.op = call.op /\ call'.addr = call.addr /\ call'.n = call.n
      /\ call'.data = call.data
  BY <1>1, <1>2, <1>3, CallFields, NoCallType
<1>5. OpCommand \in Commands /\ OpData \in Words /\ call.addr + call.i \in Addrs
  BY <1>1, CallAddr DEF OpCommand, OpData, Commands, Controllers
<1>6. ctl' = WriteCmd(OpCommand, call.addr + call.i, OpData)
  BY DEF IssueCommand
<1>7. /\ ctl' \in Controllers /\ ctl'.idle = FALSE /\ ctl'.cmd = OpCommand
      /\ ctl'.addr = call.addr + call.i /\ ctl'.wdata = OpData
  BY <1>1, <1>5, <1>6 DEF WriteCmd, Controllers
<1>8. /\ UNCHANGED <<mem, locked, out, ret>> /\ pc' = "after"
      /\ base' = IF call.i = 0 THEN mem ELSE base
  BY DEF IssueCommand
<1>9. TypeOK'
  BY <1>4, <1>7, <1>8 DEF OtpInv, TypeOK
<1>10. CallOK'
  BY <1>1, <1>4, <1>8, NoCallType DEF OtpInv, CallOK
<1>11. OwnCommand' /\ Landed'
  BY <1>1, <1>4, <1>7, <1>8 DEF OwnCommand, Landed, OpCommand, OpData
<1>12. ReadsOwnWords'
  BY <1>4, <1>8 DEF OtpInv, ReadsOwnWords
<1>13. WritesInOrder'
  <2>1. CASE call.i = 0
    BY <1>4, <1>8, <2>1 DEF WritesInOrder
  <2>2. CASE call.i > 0
    <3>1. call.issued /\ base' = base
      BY <1>1, <1>8, <2>2 DEF OtpInv, CallOK
    <3> QED BY <1>4, <1>8, <3>1 DEF OtpInv, WritesInOrder
  <2> QED BY <1>3, <2>1, <2>2
<1> QED BY <1>9, <1>10, <1>11, <1>12, <1>13 DEF OtpInv

\* A call ends without touching anything.
LEMMA ReturnOtp ==
    ASSUME OtpInv, pc' = "idle", ret' \in Results, UNCHANGED <<ctl, mem, locked, call, out, base>>
    PROVE  OtpInv'
BY DEF OtpInv, TypeOK, CallOK, OwnCommand, Landed, ReadsOwnWords, WritesInOrder, OpCommand,
       Results

\* The command of the word at hand has ended without an error.
LEMMA DoneOtp == ASSUME OtpInv, CommandDone PROVE OtpInv'
<1>1. /\ call \in Calls /\ ctl \in Controllers /\ pc = "after" /\ ctl.idle /\ ~ctl.error
      /\ call.op \in {"read", "write"} /\ call.i < call.n /\ call.issued
  BY DEF OtpInv, TypeOK, CallOK, CommandDone, is_idle, has_error
<1>2. call.i \in Nat /\ call.n \in Nat /\ call.i + 1 \in Nat /\ call.addr \in Nat
  BY <1>1 DEF Calls, Addrs
<1>3. call' = [call EXCEPT !.i = call.i + 1, !.tmo = TIMEOUT_CYCLES, !.issued = TRUE]
  BY <1>1 DEF CommandDone, NextWord, Calls
<1>4. /\ call' \in Calls
      /\ call'.i = call.i + 1 /\ call'.tmo = TIMEOUT_CYCLES /\ call'.issued = TRUE
      /\ call'.op = call.op /\ call'.addr = call.addr /\ call'.n = call.n
      /\ call'.data = call.data
  BY <1>1, <1>2, <1>3, CallFields, NoCallType
<1>5. /\ UNCHANGED <<ctl, mem, locked, base>>
      /\ out' = IF call.op = "read" THEN Append(out, ctl.rdata) ELSE out
      /\ IF call.i + 1 = call.n THEN pc' = "idle" /\ ret' = "OK"
                                ELSE pc' = "before" /\ ret' = ret
  BY DEF CommandDone, NextWord, Return
<1>6. TypeOK'
  <2>1. out' \in Seq(Words)
    BY <1>1, <1>5 DEF OtpInv, TypeOK, Controllers
  <2> QED BY <1>4, <1>5, <2>1 DEF OtpInv, TypeOK
<1>7. CallOK'
  BY <1>1, <1>2, <1>4, <1>5, NoCallType DEF OtpInv, CallOK
<1>8. OwnCommand' /\ Landed'
  BY <1>1, <1>5 DEF OwnCommand, Landed
<1>9. ReadsOwnWords'
  <2> SUFFICES ASSUME call.op = "read"
               PROVE /\ Len(out') = call.i + 1
                     /\ \A k \in 1..Len(out') : out'[k] = mem[call.addr + k - 1]
    BY <1>4, <1>5 DEF ReadsOwnWords
  <2>1. /\ out \in Seq(Words) /\ Len(out) = call.i
        /\ \A k \in 1..Len(out) : out[k] = mem[call.addr + k - 1]
    BY DEF OtpInv, TypeOK, ReadsOwnWords
  <2>2. ctl.rdata = mem[call.addr + call.i] /\ ctl.rdata \in Words
    BY <1>1 DEF OtpInv, Landed, Controllers
  <2>3. out' = Append(out, ctl.rdata)
    BY <1>5
  <2>4. Len(out') = call.i + 1
    BY <2>1, <2>2, <2>3
  <2>5. ASSUME NEW k \in 1..Len(out') PROVE out'[k] = mem[call.addr + k - 1]
    <3>1. CASE k <= call.i
      BY <1>2, <2>1, <2>2, <2>3, <2>4, <3>1
    <3>2. CASE k = call.i + 1
      <4>1. call.addr + k - 1 = call.addr + call.i
        BY <1>2, <3>2
      <4> QED BY <2>1, <2>2, <2>3, <3>2, <4>1
    <3> QED BY <1>2, <2>4, <3>1, <3>2
  <2> QED BY <2>4, <2>5
<1>10. WritesInOrder'
  <2> SUFFICES ASSUME call.op = "write", NEW a \in Addrs
               PROVE IF a - call.addr \in 0..((call.i + 1) - 1)
                     THEN mem[a] = call.data[a - call.addr + 1]
                     ELSE a - call.addr # call.i + 1 => mem[a] = base[a]
    BY <1>4, <1>5 DEF WritesInOrder
  <2>1. /\ mem[call.addr + call.i] = call.data[call.i + 1]
        /\ IF a - call.addr \in 0..(call.i - 1) THEN mem[a] = call.data[a - call.addr + 1]
           ELSE a - call.addr # call.i => mem[a] = base[a]
    BY <1>1 DEF OtpInv, Landed, WritesInOrder
  <2>2. a \in Int
    BY OtpAssumption DEF Addrs
  <2>3. CASE a - call.addr = call.i
    <3>1. a = call.addr + call.i
      BY <1>2, <2>2, <2>3
    <3> QED BY <1>2, <2>1, <2>3, <3>1
  <2>4. CASE a - call.addr # call.i
    BY <1>2, <2>1, <2>2, <2>4
  <2> QED BY <2>3, <2>4
<1> QED BY <1>6, <1>7, <1>8, <1>9, <1>10 DEF OtpInv

\* The controller ends a command.  It leaves the driver alone, and changes no
\* fuse but the one its write is at.
LEMMA CompleteFacts ==
    ASSUME OtpInv, NEW failed \in BOOLEAN, Complete(failed)
    PROVE  /\ ~ctl.idle /\ ctl'.idle /\ UNCHANGED <<pc, call, out, ret, base>>
           /\ ctl' \in Controllers /\ mem' \in [Addrs -> Words] /\ locked' \subseteq Partitions
           /\ ctl.cmd # "CMD_WRITE" => mem' = mem
           /\ \A a \in Addrs : a # ctl.addr => mem'[a] = mem[a]
           /\ ctl.cmd = "CMD_READ" /\ ~ctl'.error => ctl'.rdata = mem[ctl.addr]
           /\ ctl.cmd = "CMD_WRITE" /\ ~ctl'.error => mem'[ctl.addr] = ctl.wdata
<1>1. /\ ctl \in Controllers /\ mem \in [Addrs -> Words] /\ locked \subseteq Partitions
      /\ ctl.addr \in Addrs /\ ctl.wdata \in Words /\ mem[ctl.addr] \in Words
      /\ mem[ctl.addr] \cup ctl.wdata \in Words /\ PartitionOf(ctl.addr) \in Partitions
  BY AddrFacts DEF OtpInv, TypeOK, Controllers, Words
<1>2. ~ctl.idle /\ UNCHANGED <<pc, call, out, ret, base>>
  BY DEF Complete
<1> DEFINE done == [ctl EXCEPT !.idle = TRUE, !.error = @ \/ failed]
<1>3. /\ done \in Controllers /\ done.idle = TRUE /\ (~done.error => ~failed)
      /\ \A w \in Words : /\ [done EXCEPT !.rdata = w] \in Controllers
                          /\ [done EXCEPT !.rdata = w].idle = TRUE
                          /\ [done EXCEPT !.rdata = w].error = done.error
                          /\ [done EXCEPT !.rdata = w].rdata = w
  BY <1>1 DEF Controllers
<1>4. CASE ctl.cmd = "CMD_READ"
  <2>1. /\ UNCHANGED <<mem, locked>>
        /\ \E w \in IF failed THEN Words ELSE {mem[ctl.addr]} : ctl' = [done EXCEPT !.rdata = w]
    BY <1>4 DEF Complete
  <2> HIDE DEF done
  <2> QED BY <1>1, <1>2, <1>3, <1>4, <2>1
<1>5. CASE ctl.cmd = "CMD_WRITE"
  <2>1. /\ ctl' = done /\ UNCHANGED locked
        /\ \E w \in IF failed THEN {mem[ctl.addr], mem[ctl.addr] \cup ctl.wdata}
                              ELSE {ctl.wdata} : mem' = [mem EXCEPT ![ctl.addr] = w]
    BY <1>5 DEF Complete
  <2> HIDE DEF done
  <2> QED BY <1>1, <1>2, <1>3, <1>5, <2>1
<1>6. CASE ctl.cmd = "CMD_DIGEST"
  <2>1. /\ ctl' = done /\ UNCHANGED mem
        /\ locked' = IF failed THEN locked ELSE locked \cup {PartitionOf(ctl.addr)}
    BY <1>6 DEF Complete
  <2> HIDE DEF done
  <2> QED BY <1>1, <1>2, <1>3, <1>6, <2>1
<1> QED BY <1>1, <1>4, <1>5, <1>6 DEF Controllers, Commands

\* Whose command it was decides what its end means to the call.
LEMMA CompleteOtp ==
    ASSUME OtpInv, NEW failed \in BOOLEAN, Complete(failed) PROVE OtpInv'
<1>1. /\ ~ctl.idle /\ ctl'.idle /\ UNCHANGED <<pc, call, out, ret, base>>
      /\ ctl' \in Controllers /\ mem' \in [Addrs -> Words] /\ locked' \subseteq Partitions
      /\ ctl.cmd # "CMD_WRITE" => mem' = mem
      /\ \A a \in Addrs : a # ctl.addr => mem'[a] = mem[a]
      /\ ctl.cmd = "CMD_READ" /\ ~ctl'.error => ctl'.rdata = mem[ctl.addr]
      /\ ctl.cmd = "CMD_WRITE" /\ ~ctl'.error => mem'[ctl.addr] = ctl.wdata
  BY CompleteFacts
<1>2. TypeOK'
  BY <1>1 DEF OtpInv, TypeOK
<1>3. CallOK' /\ OwnCommand'
  BY <1>1 DEF OtpInv, CallOK, OwnCommand
<1>4. call.op = "read" /\ call.issued => mem' = mem
  BY <1>1 DEF OtpInv, OwnCommand, OpCommand
<1>5. ReadsOwnWords'
  <2>1. CASE call.issued
    BY <1>1, <1>4, <2>1 DEF OtpInv, ReadsOwnWords
  <2>2. CASE ~call.issued /\ call.op = "read"
    <3>1. call.i = 0
      BY <2>2 DEF OtpInv, CallOK, TypeOK, Calls
    <3> QED BY <1>1, <2>2, <3>1 DEF OtpInv, ReadsOwnWords
  <2> QED BY <1>1, <2>1, <2>2 DEF ReadsOwnWords
<1>6. Landed'
  <2> SUFFICES ASSUME pc = "after", ~ctl'.error, call.op \in {"read", "write"}
               PROVE  /\ call.op = "read" => ctl'.rdata = mem'[call.addr + call.i]
                      /\ call.op = "write" => mem'[call.addr + call.i] = call.data[call.i + 1]
    BY <1>1 DEF Landed
  <2>1. call.issued
    BY DEF OtpInv, CallOK
  <2>2. /\ ctl.cmd = OpCommand /\ ctl.addr = call.addr + call.i
        /\ call.op = "write" => ctl.wdata = call.data[call.i + 1]
    BY <1>1, <2>1 DEF OtpInv, OwnCommand
  <2> QED BY <1>1, <1>4, <2>1, <2>2 DEF OpCommand
<1>7. WritesInOrder'
  <2> SUFFICES ASSUME call.op = "write", call.issued, NEW a \in Addrs
               PROVE IF a - call.addr \in 0..(call.i - 1)
                     THEN mem'[a] = call.data[a - call.addr + 1]
                     ELSE a - call.addr # call.i => mem'[a] = base[a]
    BY <1>1 DEF WritesInOrder
  <2>1. ctl.addr = call.addr + call.i
    BY <1>1 DEF OtpInv, OwnCommand
  <2>2. a \in Int /\ call.addr \in Int /\ call.i \in Nat
    BY OtpAssumption DEF OtpInv, TypeOK, Calls, Addrs
  <2>3. IF a - call.addr \in 0..(call.i - 1) THEN mem[a] = call.data[a - call.addr + 1]
        ELSE a - call.addr # call.i => mem[a] = base[a]
    BY DEF OtpInv, WritesInOrder
  <2>4. CASE a = ctl.addr
    BY <2>1, <2>2, <2>4
  <2>5. CASE a # ctl.addr
    BY <1>1, <2>3, <2>5
  <2> QED BY <2>4, <2>5
<1> QED BY <1>2, <1>3, <1>5, <1>6, <1>7 DEF OtpInv

----------------------------------------------------------------------------
\* OtpInv is inductive.
LEMMA OtpInductive == OtpInv /\ [Next]_vars => OtpInv'
<1> SUFFICES ASSUME OtpInv, [Next]_vars PROVE OtpInv'
  OBVIOUS
<1>1. CASE UNCHANGED vars
  BY <1>1 DEF vars, OtpInv, TypeOK, CallOK, OwnCommand, Landed, ReadsOwnWords, WritesInOrder,
              OpCommand
<1>2. CASE WaitOver \/ CommandFailed
  BY <1>2, ReturnOtp DEF WaitOver, CommandFailed, Return, Results
<1>3. CASE Next
  BY <1>2, <1>3, ClientOtp, WaitOtp, IssueOtp, DoneOtp, CompleteOtp
     DEF Next, DriverStep, Controller
<1> QED BY <1>1, <1>3

\* OtpInv holds in every state.
LEMMA OtpAlways == Spec => []OtpInv
BY InitOtp, OtpInductive, PTL DEF Spec

\* The registers, the fuses and the call keep their types: no call leaves the
\* memory or its own words, and the count of wait_for_idle never passes 0.
THEOREM OtpTypes == Spec => []TypeOK
<1>1. OtpInv => TypeOK
  BY DEF OtpInv
<1> QED BY <1>1, OtpAlways, PTL

\* read_words hands out the words at the addresses asked for, in order, though
\* a read or write an earlier call has given up on may still be going on.
THEOREM ReadsAreOwnWords == Spec => []ReadsOwnWords
<1>1. OtpInv => ReadsOwnWords
  BY DEF OtpInv
<1> QED BY <1>1, OtpAlways, PTL

\* write_words programs its words strictly in order, and no other fuse changes,
\* wherever an error or a timeout stops it and whenever the controller
\* finishes the word at hand.
THEOREM WritesAreInOrder == Spec => []WritesInOrder
<1>1. OtpInv => WritesInOrder
  BY DEF OtpInv
<1> QED BY <1>1, OtpAlways, PTL
----------------------------------------------------------------------------
\* The driver implements the memory of OtpMemory.  A step of the driver or of
\* the controller is a step of the memory, or none.

\* Of a client only the start of a call is seen.
LEMMA StartIsSeen ==
    ASSUME OtpInv, NEW c \in Calls, pc = "idle", call' = c, out' = <<>>, c.i = 0,
           UNCHANGED mem, Pending' = Pending,
           c.op \in {"read", "write"} => c.addr + c.n <= NumWords,
           c.op = "write" => Len(c.data) = c.n,
           IF c.op \in {"read", "write"} /\ c.n = 0
           THEN pc' = "idle" /\ ret' = "OK"
           ELSE pc' # "idle",
           c.op \notin {"read", "write"} => c.n = 0
    PROVE  Memory!StartJob
<1>1. /\ c.addr \in Addrs /\ c.n \in Nat /\ c.data \in Seq(Words)
      /\ Job' = [op |-> IF c.op \in {"read", "write"} THEN c.op ELSE "other",
                 addr |-> c.addr, n |-> c.n, data |-> c.data]
  BY DEF Calls, Job
<1>2. Job' \in Memory!Jobs /\ Job'.n = c.n /\ Job'.addr = c.addr /\ Job'.data = c.data
  BY <1>1 DEF Memory!Jobs
<1>3. Job'.op = IF c.op \in {"read", "write"} THEN c.op ELSE "other"
  BY <1>1
<1>4. \A k \in 0..(c.n - 1) : c.addr + k \in Addrs
  BY <1>1, OtpAssumption DEF Addrs
<1>5. Memory!Inside(Job')
  BY <1>2, <1>3, <1>4 DEF Memory!Inside
<1>6. Status # "busy" /\ Status' = IF Job'.op # "other" /\ Job'.n = 0 THEN "OK" ELSE "busy"
  BY <1>2, <1>3 DEF Status
<1>7. call'.i = 0
  OBVIOUS
<1> QED BY <1>2, <1>5, <1>6, <1>7 DEF Memory!StartJob

\* Every operation but clear_error starts a call; lock_partition's command is
\* no write, and one that finds the controller busy leaves what is in it alone.
LEMMA ClientIsSeen ==
    ASSUME OtpInv, ClientCall
    PROVE  Memory!StartJob \/ UNCHANGED Memory!memoryVars
<1>1. CASE init
  <2> DEFINE c == [NoCall EXCEPT !.op = "init"]
  <2>1. c \in Calls /\ c.i = 0 /\ c.op = "init" /\ c.n = 0
    BY NoCallType DEF NoCall, Calls
  <2>2. /\ pc = "idle" /\ call' = c /\ out' = <<>> /\ UNCHANGED mem /\ pc' = "after"
        /\ UNCHANGED ctl
    BY <1>1 DEF init, Begin
  <2>3. Pending' = Pending
    BY <2>2 DEF Pending
  <2> HIDE DEF c
  <2> QED BY <2>1, <2>2, <2>3, StartIsSeen
<1>2. CASE clear_error
  <2>1. /\ ctl' = [ctl EXCEPT !.error = FALSE] /\ ctl \in Controllers
        /\ UNCHANGED <<mem, pc, call, out, ret>>
    BY <1>2 DEF clear_error, OtpInv, TypeOK
  <2>2. Pending' = Pending /\ Job' = Job /\ Status' = Status
    BY <2>1 DEF Pending, Job, Status, Controllers
  <2> QED BY <2>1, <2>2 DEF Memory!memoryVars
<1>3. ASSUME NEW a \in Addrs, NEW n \in 0..MaxCount, a + n <= NumWords, read_words(a, n)
      PROVE  Memory!StartJob
  <2> DEFINE c == [NoCall EXCEPT !.op = "read", !.addr = a, !.n = n]
  <2>0. n \in Nat
    BY OtpAssumption
  <2>1. c \in Calls /\ c.i = 0 /\ c.op = "read" /\ c.addr = a /\ c.n = n
    BY <2>0, NoCallType DEF NoCall, Calls
  <2>2. /\ pc = "idle" /\ call' = c /\ out' = <<>> /\ UNCHANGED <<mem, ctl>>
        /\ IF c.n = 0 THEN pc' = "idle" /\ ret' = "OK" ELSE pc' = "before"
    BY <1>3 DEF read_words, BeginWords, Begin
  <2>3. Pending' = Pending
    BY <2>2 DEF Pending
  <2> HIDE DEF c
  <2> QED BY <1>3, <2>1, <2>2, <2>3, StartIsSeen
<1>4. ASSUME NEW a \in Addrs, NEW n \in 0..MaxCount, NEW ws \in [1..n -> Words],
             a + n <= NumWords, write_words(a, ws)
      PROVE  Memory!StartJob
  <2> DEFINE c == [NoCall EXCEPT !.op = "write", !.addr = a, !.n = Len(ws), !.data = ws]
  <2>1. ws \in Seq(Words) /\ Len(ws) = n /\ n \in Nat
    BY OtpAssumption
  <2>2. /\ c \in Calls /\ c.i = 0 /\ c.op = "write" /\ c.addr = a /\ c.n = n
        /\ c.data = ws
    BY <2>1, NoCallType DEF NoCall, Calls
  <2>3. /\ pc = "idle" /\ call' = c /\ out' = <<>> /\ UNCHANGED <<mem, ctl>>
        /\ IF c.n = 0 THEN pc' = "idle" /\ ret' = "OK" ELSE pc' = "before"
    BY <1>4 DEF write_words, BeginWords, Begin
  <2>4. Pending' = Pending
    BY <2>3 DEF Pending
  <2> HIDE DEF c
  <2> QED BY <1>4, <2>1, <2>2, <2>3, <2>4, StartIsSeen
<1>5. ASSUME NEW p \in Partitions, lock_partition(p) PROVE Memory!StartJob
  <2> DEFINE c == [NoCall EXCEPT !.op = "lock", !.part = p]
  <2>1. c \in Calls /\ c.i = 0 /\ c.op = "lock" /\ c.n = 0
    BY NoCallType DEF NoCall, Calls
  <2>2. /\ pc = "idle" /\ call' = c /\ out' = <<>> /\ UNCHANGED mem /\ pc' = "after"
        /\ ctl' = WriteCmd("CMD_DIGEST", ctl.addr, ctl.wdata) /\ ctl \in Controllers
    BY <1>5 DEF lock_partition, Begin, OtpInv, TypeOK
  <2>3. Pending' = Pending
    BY <2>2 DEF Pending, WriteCmd, Controllers
  <2> HIDE DEF c
  <2> QED BY <2>1, <2>2, <2>3, StartIsSeen
<1> QED BY <1>1, <1>2, <1>3, <1>4, <1>5 DEF ClientCall

\* What the memory sees of a call that keeps its arguments.
LEMMA SameJob ==
    ASSUME call'.op = call.op, call'.addr = call.addr, call'.n = call.n,
           call'.data = call.data
    PROVE  Job' = Job
BY DEF Job

\* The fields of a job.
LEMMA JobFields ==
    /\ Job.op = IF call.op \in {"read", "write"} THEN call.op ELSE "other"
    /\ Job.addr = call.addr /\ Job.n = call.n /\ Job.data = call.data
BY DEF Job

\* A turn of a wait is not seen, unless it is the last.
LEMMA WaitIsSeen ==
    ASSUME OtpInv, WaitBusy
    PROVE  Memory!GiveUp \/ UNCHANGED Memory!memoryVars
<1>1. call \in Calls /\ pc # "idle"
  BY DEF OtpInv, TypeOK, WaitBusy
<1>2. /\ call'.i = call.i /\ call'.op = call.op /\ call'.addr = call.addr
      /\ call'.n = call.n /\ call'.data = call.data
  BY <1>1 DEF WaitBusy, Calls
<1>3. /\ UNCHANGED <<ctl, mem, out>>
      /\ IF call.tmo - 1 = 0 THEN pc' = "idle" /\ ret' = "TIMEOUT" ELSE UNCHANGED <<pc, ret>>
  BY DEF WaitBusy, Return
<1>4. Job' = Job /\ Pending' = Pending
  BY <1>2, <1>3, SameJob DEF Pending
<1>5. Status = "busy" /\ Status' \in {"busy", "failed"}
  BY <1>1, <1>3 DEF Status
<1> QED BY <1>2, <1>3, <1>4, <1>5 DEF Memory!GiveUp, Memory!memoryVars

\* The command of a write is the start of the write; that of a read is not seen.
LEMMA IssueIsSeen ==
    ASSUME OtpInv, IssueCommand
    PROVE  Memory!StartWrite \/ UNCHANGED Memory!memoryVars
<1>1. /\ call \in Calls /\ ctl \in Controllers /\ pc = "before" /\ ctl.idle
      /\ call.op \in {"read", "write"}
  BY DEF OtpInv, TypeOK, CallOK, IssueCommand, is_idle
<1>2. /\ call'.i = call.i /\ call'.op = call.op /\ call'.addr = call.addr
      /\ call'.n = call.n /\ call'.data = call.data
  BY <1>1 DEF IssueCommand, Calls
<1>3. /\ UNCHANGED <<mem, out, ret>> /\ pc' = "after"
      /\ ctl' = WriteCmd(OpCommand, call.addr + call.i, OpData)
  BY DEF IssueCommand
<1>4. /\ ~ctl'.idle /\ ctl'.cmd = OpCommand /\ ctl'.addr = call.addr + call.i
      /\ ctl'.wdata = OpData
  BY <1>1, <1>3 DEF WriteCmd, Controllers
<1>5. Job' = Job /\ Status = "busy" /\ Status' = "busy" /\ Pending = {}
  BY <1>1, <1>2, <1>3, SameJob DEF Status, Pending
<1>6. CASE call.op = "write"
  <2>1. Pending' = {<<Job.addr + call.i, Job.data[call.i + 1]>>} /\ Job.op = "write"
    BY <1>4, <1>6, JobFields DEF Pending, OpCommand, OpData
  <2> QED BY <1>2, <1>3, <1>5, <2>1 DEF Memory!StartWrite
<1>7. CASE call.op = "read"
  <2>1. Pending' = {}
    BY <1>4, <1>7 DEF Pending, OpCommand
  <2> QED BY <1>2, <1>3, <1>5, <2>1 DEF Memory!memoryVars
<1> QED BY <1>1, <1>6, <1>7

\* The waits of init and lock_partition, and a failed command.
LEMMA ReturnIsSeen ==
    ASSUME OtpInv, WaitOver \/ CommandFailed
    PROVE  Memory!EndOther \/ Memory!GiveUp
<1>1. /\ pc = "after" /\ pc' = "idle" /\ UNCHANGED <<ctl, mem, call, out>>
      /\ \/ call.op \in {"init", "lock"} /\ ret' = "OK"
         \/ ret' \in {"OTP_READ_ERROR", "OTP_WRITE_ERROR"}
  BY DEF WaitOver, CommandFailed, Return
<1>2. Job' = Job /\ Pending' = Pending /\ Status = "busy"
  BY <1>1 DEF Job, Pending, Status
<1>3. CASE call.op \in {"init", "lock"} /\ ret' = "OK"
  BY <1>1, <1>2, <1>3, JobFields DEF Status, Memory!EndOther
<1>4. CASE ret' \in {"OTP_READ_ERROR", "OTP_WRITE_ERROR"}
  BY <1>1, <1>2, <1>4 DEF Status, Memory!GiveUp
<1> QED BY <1>1, <1>3, <1>4

\* A word is counted only when it is in RDATA or in the fuses (Landed), and by
\* then nothing is under way.
LEMMA DoneIsSeen == ASSUME OtpInv, CommandDone PROVE Memory!CountWord
<1>1. /\ call \in Calls /\ pc = "after" /\ ctl.idle /\ ~ctl.error
      /\ call.op \in {"read", "write"} /\ call.i < call.n
  BY DEF OtpInv, TypeOK, CallOK, CommandDone, is_idle, has_error
<1>2. /\ call'.i = call.i + 1 /\ call'.op = call.op /\ call'.addr = call.addr
      /\ call'.n = call.n /\ call'.data = call.data
  BY <1>1 DEF CommandDone, NextWord, Calls
<1>3. /\ UNCHANGED <<ctl, mem>>
      /\ out' = IF call.op = "read" THEN Append(out, ctl.rdata) ELSE out
      /\ IF call.i + 1 = call.n THEN pc' = "idle" /\ ret' = "OK" ELSE pc' = "before"
  BY DEF CommandDone, NextWord, Return
<1>4. /\ call.op = "read" => ctl.rdata = mem[call.addr + call.i]
      /\ call.op = "write" => mem[call.addr + call.i] = call.data[call.i + 1]
  BY <1>1 DEF OtpInv, Landed
<1>5. Job' = Job /\ Pending = {} /\ Pending' = Pending
  BY <1>1, <1>2, <1>3, SameJob DEF Pending
<1>6. Status = "busy" /\ Status' = IF call.i + 1 = call.n THEN "OK" ELSE "busy"
  BY <1>1, <1>3 DEF Status
<1>7. \/ Job.op = "read" /\ out' = Append(out, mem[Job.addr + call.i])
      \/ /\ Job.op = "write" /\ mem[Job.addr + call.i] = Job.data[call.i + 1]
         /\ UNCHANGED out
  BY <1>1, <1>3, <1>4, JobFields
<1>8. call.i < Job.n /\ (call.i + 1 = call.n <=> call.i + 1 = Job.n)
  BY <1>1, JobFields
<1> QED BY <1>2, <1>3, <1>5, <1>6, <1>7, <1>8 DEF Memory!CountWord

\* A write programs the bits it was given or none, whoever is waiting for it.
LEMMA CompleteIsSeen ==
    ASSUME OtpInv, NEW failed \in BOOLEAN, Complete(failed)
    PROVE  Memory!Land \/ UNCHANGED Memory!memoryVars
<1>1. /\ ~ctl.idle /\ ctl'.idle /\ UNCHANGED <<pc, call, out, ret>>
      /\ ctl.cmd # "CMD_WRITE" => mem' = mem
  BY CompleteFacts
<1>2. Job' = Job /\ Status' = Status /\ Pending' = {}
  BY <1>1 DEF Job, Status, Pending
<1>3. CASE ctl.cmd # "CMD_WRITE"
  <2>1. Pending = {}
    BY <1>3 DEF Pending
  <2> QED BY <1>1, <1>2, <1>3, <2>1 DEF Memory!memoryVars
<1>4. CASE ctl.cmd = "CMD_WRITE"
  <2>1. mem \in [Addrs -> Words] /\ ctl.addr \in Addrs
    BY DEF OtpInv, TypeOK, Controllers
  <2>2. /\ failed \/ mem[ctl.addr] \subseteq ctl.wdata
        /\ \E w \in IF failed THEN {mem[ctl.addr], mem[ctl.addr] \cup ctl.wdata}
                              ELSE {ctl.wdata} : mem' = [mem EXCEPT ![ctl.addr] = w]
    BY <1>4 DEF Complete
  <2>3. \E w \in {mem[ctl.addr], mem[ctl.addr] \cup ctl.wdata} :
           mem' = [mem EXCEPT ![ctl.addr] = w]
    <3>1. mem[ctl.addr] \subseteq ctl.wdata => mem[ctl.addr] \cup ctl.wdata = ctl.wdata
      OBVIOUS
    <3> QED BY <2>2, <3>1
  <2>4. [mem EXCEPT ![ctl.addr] = mem[ctl.addr]] = mem
    BY <2>1
  <2>5. \/ mem' = [mem EXCEPT ![ctl.addr] = @ \cup ctl.wdata]
        \/ UNCHANGED mem
    BY <2>3, <2>4
  <2> DEFINE p == <<ctl.addr, ctl.wdata>>
  <2>6. p \in Pending /\ p[1] = ctl.addr /\ p[2] = ctl.wdata
    BY <1>1, <1>4 DEF Pending
  <2> HIDE DEF p
  <2> QED BY <1>1, <1>2, <2>5, <2>6 DEF Memory!Land
<1> QED BY <1>3, <1>4

\* Steps map to steps.
LEMMA MemoryStep == OtpInv /\ [Next]_vars => [Memory!MemoryNext]_(Memory!memoryVars)
<1> SUFFICES ASSUME OtpInv, [Next]_vars
             PROVE  Memory!MemoryNext \/ UNCHANGED Memory!memoryVars
  OBVIOUS
<1>1. CASE UNCHANGED vars
  BY <1>1 DEF vars, Memory!memoryVars, Pending, Job, Status
<1>2. CASE Next
  BY <1>2, ClientIsSeen, WaitIsSeen, IssueIsSeen, ReturnIsSeen, DoneIsSeen, CompleteIsSeen
     DEF Next, DriverStep, Controller, Memory!MemoryNext
<1> QED BY <1>1, <1>2

\* Initial states map to initial states.
LEMMA MemoryStart == Init => Memory!MemoryInit
<1> SUFFICES ASSUME Init PROVE Memory!MemoryInit
  OBVIOUS
<1>1. /\ mem = [a \in Addrs |-> {}] /\ pc = "idle" /\ call = NoCall /\ out = <<>>
      /\ ret = "none" /\ ctl.cmd = "CMD_READ"
  BY DEF Init
<1>2. Pending = {} /\ Status = "OK" /\ call.i = 0
  BY <1>1 DEF Pending, Status, NoCall
<1>3. /\ Job = [op |-> "other", addr |-> 0, n |-> 0, data |-> <<>>]
  BY <1>1 DEF Job, NoCall
<1>4. Job \in Memory!Jobs /\ Job.op = "other"
  <2>1. <<>> \in Seq(Words) /\ 0 \in Addrs
    BY AddrFacts
  <2> QED BY <1>3, <2>1 DEF Memory!Jobs
<1> QED BY <1>1, <1>2, <1>4 DEF Memory!MemoryInit

\* The driver with its controller implements the memory of fuses: whatever is
\* left over from a call given up on, words are read and written one by one, in
\* order, and counted only when they are.
THEOREM OtpImplementsMemory == Spec => ImplementsMemory
BY MemoryStart, MemoryStep, OtpAlways, PTL
   DEF Spec, ImplementsMemory, Memory!MemorySpec
----------------------------------------------------------------------------
\* Why every call returns.  Fairness is beyond these proofs; what it needs of
\* the driver is not: a call has a budget of driver steps that depends on its
\* word count and the timeout only, every step it takes costs some of it, and
\* the controller cannot add to it.

\* Steps for one word: two waits, the command and the end of it.
PerWord == 2 * TIMEOUT_CYCLES + 2

\* The polls left in the wait at hand, the wait still to come for this word,
\* and the words after it.
Budget ==
    IF pc = "idle" THEN 0
    ELSE call.tmo + (IF pc = "before" THEN TIMEOUT_CYCLES + 1 ELSE 0)
                  + (IF call.op \in {"read", "write"} THEN (call.n - call.i - 1) * PerWord ELSE 0)

\* What a call starts with at most.
BudgetBounded ==
    pc # "idle" =>
        /\ Budget \in Nat \ {0}
        /\ Budget <= IF call.op \in {"read", "write"} THEN call.n * PerWord ELSE TIMEOUT_CYCLES

\* What a step does to it.
BudgetSpent ==
    pc # "idle" => \/ DriverStep /\ Budget' \in 0..(Budget - 1)
                   \/ Controller /\ Budget' = Budget

\* Words times steps per word.
LEMMA Products ==
    /\ PerWord \in Nat
    /\ \A k \in Nat : k * PerWord \in Nat
    /\ \A k \in Nat : (k + 1) * PerWord = k * PerWord + PerWord
    /\ \A k, m \in Nat : k <= m => k * PerWord <= m * PerWord
<1>1. PerWord \in Nat
  BY OtpAssumption DEF PerWord
<1> QED BY <1>1, SMT

\* The numbers of a call in progress.
LEMMA CallNumbers ==
    ASSUME OtpInv, pc # "idle"
    PROVE  /\ call.tmo \in 1..TIMEOUT_CYCLES /\ call.n \in Nat /\ call.i \in Nat
           /\ TIMEOUT_CYCLES \in Nat \ {0} /\ PerWord = 2 * TIMEOUT_CYCLES + 2
           /\ call.op \in {"read", "write"} => call.n - call.i - 1 \in Nat
           /\ pc \in {"before", "after"}
           /\ pc = "before" => call.op \in {"read", "write"}
BY OtpAssumption DEF OtpInv, TypeOK, CallOK, Calls, PerWord

\* The budget of a call in progress is a positive number within its bound.
LEMMA BudgetIsBounded == OtpInv => BudgetBounded
<1> SUFFICES ASSUME OtpInv, pc # "idle"
             PROVE  /\ Budget \in Nat \ {0}
                    /\ Budget <= IF call.op \in {"read", "write"} THEN call.n * PerWord
                                                                  ELSE TIMEOUT_CYCLES
  BY DEF BudgetBounded
<1> DEFINE left == call.n - call.i - 1
<1>1. CASE call.op \in {"read", "write"}
  <2>1. left \in Nat /\ left + 1 <= call.n /\ left + 1 \in Nat /\ call.n \in Nat
    BY <1>1, CallNumbers
  <2>2. Budget = call.tmo + (IF pc = "before" THEN TIMEOUT_CYCLES + 1 ELSE 0) + left * PerWord
    BY <1>1 DEF Budget
  <2>3. /\ left * PerWord \in Nat
        /\ left * PerWord + PerWord <= call.n * PerWord /\ call.n * PerWord \in Nat
    BY <2>1, Products
  <2> HIDE DEF left
  <2> QED BY <1>1, <2>2, <2>3, CallNumbers
<1>2. CASE call.op \notin {"read", "write"}
  BY <1>2, CallNumbers DEF Budget
<1> QED BY <1>1, <1>2

\* A call that has returned has spent its budget.
LEMMA ReturnSpends ==
    ASSUME OtpInv, pc # "idle", pc' = "idle" PROVE Budget' \in 0..(Budget - 1)
<1>1. Budget' = 0
  BY DEF Budget
<1> QED BY <1>1, BudgetIsBounded DEF BudgetBounded

\* Every step of the driver costs some of the budget; what the controller does
\* costs nothing and gives nothing back.
LEMMA StepSpends == OtpInv /\ [Next]_vars => BudgetSpent \/ UNCHANGED vars
<1> SUFFICES ASSUME OtpInv, Next, pc # "idle"
             PROVE  \/ DriverStep /\ Budget' \in 0..(Budget - 1)
                    \/ Controller /\ Budget' = Budget
  BY DEF BudgetSpent
<1> DEFINE left == call.n - call.i - 1
           More == IF pc = "before" THEN TIMEOUT_CYCLES + 1 ELSE 0
           Rest == IF call.op \in {"read", "write"} THEN left * PerWord ELSE 0
<1>1. call \in Calls /\ OtpInv'
  BY OtpInductive DEF OtpInv, TypeOK
<1>2. Budget = call.tmo + More + Rest
  BY DEF Budget
<1>3. More \in Nat /\ Rest \in Nat /\ call.tmo \in 1..TIMEOUT_CYCLES
  BY CallNumbers, Products, OtpAssumption
<1>4. CASE WaitBusy
  <2>1. CASE pc' = "idle"
    BY <1>4, <2>1, ReturnSpends DEF DriverStep
  <2>2. CASE pc' # "idle"
    <3>1. /\ pc' = pc /\ call'.tmo = call.tmo - 1 /\ call'.op = call.op
          /\ call'.n = call.n /\ call'.i = call.i
      BY <1>1, <1>4, <2>2 DEF WaitBusy, Return, Calls
    <3>2. Budget' = call.tmo - 1 + More + Rest
      BY <2>2, <3>1 DEF Budget
    <3> HIDE DEF More, Rest
    <3>3. Budget' \in 0..(Budget - 1)
      BY <1>2, <1>3, <3>2
    <3> QED BY <1>4, <3>3 DEF DriverStep
  <2> QED BY <2>1, <2>2
<1>5. CASE IssueCommand
  <2>1. /\ pc = "before" /\ pc' = "after" /\ call'.tmo = TIMEOUT_CYCLES /\ call'.op = call.op
        /\ call'.n = call.n /\ call'.i = call.i
    BY <1>1, <1>5 DEF IssueCommand, Calls
  <2>2. Budget' = TIMEOUT_CYCLES + 0 + Rest /\ More = TIMEOUT_CYCLES + 1
    BY <2>1 DEF Budget
  <2> HIDE DEF More, Rest
  <2>3. Budget' \in 0..(Budget - 1)
    BY <1>2, <1>3, <2>2, OtpAssumption
  <2> QED BY <1>5, <2>3 DEF DriverStep
<1>6. CASE WaitOver \/ CommandFailed
  <2>1. pc' = "idle"
    BY <1>6 DEF WaitOver, CommandFailed, Return
  <2> QED BY <1>6, <2>1, ReturnSpends DEF DriverStep
<1>7. CASE CommandDone
  <2>1. CASE pc' = "idle"
    BY <1>7, <2>1, ReturnSpends DEF DriverStep
  <2>2. CASE pc' # "idle"
    <3>1. /\ pc' = "before" /\ call'.tmo = TIMEOUT_CYCLES /\ call'.op = call.op
          /\ call'.n = call.n /\ call'.i = call.i + 1 /\ call.op \in {"read", "write"}
      BY <1>1, <1>7, <2>2 DEF CommandDone, NextWord, Return, Calls
    <3>2. call'.n - call'.i - 1 \in Nat
      BY <1>1, <2>2, <3>1 DEF OtpInv, TypeOK, CallOK, Calls
    <3> DEFINE k == call'.n - call'.i - 1
    <3>3. Budget' = TIMEOUT_CYCLES + (TIMEOUT_CYCLES + 1) + k * PerWord
      BY <2>2, <3>1 DEF Budget
    <3>4. left = k + 1
      BY <3>1, <3>2, CallNumbers
    <3>5. Rest = k * PerWord + PerWord /\ k * PerWord \in Nat
      BY <3>1, <3>2, <3>4, Products
    <3> HIDE DEF More, Rest, k
    <3>6. Budget' \in 0..(Budget - 1)
      BY <1>2, <1>3, <3>3, <3>5, OtpAssumption DEF PerWord
    <3> QED BY <1>7, <3>6 DEF DriverStep
  <2> QED BY <2>1, <2>2
<1>8. CASE Controller
  <2>1. UNCHANGED <<pc, call>>
    BY <1>8 DEF Controller, Complete
  <2>2. Budget' = Budget
    BY <2>1 DEF Budget
  <2> QED BY <1>8, <2>2
<1>9. ~ClientCall
  BY DEF ClientCall, init, clear_error, read_words, write_words, lock_partition, BeginWords, Begin
<1> QED BY <1>4, <1>5, <1>6, <1>7, <1>8, <1>9 DEF Next, DriverStep

\* Every call returns after a number of steps of the driver known when it is
\* made: 2 * TIMEOUT_CYCLES + 2 for each word, TIMEOUT_CYCLES for init and
\* lock_partition, whatever the controller does meanwhile.
THEOREM CallsAreBounded == Spec => []BudgetBounded /\ [][BudgetSpent]_vars
<1>1. OtpInv /\ [Next]_vars => [BudgetSpent]_vars
  BY StepSpends
<1> QED BY <1>1, BudgetIsBounded, OtpAlways, PTL DEF Spec
=============================================================================
