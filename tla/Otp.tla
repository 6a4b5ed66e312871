--------------------------------- MODULE Otp ---------------------------------
(***************************************************************************)
(* The OTP driver (rom: Otp) against the OTP controller, which executes one *)
(* command at a time in its own time, may fail it, and goes on with it after *)
(* the driver has given up waiting.  read_word and write_word are read_words *)
(* and write_words of one word.  Between two accesses to an idle controller  *)
(* nothing can happen, so reading idle and acting on it is one step.         *)
(***************************************************************************)
EXTENDS Integers, Sequences, FiniteSets

CONSTANTS NumWords,          \* words of OTP memory
          Bits,              \* bits of a word
          PartitionWords,    \* words in a partition
          MaxCount,          \* largest word count of a call
          TIMEOUT_CYCLES     \* polls of wait_for_idle (10000 in the code)

ASSUME OtpAssumption ==
    /\ NumWords \in Nat \ {0} /\ PartitionWords \in Nat \ {0}
    /\ MaxCount \in Nat
    /\ TIMEOUT_CYCLES \in Nat \ {0}

VARIABLES
    ctl,       \* the controller's registers and the command in it
    mem,       \* the fuses
    locked,    \* partitions whose digest has been calculated
    pc,        \* "idle" between calls, else the wait the driver is in
    call,      \* the call in progress, or the last one
    out,       \* words the call has read
    ret,       \* its result
    base       \* ghost: the fuses when the call issued its first command

vars == <<ctl, mem, locked, pc, call, out, ret, base>>

Addrs        == 0..(NumWords - 1)
Words        == SUBSET Bits            \* the programmed bits of a word
PartitionOf(a) == a \div PartitionWords
Partitions   == {PartitionOf(a) : a \in Addrs}
Commands     == {"CMD_READ", "CMD_WRITE", "CMD_DIGEST"}

Controllers == [idle : BOOLEAN, error : BOOLEAN, cmd : Commands,
                addr : Addrs, wdata : Words, rdata : Words]

Calls == [op : {"none", "init", "read", "write", "lock"}, addr : Addrs, n : Nat,
          data : Seq(Words), part : Partitions, i : Nat, tmo : 0..TIMEOUT_CYCLES,
          issued : BOOLEAN]

TypeOK ==
    /\ ctl \in Controllers
    /\ mem \in [Addrs -> Words] /\ base \in [Addrs -> Words]
    /\ locked \subseteq Partitions
    /\ pc \in {"idle", "before", "after"}
    /\ call \in Calls
    /\ out \in Seq(Words)
    /\ ret \in {"none", "OK", "TIMEOUT", "OTP_READ_ERROR", "OTP_WRITE_ERROR"}

NoCall == [op |-> "none", addr |-> 0, n |-> 0, data |-> <<>>, part |-> 0, i |-> 0,
           tmo |-> TIMEOUT_CYCLES, issued |-> FALSE]

\* Blank fuses, and a controller that is still starting up or is ready.
Init ==
    /\ ctl \in [idle : BOOLEAN, error : {FALSE}, cmd : {"CMD_READ"}, addr : {0},
                wdata : {{}}, rdata : {{}}]
    /\ mem = [a \in Addrs |-> {}] /\ base = mem
    /\ locked = {} /\ pc = "idle" /\ call = NoCall /\ out = <<>> /\ ret = "none"

----------------------------------------------------------------------------
\* The registers.

\* A command written to a busy controller is dropped; its address and data
\* registers are latched with the command.
WriteCmd(c, a, w) ==
    IF ctl.idle
    THEN [ctl EXCEPT !.idle = FALSE, !.cmd = c, !.addr = a, !.wdata = w]
    ELSE ctl

\* The command in the controller ends; an error stays until clear_error.
Complete(failed) ==
    /\ ~ctl.idle
    /\ LET done == [ctl EXCEPT !.idle = TRUE, !.error = @ \/ failed]
       IN  CASE ctl.cmd = "CMD_READ" ->
                  /\ \E w \in IF failed THEN Words ELSE {mem[ctl.addr]} :
                        ctl' = [done EXCEPT !.rdata = w]
                  /\ UNCHANGED <<mem, locked>>
             [] ctl.cmd = "CMD_WRITE" ->
                  /\ failed \/ (/\ mem[ctl.addr] \subseteq ctl.wdata
                                /\ PartitionOf(ctl.addr) \notin locked)
                  /\ \E w \in IF failed THEN {mem[ctl.addr], mem[ctl.addr] \cup ctl.wdata}
                                        ELSE {ctl.wdata} :
                        mem' = [mem EXCEPT ![ctl.addr] = w]
                  /\ ctl' = done /\ UNCHANGED locked
             [] ctl.cmd = "CMD_DIGEST" ->
                  /\ locked' = IF failed THEN locked ELSE locked \cup {PartitionOf(ctl.addr)}
                  /\ ctl' = done /\ UNCHANGED mem
    /\ UNCHANGED <<pc, call, out, ret, base>>

is_idle   == ctl.idle
has_error == ctl.error

\* What error_status makes of STATUS and ERR_CODE.
OtpError == <<"None", "MacroError", "MacroEccCorrectable", "MacroEccUncorrectable",
              "MacroWriteBlank", "CheckTimeout", "CheckLocked", "AccessError">>

error_status(error, err_code) ==
    IF error THEN OtpError[(err_code % 8) + 1] ELSE "None"

\* Every error but code 0 has a name of its own; code 0 looks like no error
\* although STATUS reports one.
ASSUME ErrorsNamed ==
    \A c, d \in 0..7 :
        /\ error_status(TRUE, c) = error_status(TRUE, d) => c = d
        /\ c # 0 => error_status(TRUE, c) # error_status(FALSE, c)

----------------------------------------------------------------------------
\* Public operations.

Begin(c, where) ==
    /\ pc = "idle" /\ pc' = where /\ call' = c /\ out' = <<>>
    /\ UNCHANGED <<mem, locked, ret, base>>

\* No words: nothing is waited for.
BeginWords(c) ==
    IF c.n = 0
    THEN /\ pc = "idle" /\ call' = c /\ out' = <<>> /\ ret' = "OK"
         /\ UNCHANGED <<ctl, mem, locked, pc, base>>
    ELSE Begin(c, "before") /\ UNCHANGED ctl

init == Begin([NoCall EXCEPT !.op = "init"], "after") /\ UNCHANGED ctl

read_words(a, n) == BeginWords([NoCall EXCEPT !.op = "read", !.addr = a, !.n = n])

write_words(a, ws) ==
    BeginWords([NoCall EXCEPT !.op = "write", !.addr = a, !.n = Len(ws), !.data = ws])

\* The digest command goes out at once, with the partition left unused: the
\* controller finds whatever address an earlier call has left.
lock_partition(p) ==
    /\ Begin([NoCall EXCEPT !.op = "lock", !.part = p], "after")
    /\ ctl' = WriteCmd("CMD_DIGEST", ctl.addr, ctl.wdata)

clear_error ==
    /\ pc = "idle"
    /\ ctl' = [ctl EXCEPT !.error = FALSE]
    /\ UNCHANGED <<mem, locked, pc, call, out, ret, base>>

----------------------------------------------------------------------------
\* Steps of a call.

Return(r) == pc' = "idle" /\ ret' = r

\* Mutants: the turns are not counted; the count is never compared.
WaitBusy_uncounted == pc # "idle" /\ ~is_idle /\ UNCHANGED vars

WaitBusy_unchecked ==
    /\ pc # "idle" /\ ~is_idle
    /\ call' = [call EXCEPT !.tmo = @ - 1]
    /\ UNCHANGED <<ctl, mem, locked, pc, out, ret, base>>

\* wait_for_idle: one more turn, or TIMEOUT.
WaitBusy ==
    /\ pc # "idle" /\ ~is_idle
    /\ call' = [call EXCEPT !.tmo = @ - 1]
    /\ IF call.tmo - 1 = 0 THEN Return("TIMEOUT") ELSE UNCHANGED <<pc, ret>>
    /\ UNCHANGED <<ctl, mem, locked, out, base>>

OpCommand == IF call.op = "read" THEN "CMD_READ" ELSE "CMD_WRITE"

\* WDATA is set by write_word only.
OpData == IF call.op = "read" THEN ctl.wdata ELSE call.data[call.i + 1]

\* Mutant: the command is written without waiting for the controller.
IssueCommand_no_wait ==
    /\ pc = "before"
    /\ ctl' = WriteCmd(OpCommand, call.addr + call.i, OpData)
    /\ pc' = "after"
    /\ call' = [call EXCEPT !.tmo = TIMEOUT_CYCLES, !.issued = TRUE]
    /\ base' = IF call.i = 0 THEN mem ELSE base
    /\ UNCHANGED <<mem, locked, out, ret>>

\* read_word and write_word: idle seen, the registers and the command.
IssueCommand ==
    /\ pc = "before" /\ is_idle
    /\ ctl' = WriteCmd(OpCommand, call.addr + call.i, OpData)
    /\ pc' = "after"
    /\ call' = [call EXCEPT !.tmo = TIMEOUT_CYCLES, !.issued = TRUE]
    /\ base' = IF call.i = 0 THEN mem ELSE base
    /\ UNCHANGED <<mem, locked, out, ret>>

\* init and lock_partition end with their wait.
WaitOver ==
    /\ pc = "after" /\ is_idle /\ call.op \in {"init", "lock"}
    /\ Return("OK")
    /\ UNCHANGED <<ctl, mem, locked, call, out, base>>

CommandFailed ==
    /\ pc = "after" /\ is_idle /\ call.op \in {"read", "write"} /\ has_error
    /\ Return(IF call.op = "read" THEN "OTP_READ_ERROR" ELSE "OTP_WRITE_ERROR")
    /\ UNCHANGED <<ctl, mem, locked, call, out, base>>

NextWord ==
    /\ call' = [call EXCEPT !.i = @ + 1, !.tmo = TIMEOUT_CYCLES]
    /\ out' = IF call.op = "read" THEN Append(out, ctl.rdata) ELSE out
    /\ IF call.i + 1 = call.n
       THEN Return("OK")
       ELSE pc' = "before" /\ UNCHANGED ret
    /\ UNCHANGED <<ctl, mem, locked, base>>

\* Mutant: has_error is not looked at.
CommandDone_error_ignored ==
    pc = "after" /\ is_idle /\ call.op \in {"read", "write"} /\ NextWord

CommandDone ==
    /\ pc = "after" /\ is_idle /\ call.op \in {"read", "write"} /\ ~has_error
    /\ NextWord

----------------------------------------------------------------------------

ClientCall ==
    \/ init \/ clear_error
    \/ \E a \in Addrs : \E n \in 0..MaxCount : a + n <= NumWords /\ read_words(a, n)
    \/ \E a \in Addrs : \E n \in 0..MaxCount : \E ws \in [1..n -> Words] :
          a + n <= NumWords /\ write_words(a, ws)
    \/ \E p \in Partitions : lock_partition(p)

DriverStep ==
    WaitBusy \/ IssueCommand \/ WaitOver \/ CommandFailed \/ CommandDone

Controller == \E failed \in BOOLEAN : Complete(failed)

Next == ClientCall \/ DriverStep \/ Controller

Spec == Init /\ [][Next]_vars

\* The processor runs; nothing is promised of the controller.
FairSpec == Spec /\ WF_vars(DriverStep)

----------------------------------------------------------------------------
\* Properties.

\* The words read_words hands out are the words at the addresses asked for, in
\* order, although RDATA may still hold, or be about to get, the word of a read
\* an earlier call gave up waiting for.
ReadsOwnWords ==
    call.op = "read" =>
        /\ Len(out) = call.i
        /\ \A k \in 1..Len(out) : out[k] = mem[call.addr + k - 1]

\* write_words programs words strictly in order: those before the word at hand
\* are in the fuses, those after it and those outside the range are as they
\* were, also after an error or a timeout in the middle, and also when the
\* controller finishes the word at hand after the call has returned.
WritesInOrder ==
    call.op = "write" /\ call.issued =>
        \A a \in Addrs :
            LET k == a - call.addr
            IN  IF k \in 0..(call.i - 1) THEN mem[a] = call.data[k + 1]
                ELSE k # call.i => mem[a] = base[a]

\* The memory the driver makes of the controller: a write command in it is the
\* write under way, and how a call ended is in ret.
Pending == IF ~ctl.idle /\ ctl.cmd = "CMD_WRITE" THEN {<<ctl.addr, ctl.wdata>>} ELSE {}

Job == [op   |-> IF call.op \in {"read", "write"} THEN call.op ELSE "other",
        addr |-> call.addr, n |-> call.n, data |-> call.data]

Status == IF pc # "idle" THEN "busy"
          ELSE IF ret \in {"none", "OK"} THEN "OK" ELSE "failed"

Memory == INSTANCE OtpMemory WITH fuses <- mem, pending <- Pending, job <- Job,
                                  done <- call.i, out <- out, status <- Status

\* The driver and the controller together are a memory whose calls go through
\* word by word: whatever the controller is still busy with when a call begins,
\* is given up on or fails, no word is counted as read or written before it is,
\* no read or write is lost, and no two writes are under way.  (The digest
\* command of lock_partition is no part of that memory: see LockPartitionLocks.)
ImplementsMemory == Memory!MemorySpec

\* Every call returns, even when the controller hangs.
EveryCallReturns == (pc # "idle") ~> (pc = "idle")

\* "Lock a partition": after lock_partition has returned Ok the partition is
\* locked.
LockPartitionLocks ==
    pc = "idle" /\ call.op = "lock" /\ ret = "OK" => call.part \in locked
=============================================================================
