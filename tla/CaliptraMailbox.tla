--------------------------- MODULE CaliptraMailbox ---------------------------
(***************************************************************************)
(* The MCU's driver of the Caliptra mailbox (romtime: CaliptraSoC and the   *)
(* release side of CaliptraMailboxResponse) against the mailbox hardware,   *)
(* Caliptra and the other agents that share the mailbox.                    *)
(*                                                                         *)
(* A register access that another party can observe or disturb is a step of *)
(* its own, so the driver interleaves with Caliptra answering late or never *)
(* and with other agents taking the lock; the check of LOCK and the write   *)
(* behind it of a direct call are one step.  The client makes any public    *)
(* call at any time, in order or astray (set_command, write_data and        *)
(* execute_command with no request of its own staged); it only finishes a   *)
(* request it has sent, and keeps one response object of finish at a time.  *)
(* The hardware is external, modelled from the driver's use of it: every    *)
(* write takes effect, whoever owns the mailbox.                            *)
(***************************************************************************)
EXTENDS Integers

CONSTANTS Others,           \* the other mailbox users
          MAILBOX_SIZE,     \* bytes (256 KiB in the code)
          MAX_WAIT_CYCLES,  \* polls before MBOX_TIMEOUT (400000 in the code)
          ReqLens,          \* request lengths it announces, in bytes
          ReqCounts,        \* numbers of request words it passes
          RespCounts,       \* response buffer lengths it uses, in words
          RespDlens,        \* response lengths Caliptra announces, in bytes
          MaxDirectWords,   \* bound: words in DATAIN that write_data adds to
          NumTxns           \* transactions are numbered modulo this

ASSUME MailboxAssumption ==
    /\ {"none", "mcu"} \cap Others = {}
    /\ MAILBOX_SIZE \in Nat
    /\ MAX_WAIT_CYCLES \in Nat \ {0}
    /\ ReqLens \subseteq Nat
    /\ ReqCounts \subseteq Nat
    /\ RespCounts \subseteq Nat
    /\ RespDlens \subseteq Nat
    /\ MaxDirectWords \in Nat
    /\ NumTxns \in Nat \ {0}

VARIABLES
    mbox,      \* the mailbox registers
    pc,        \* where the driver is; "idle" between calls
    call,      \* the call in progress: operation, sizes, timeout_cycles
    copy,      \* the response object of exec_mailbox_req_u32: idx_,
               \* dlen_bytes_, words stored
    resp,      \* the client's response object: whether it is alive, idx_,
               \* dlen_bytes_
    ret,       \* result of the last call
    req,       \* the client's request: "none", "staged" or "sent"
    want,      \* ghost: transaction the client's request was started as
    left,      \* ghost: what left the mailbox to the MCU without a request, a
               \* "dropped" response, a refused call that "took" it, or "no"
    strayed    \* ghost: a direct call was made with no request staged

vars == <<mbox, pc, call, copy, resp, ret, req, want, left, strayed>>

----------------------------------------------------------------------------
\* Register offsets; CaliptraMailboxResponse has a table of its own.
MBOX_LOCK    == 0
MBOX_CMD     == 4
MBOX_EXECUTE == 24

RESP_MBOX_DATAOUT == 0
RESP_MBOX_EXECUTE == 4

StatusBits == {"BUSY", "FAILURE", "COMPLETE", "DATA_READY"}

REQ_HEADER_SIZE  == 4    \* sizeof(MailboxReqHeader)
RESP_HEADER_SIZE == 8    \* sizeof(MailboxRespHeader)

Txns == 0..(NumTxns - 1)

\* lock: who LOCK was granted to; din: words written to DATAIN; txn (ghost):
\* the transaction EXECUTE last started.  cmd is 0 or 1 (some command code).
Mailboxes ==
    [lock : {"none", "mcu"} \cup Others, execute : BOOLEAN,
     status : SUBSET StatusBits, cmd : {0, 1}, dlen : Nat, din : Nat, txn : Txns]

Calls == [op : {"none", "exec", "start", "initiate", "finish"},
          len : Nat, n : Nat, m : Nat, tmo : 0..MAX_WAIT_CYCLES]

Copies    == [idx : Nat, len : Nat, stored : Nat]
Responses == [alive : BOOLEAN, idx : Nat, len : Nat]

TypeOK ==
    /\ mbox \in Mailboxes
    /\ pc \in {"idle", "lock", "setcmd", "write", "poll", "status", "copy"}
    /\ call \in Calls
    /\ copy \in Copies
    /\ resp \in Responses
    /\ ret \in {"none", "OK", "OK_NONE", "OK_RESPONSE", "MBOX_LOCK_FAILED",
                "MBOX_TIMEOUT", "MBOX_CMD_FAILED", "MBOX_INVALID_RESPONSE"}
    /\ req \in {"none", "staged", "sent"}
    /\ want \in Txns
    /\ left \in {"no", "dropped", "took"}
    /\ strayed \in BOOLEAN

NoCall == [op |-> "none", len |-> 0, n |-> 0, m |-> 0, tmo |-> 0]
NoCopy == [idx |-> 0, len |-> 0, stored |-> 0]
NoResp == [alive |-> FALSE, idx |-> 0, len |-> 0]

Init ==
    /\ mbox = [lock |-> "none", execute |-> FALSE, status |-> {},
               cmd |-> 0, dlen |-> 0, din |-> 0, txn |-> 0]
    /\ pc = "idle" /\ call = NoCall /\ copy = NoCopy /\ resp = NoResp
    /\ ret = "none" /\ req = "none" /\ want = 0 /\ left = "no" /\ strayed = FALSE

----------------------------------------------------------------------------
\* The mailbox hardware, as the driver relies on it.

NextTxn == (mbox.txn + 1) % NumTxns

\* Reading LOCK returns 0 once, and grants the lock with that.
LockReads0 == mbox.lock = "none"
ReadLock   == IF LockReads0 THEN [mbox EXCEPT !.lock = "mcu"] ELSE mbox

Executing == [mbox EXCEPT !.execute = TRUE, !.status = {"BUSY"}, !.txn = NextTxn]
Cleared   == [mbox EXCEPT !.lock = "none", !.execute = FALSE, !.status = {},
                          !.cmd = 0, !.dlen = 0, !.din = 0]

\* EXECUTE := 1 hands the request over, EXECUTE := 0 ends the transaction and
\* frees the lock; a write to another offset lands on the register there.
WriteReg(off, v) ==
    CASE off = MBOX_EXECUTE -> IF v = 1 THEN Executing ELSE Cleared
      [] off = MBOX_CMD     -> [mbox EXCEPT !.cmd = v]

\* Reading has no side effect on any other register of the model.
ReadReg(off) == IF off = MBOX_LOCK THEN ReadLock ELSE mbox

----------------------------------------------------------------------------
\* Driver helpers.

Return(r) == pc' = "idle" /\ call' = NoCall /\ ret' = r

Refuse(r) ==
    ret' = r /\ UNCHANGED <<mbox, pc, call, copy, resp, req, want, left, strayed>>

\* The two writes of set_command.
WithCommand(len) == [mbox EXCEPT !.cmd = 1, !.dlen = len]

WordCount(bytes) == (bytes + 3) \div 4
RespSizeOk(m)    == m * 4 >= RESP_HEADER_SIZE

\* A request of n words and len bytes; m words of room for the answer.
Request(op, len, n, m) ==
    IF len > MAILBOX_SIZE
    THEN Refuse("MBOX_INVALID_RESPONSE")
    ELSE /\ pc' = "lock"
         /\ call' = [NoCall EXCEPT !.op = op, !.len = len, !.n = n, !.m = m]
         /\ UNCHANGED <<mbox, copy, resp, ret, req, want, left, strayed>>

----------------------------------------------------------------------------
\* Public operations, from "idle".

\* len_bytes and data_count are two arguments that nothing relates.
start_mailbox_req(len, n) == pc = "idle" /\ Request("start", len, n, 0)

initiate_request(len) == pc = "idle" /\ Request("initiate", len, 0, 0)

exec_mailbox_req_u32(n, m) ==
    /\ pc = "idle"
    /\ IF n * 4 < REQ_HEADER_SIZE
       THEN Refuse("MBOX_INVALID_RESPONSE")
       ELSE Request("exec", n * 4, n, m)

\* resp_min_size and resp_size are checked alike: m is the smaller of them.
finish_mailbox_resp(m) ==
    /\ pc = "idle" /\ req = "sent" /\ ~resp.alive
    /\ IF ~RespSizeOk(m)
       THEN Refuse("MBOX_INVALID_RESPONSE")
       ELSE /\ pc' = "poll"
            /\ call' = [NoCall EXCEPT !.op = "finish", !.m = m, !.tmo = MAX_WAIT_CYCLES]
            /\ UNCHANGED <<mbox, copy, resp, ret, req, want, left, strayed>>

----------------------------------------------------------------------------
\* Direct calls: the client streams a request itself, or strays.

\* The three calls that want LOCK to read 1 take the mailbox when it is free,
\* and do not see who holds it when it is not.
Direct(answer) ==
    /\ pc = "idle"
    /\ strayed' = (strayed \/ req # "staged")
    /\ IF LockReads0
       THEN /\ mbox' = ReadLock /\ ret' = "MBOX_LOCK_FAILED" /\ left' = "took"
            /\ UNCHANGED <<req, want>>
       ELSE mbox' = answer /\ ret' = "OK" /\ UNCHANGED left
    /\ UNCHANGED <<pc, call, copy, resp>>

ClientLock ==
    /\ pc = "idle" /\ mbox' = ReadLock
    /\ IF LockReads0
       THEN ret' = "OK" /\ req' = "staged" /\ left' = "no"
       ELSE ret' = "MBOX_LOCK_FAILED" /\ UNCHANGED <<req, left>>
    /\ UNCHANGED <<pc, call, copy, resp, want, strayed>>

ClientSetCommand(len) ==
    /\ Direct(WithCommand(len))
    /\ ~LockReads0 => req' = (IF req = "none" THEN "staged" ELSE req) /\ UNCHANGED want

write_data ==
    /\ mbox.din < MaxDirectWords
    /\ Direct([mbox EXCEPT !.din = @ + 1])
    /\ UNCHANGED <<req, want>>

execute_command ==
    /\ Direct(WriteReg(MBOX_EXECUTE, 1))
    /\ ~LockReads0 => req' = "sent" /\ want' = NextTxn

----------------------------------------------------------------------------
\* Steps of a request.

\* Mutants: the value read is not looked at; a lock the MCU already holds
\* counts as taken.
lock_mailbox_ignores_value ==
    /\ pc = "lock" /\ pc' = "setcmd" /\ mbox' = ReadLock
    /\ UNCHANGED <<call, copy, resp, ret, req, want, left, strayed>>

lock_mailbox_reentrant ==
    /\ pc = "lock" /\ mbox.lock \in {"none", "mcu"}
    /\ pc' = "setcmd" /\ mbox' = ReadLock
    /\ UNCHANGED <<call, copy, resp, ret, req, want, left, strayed>>

\* Read a 0 to get the lock.
lock_mailbox ==
    /\ pc = "lock"
    /\ mbox' = ReadLock
    /\ IF LockReads0
       THEN pc' = "setcmd" /\ left' = "no" /\ UNCHANGED <<call, ret>>
       ELSE Return("MBOX_LOCK_FAILED") /\ UNCHANGED left
    /\ UNCHANGED <<copy, resp, req, want, strayed>>

\* LOCK must read 1 now; then CMD and DLEN.
set_command ==
    /\ pc = "setcmd"
    /\ IF LockReads0
       THEN Return("MBOX_LOCK_FAILED") /\ mbox' = ReadLock /\ UNCHANGED req
       ELSE /\ mbox' = WithCommand(call.len)
            /\ IF call.op = "initiate"
               THEN Return("OK") /\ req' = "staged"
               ELSE pc' = "write" /\ UNCHANGED <<call, ret, req>>
    /\ UNCHANGED <<copy, resp, want, left, strayed>>

WriteRequestWord ==
    /\ pc = "write" /\ mbox.din < call.n
    /\ mbox' = [mbox EXCEPT !.din = @ + 1]
    /\ UNCHANGED <<pc, call, copy, resp, ret, req, want, left, strayed>>

\* Mutant: the loop over the request words stops one early.
StartExecution_one_word_short ==
    /\ pc = "write" /\ mbox.din + 1 >= call.n
    /\ mbox' = WriteReg(MBOX_EXECUTE, 1)
    /\ Return("OK") /\ req' = "sent" /\ want' = NextTxn
    /\ UNCHANGED <<copy, resp, left, strayed>>

\* All words written: EXECUTE := 1.  exec_mailbox_req_u32 goes on to wait,
\* unless its caller's buffer cannot hold a response header.
StartExecution ==
    /\ pc = "write" /\ mbox.din = call.n
    /\ mbox' = WriteReg(MBOX_EXECUTE, 1)
    /\ req' = "sent" /\ want' = NextTxn
    /\ CASE call.op = "start" -> Return("OK")
         [] call.op # "start" /\ ~RespSizeOk(call.m) -> Return("MBOX_INVALID_RESPONSE")
         [] OTHER -> /\ pc' = "poll"
                     /\ call' = [call EXCEPT !.tmo = MAX_WAIT_CYCLES]
                     /\ UNCHANGED ret
    /\ UNCHANGED <<copy, resp, left, strayed>>

----------------------------------------------------------------------------
\* Waiting for the answer.

PollNotBusy ==
    /\ pc = "poll" /\ "BUSY" \notin mbox.status
    /\ pc' = "status"
    /\ UNCHANGED <<mbox, call, copy, resp, ret, req, want, left, strayed>>

\* Mutants: the count is not compared; there is no count; a timeout withdraws
\* the request while Caliptra still works on it.
PollBusy_unchecked ==
    /\ pc = "poll" /\ "BUSY" \in mbox.status
    /\ call' = [call EXCEPT !.tmo = @ - 1]
    /\ UNCHANGED <<mbox, pc, copy, resp, ret, req, want, left, strayed>>

PollBusy_uncounted == pc = "poll" /\ "BUSY" \in mbox.status /\ UNCHANGED vars

PollBusy_timeout_withdraws ==
    /\ pc = "poll" /\ "BUSY" \in mbox.status
    /\ Return("MBOX_TIMEOUT") /\ mbox' = WriteReg(MBOX_EXECUTE, 0)
    /\ UNCHANGED <<copy, resp, req, want, left, strayed>>

\* A call whose count reaches 0 returns and leaves request and lock behind.
PollBusy ==
    /\ pc = "poll" /\ "BUSY" \in mbox.status
    /\ IF call.tmo - 1 = 0
       THEN Return("MBOX_TIMEOUT")
       ELSE call' = [call EXCEPT !.tmo = @ - 1] /\ UNCHANGED <<pc, ret>>
    /\ UNCHANGED <<mbox, copy, resp, req, want, left, strayed>>

\* Mutant: the error return forgets EXECUTE := 0.
StatusFailed_keeps_lock ==
    /\ pc = "status" /\ "FAILURE" \in mbox.status
    /\ Return("MBOX_CMD_FAILED") /\ req' = "none"
    /\ UNCHANGED <<mbox, copy, resp, want, left, strayed>>

\* STATUS is read again; FAILURE, then COMPLETE, then DATA_READY decide.
StatusFailed ==
    /\ pc = "status" /\ "FAILURE" \in mbox.status
    /\ mbox' = WriteReg(MBOX_EXECUTE, 0)
    /\ Return("MBOX_CMD_FAILED") /\ req' = "none" /\ left' = "no"
    /\ UNCHANGED <<copy, resp, want, strayed>>

StatusComplete ==
    /\ pc = "status" /\ "FAILURE" \notin mbox.status /\ "COMPLETE" \in mbox.status
    /\ mbox' = WriteReg(MBOX_EXECUTE, 0)
    /\ Return(IF call.op = "exec" THEN "MBOX_INVALID_RESPONSE" ELSE "OK_NONE")
    /\ req' = "none" /\ left' = "no"
    /\ UNCHANGED <<copy, resp, want, strayed>>

StatusUnknown ==
    /\ pc = "status" /\ {"FAILURE", "COMPLETE", "DATA_READY"} \cap mbox.status = {}
    /\ Return("MBOX_INVALID_RESPONSE")
    /\ UNCHANGED <<mbox, copy, resp, req, want, left, strayed>>

\* DLEN and the first DATAOUT word make the response object.
StatusDataReady ==
    /\ pc = "status" /\ {"FAILURE", "COMPLETE"} \cap mbox.status = {}
    /\ "DATA_READY" \in mbox.status
    /\ req' = "none"
    /\ IF call.op = "exec"
       THEN /\ pc' = "copy" /\ copy' = [NoCopy EXCEPT !.len = mbox.dlen]
            /\ UNCHANGED <<call, resp, ret>>
       ELSE /\ Return("OK_RESPONSE")
            /\ resp' = [NoResp EXCEPT !.alive = TRUE, !.len = mbox.dlen]
            /\ UNCHANGED copy
    /\ UNCHANGED <<mbox, want, left, strayed>>

----------------------------------------------------------------------------
\* The response object, r.

\* next() with a word left: word 0 is kept in the object, the others are read
\* through RESP_MBOX_DATAOUT.
NextWord(r) ==
    /\ r.idx < WordCount(r.len)
    /\ mbox' = IF r.idx = 0 THEN mbox ELSE ReadReg(RESP_MBOX_DATAOUT)

\* The destructor of an object that was not moved from.
DestroyResponse == mbox' = WriteReg(RESP_MBOX_EXECUTE, 0) /\ left' = "dropped"

\* Mutant: only the length Caliptra announced bounds the copy.
CopyWord_unbounded ==
    /\ pc = "copy" /\ NextWord(copy)
    /\ copy' = [copy EXCEPT !.idx = @ + 1, !.stored = copy.idx + 1]
    /\ UNCHANGED <<pc, call, resp, ret, req, want, left, strayed>>

\* The copy loop of exec_mailbox_req_u32 stores at most resp_count words.
CopyWord ==
    /\ pc = "copy" /\ NextWord(copy)
    /\ copy' = [copy EXCEPT !.idx = @ + 1,
                            !.stored = IF copy.idx < call.m THEN copy.idx + 1 ELSE @]
    /\ UNCHANGED <<pc, call, resp, ret, req, want, left, strayed>>

CopyDone ==
    /\ pc = "copy" /\ copy.idx >= WordCount(copy.len)
    /\ DestroyResponse /\ copy' = NoCopy /\ Return("OK")
    /\ UNCHANGED <<resp, req, want, strayed>>

\* A client of finish_mailbox_resp reads, rewinds and destroys it itself.
ClientNext ==
    /\ pc = "idle" /\ resp.alive /\ NextWord(resp)
    /\ resp' = [resp EXCEPT !.idx = @ + 1]
    /\ UNCHANGED <<pc, call, copy, ret, req, want, left, strayed>>

ClientReset ==
    /\ pc = "idle" /\ resp.alive
    /\ resp' = [resp EXCEPT !.idx = 0]
    /\ UNCHANGED <<mbox, pc, call, copy, ret, req, want, left, strayed>>

ClientDestroy ==
    /\ pc = "idle" /\ resp.alive
    /\ DestroyResponse /\ resp' = NoResp
    /\ UNCHANGED <<pc, call, copy, ret, req, want, strayed>>

----------------------------------------------------------------------------
\* Caliptra and the other mailbox users (external).

\* Caliptra answers late or never; an answer with no bit is an unknown status.
CaliptraAnswer(bits, len) ==
    /\ "BUSY" \in mbox.status
    /\ mbox' = [mbox EXCEPT !.status = bits,
                            !.dlen = IF "DATA_READY" \in bits THEN len ELSE @]
    /\ UNCHANGED <<pc, call, copy, resp, ret, req, want, left, strayed>>

OtherUser(u) ==
    /\ \/ mbox.lock = "none" /\ mbox' = [mbox EXCEPT !.lock = u]
       \/ mbox.lock = u /\ ~mbox.execute /\ mbox' = Executing
       \/ mbox.lock = u /\ mbox.execute /\ "BUSY" \notin mbox.status /\ mbox' = Cleared
    /\ UNCHANGED <<pc, call, copy, resp, ret, req, want, left, strayed>>

----------------------------------------------------------------------------

ClientCall ==
    \/ \E len \in ReqLens, n \in ReqCounts : start_mailbox_req(len, n)
    \/ \E len \in ReqLens : initiate_request(len) \/ ClientSetCommand(len)
    \/ \E n \in ReqCounts, m \in RespCounts : exec_mailbox_req_u32(n, m)
    \/ \E m \in RespCounts : finish_mailbox_resp(m)
    \/ ClientLock \/ write_data \/ execute_command
    \/ ClientNext \/ ClientReset \/ ClientDestroy

DriverStep ==
    \/ lock_mailbox \/ set_command \/ WriteRequestWord \/ StartExecution
    \/ PollNotBusy \/ PollBusy
    \/ StatusFailed \/ StatusComplete \/ StatusUnknown \/ StatusDataReady
    \/ CopyWord \/ CopyDone

Environment ==
    \/ \E bits \in SUBSET (StatusBits \ {"BUSY"}), len \in RespDlens :
          CaliptraAnswer(bits, len)
    \/ \E u \in Others : OtherUser(u)

Next == ClientCall \/ DriverStep \/ Environment

Spec == Init /\ [][Next]_vars

\* The MCU goes on with a call it is in; nothing is assumed of Caliptra, of
\* the other users or of the client.
FairSpec == Spec /\ WF_vars(DriverStep)

----------------------------------------------------------------------------
\* Properties.

\* While another user owns the mailbox, a request of the MCU changes none of
\* its registers, whatever was called before, although the driver only ever
\* looks at the LOCK bit and not at the owner.  Nor does any other call of a
\* client that never wrote, set or executed without a staged request: those
\* three calls take any holder's lock for their own.
ForeignTransactionUntouched ==
    [][mbox.lock \in Others =>
          \/ mbox' = mbox \/ Environment
          \/ strayed' /\ pc \notin {"lock", "setcmd", "write"}]_vars

\* The status, length and data a call acts on are those of the transaction
\* the client itself started, whatever timed out or was retried before:
\* finish_mailbox_resp never picks up the answer to someone else's request.
\* (Of a client that never strayed.)
AnswerIsOurs ==
    ~strayed /\ (pc \in {"poll", "status", "copy"} \/ resp.alive) =>
        mbox.lock = "mcu" /\ mbox.execute /\ mbox.txn = want

\* A request is left alone while Caliptra works on it: no call of a client
\* that never strayed, not even one made after MBOX_TIMEOUT, rewrites its
\* registers or withdraws EXECUTE (an answer sets STATUS and DLEN).
RequestFrozenWhileBusy ==
    []["BUSY" \in mbox.status /\ ~strayed' =>
          mbox' = mbox \/ mbox' = [mbox EXCEPT !.status = mbox'.status,
                                               !.dlen = mbox'.dlen]]_vars

\* What start_mailbox_req and exec_mailbox_req_u32 hand to Caliptra is their
\* caller's request and nothing else: the words it passed, the length it
\* announced and, for exec, the two in agreement, whatever staged, stray or
\* timed-out requests came before.  (The length and count of
\* start_mailbox_req are its caller's and may disagree.)
RequestComplete ==
    [][pc = "write" /\ pc' # "write" =>
          /\ mbox'.lock = "mcu" /\ mbox'.execute
          /\ mbox'.din = call.n /\ mbox'.dlen = call.len
          /\ call.op = "exec" => mbox'.dlen = 4 * mbox'.din]_vars

\* Between calls the MCU owns the mailbox for a request it has staged or sent,
\* a response object that is alive, one that was destroyed (see
\* ResponseReleasesLock), or because set_command, write_data or
\* execute_command found it free and took it; no other failed, completed or
\* refused call keeps it.  MBOX_TIMEOUT and an unknown status leave the request
\* sent, and the mailbox with it.
LockHeldForAReason ==
    pc = "idle" /\ mbox.lock = "mcu" => req # "none" \/ resp.alive \/ left # "no"

\* exec_mailbox_req_u32 stores no word past the caller's buffer, whatever
\* length Caliptra announces.
NoBufferOverrun == pc = "copy" => copy.stored <= call.m

\* What each register and each stage of a call says about the others,
\* whatever the client calls.
HardwareInv ==
    /\ mbox.lock = "none" => ~mbox.execute /\ mbox.din = 0
    /\ "BUSY" \in mbox.status => mbox.execute

CallInv ==
    /\ pc \in {"setcmd", "write"} => mbox.lock = "mcu" /\ ~mbox.execute
    /\ pc = "setcmd" => mbox.din = 0
    /\ pc = "write" => mbox.dlen = call.len /\ mbox.din <= call.n
    /\ pc \in {"lock", "setcmd", "write"} /\ call.op = "exec" => call.len = 4 * call.n
    /\ pc \in {"poll", "status"} => req = "sent"
    /\ pc = "poll" => call.tmo > 0
    /\ pc = "copy" => copy.stored <= call.m

\* LockHeldForAReason, and while a call is about to find the mailbox taken.
HoldInv ==
    pc \in {"idle", "lock"} /\ mbox.lock = "mcu" =>
        req # "none" \/ resp.alive \/ left # "no"

\* The client that never strayed: whose transaction the registers show.
ClientInv ==
    /\ pc \in {"setcmd", "write"} => req = "none" /\ ~resp.alive /\ left = "no"
    /\ req = "staged" =>
          /\ mbox.lock = "mcu" /\ ~mbox.execute /\ ~resp.alive
          /\ pc \in {"idle", "lock"}
    /\ req = "sent" =>
          /\ mbox.lock = "mcu" /\ mbox.execute /\ mbox.txn = want /\ ~resp.alive
          /\ pc \in {"idle", "lock", "poll", "status"}
    /\ resp.alive \/ pc = "copy" =>
          /\ mbox.lock = "mcu" /\ mbox.execute /\ mbox.txn = want
          /\ "BUSY" \notin mbox.status /\ req = "none"
          /\ pc \in {"idle", "lock", "copy"}
    /\ left # "no" =>
          /\ mbox.lock = "mcu" /\ mbox.execute /\ "BUSY" \notin mbox.status
          /\ req = "none" /\ ~resp.alive /\ pc \in {"idle", "lock"}
    /\ pc = "copy" => ~resp.alive
    /\ pc = "status" => "BUSY" \notin mbox.status

\* The MCU holds the mailbox exactly while a call or the client has a use for
\* it, each stage of a call knows whose transaction the registers show, and a
\* wait always has a turn left: the inductive strengthening of the properties
\* above (IndInv implies them).
IndInv == TypeOK /\ HardwareInv /\ CallInv /\ HoldInv /\ (~strayed => ClientInv)

\* Every call returns, even when Caliptra hangs or another user never lets go.
EveryCallReturns == (pc # "idle") ~> (pc = "idle")

Protocol == INSTANCE MailboxProtocol WITH
    Agents   <- {"mcu"} \cup Others,
    Nobody   <- "none",
    Requests <- {0, 1} \X Nat,
    owner    <- mbox.lock,
    phase    <- IF mbox.lock = "none" THEN "free"
                ELSE IF ~mbox.execute THEN "loading"
                ELSE IF "BUSY" \in mbox.status THEN "busy"
                ELSE "answered",
    request  <- <<mbox.cmd, mbox.din>>,
    orderly  <- ~strayed

\* As long as the client does not stray, driver and other users together follow
\* the mailbox protocol: a request is loaded, busy and answered under one owner,
\* and withdrawn only once answered.
ImplementsProtocol == Protocol!ProtocolSpec

\* "Release the lock" says the destructor of CaliptraMailboxResponse: once a
\* response was destroyed, and until the MCU takes the lock again, the MCU does
\* not own the mailbox.
ResponseReleasesLock == left = "dropped" => mbox.lock # "mcu"
=============================================================================
