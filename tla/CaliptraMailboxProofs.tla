------------------------ MODULE CaliptraMailboxProofs ------------------------
(***************************************************************************)
(* Proofs about CaliptraMailbox, for every set of other users, every        *)
(* mailbox size, timeout and set of request and response lengths.           *)
(*                                                                         *)
(* IndInv is shown to be inductive, one lemma per action; the safety        *)
(* properties follow from it, the action properties and the refinement of   *)
(* MailboxProtocol from it and a look at each action.                       *)
(***************************************************************************)
EXTENDS CaliptraMailbox, TLAPS

----------------------------------------------------------------------------
\* Operators.

\* A byte count takes a natural number of words.
LEMMA WordCountType ==
    ASSUME NEW n \in Nat PROVE WordCount(n) \in Nat
BY DEF WordCount

\* n words of four bytes take n words (exec_mailbox_req_u32's len_bytes).
LEMMA WordCountOfWords ==
    ASSUME NEW n \in Nat PROVE WordCount(n * 4) = n
BY DEF WordCount

\* Transaction numbers stay in range.
LEMMA NextTxnType ==
    ASSUME TypeOK PROVE NextTxn \in Txns
BY MailboxAssumption DEF NextTxn, Txns, TypeOK, Mailboxes

\* What the offsets the driver and the response object use stand for: the
\* response object's EXECUTE is the mailbox's CMD, its DATAOUT is LOCK.
LEMMA RegisterAccess ==
    /\ WriteReg(MBOX_EXECUTE, 1) = Executing
    /\ WriteReg(MBOX_EXECUTE, 0) = Cleared
    /\ WriteReg(RESP_MBOX_EXECUTE, 0) = [mbox EXCEPT !.cmd = 0]
    /\ ReadReg(RESP_MBOX_DATAOUT) = ReadLock
BY DEF WriteReg, ReadReg, MBOX_EXECUTE, MBOX_CMD, MBOX_LOCK, RESP_MBOX_EXECUTE, RESP_MBOX_DATAOUT

\* The registers after starting and after ending a transaction.
LEMMA Registers ==
    ASSUME TypeOK
    PROVE  /\ Executing \in Mailboxes
           /\ Executing.lock = mbox.lock /\ Executing.execute = TRUE
           /\ Executing.status = {"BUSY"} /\ Executing.txn = NextTxn
           /\ Executing.din = mbox.din /\ Executing.dlen = mbox.dlen
           /\ Executing.cmd = mbox.cmd
           /\ Cleared \in Mailboxes
           /\ Cleared.lock = "none" /\ Cleared.execute = FALSE
           /\ Cleared.status = {} /\ Cleared.din = 0 /\ Cleared.txn = mbox.txn
BY NextTxnType DEF Executing, Cleared, TypeOK, Mailboxes, StatusBits

\* The registers after set_command's two writes and after LOCK was read.
LEMMA Written ==
    ASSUME TypeOK, NEW len \in Nat
    PROVE  /\ WithCommand(len) \in Mailboxes
           /\ WithCommand(len).lock = mbox.lock /\ WithCommand(len).execute = mbox.execute
           /\ WithCommand(len).status = mbox.status /\ WithCommand(len).dlen = len
           /\ WithCommand(len).din = mbox.din /\ WithCommand(len).txn = mbox.txn
           /\ ReadLock \in Mailboxes
           /\ ReadLock.execute = mbox.execute /\ ReadLock.status = mbox.status
           /\ ReadLock.din = mbox.din /\ ReadLock.txn = mbox.txn
           /\ ReadLock.dlen = mbox.dlen /\ ReadLock.cmd = mbox.cmd
           /\ ReadLock.lock = IF LockReads0 THEN "mcu" ELSE mbox.lock
           /\ ~LockReads0 => ReadLock = mbox
BY DEF WithCommand, ReadLock, LockReads0, TypeOK, Mailboxes

\* Returning leaves a well-typed, empty call record.
LEMMA NoCallType == NoCall \in Calls
BY MailboxAssumption DEF NoCall, Calls

----------------------------------------------------------------------------
\* IndInv holds initially and is preserved by each action.

\* The mailbox and the driver start idle.
LEMMA InitInv == Init => IndInv
<1> SUFFICES ASSUME Init PROVE IndInv
  OBVIOUS
<1> USE DEF Init
<1>1. TypeOK
  <2>1. 0 \in Txns
    BY MailboxAssumption DEF Txns
  <2>2. mbox \in Mailboxes
    BY <2>1 DEF Mailboxes
  <2>3. call \in Calls
    BY MailboxAssumption DEF Calls, NoCall
  <2>4. copy \in Copies /\ resp \in Responses
    BY DEF Copies, NoCopy, Responses, NoResp
  <2> QED BY <2>1, <2>2, <2>3, <2>4 DEF TypeOK
<1>2. HardwareInv /\ CallInv /\ HoldInv
  BY MailboxAssumption DEF HardwareInv, CallInv, HoldInv
<1>3. ClientInv
  BY MailboxAssumption DEF ClientInv, NoResp
<1> QED BY <1>1, <1>2, <1>3 DEF IndInv

\* A step that leaves the registers, the client's state and the stage of the
\* call alone.
LEMMA Still ==
    ASSUME IndInv, UNCHANGED <<mbox, pc, call, copy, req, want, left, strayed>>,
           resp' \in Responses, resp'.alive = resp.alive,
           ret' \in {ret, "MBOX_INVALID_RESPONSE"}
    PROVE  IndInv'
<1>1. TypeOK'
  BY DEF IndInv, TypeOK
<1>2. HardwareInv' /\ CallInv' /\ HoldInv'
  BY DEF IndInv, HardwareInv, CallInv, HoldInv
<1>3. ~strayed' => ClientInv'
  BY DEF IndInv, ClientInv
<1> QED BY <1>1, <1>2, <1>3 DEF IndInv

\* A refused call changes nothing but its result.
LEMMA RefuseInv ==
    ASSUME IndInv, NEW r \in {"MBOX_INVALID_RESPONSE"}, Refuse(r) PROVE IndInv'
BY Still DEF Refuse, IndInv, TypeOK

\* The size check at the head of a request.
LEMMA RequestInv ==
    ASSUME IndInv, pc = "idle",
           NEW op \in {"start", "initiate", "exec"},
           NEW len \in Nat, NEW n \in Nat, NEW m \in Nat,
           op = "exec" => len = 4 * n,
           Request(op, len, n, m)
    PROVE  IndInv'
<1>1. CASE len > MAILBOX_SIZE
  BY <1>1, RefuseInv DEF Request
<1>2. CASE ~(len > MAILBOX_SIZE)
  <2>1. /\ pc' = "lock"
        /\ call' = [op |-> op, len |-> len, n |-> n, m |-> m, tmo |-> 0]
        /\ UNCHANGED <<mbox, copy, resp, ret, req, want, left, strayed>>
    BY <1>2 DEF Request, NoCall
  <2>2. TypeOK'
    BY <2>1, MailboxAssumption DEF IndInv, TypeOK, Calls
  <2>3. HardwareInv' /\ CallInv' /\ HoldInv'
    BY <2>1 DEF IndInv, HardwareInv, CallInv, HoldInv
  <2>4. ~strayed' => ClientInv'
    BY <2>1 DEF IndInv, ClientInv
  <2> QED BY <2>2, <2>3, <2>4 DEF IndInv
<1> QED BY <1>1, <1>2

\* start_mailbox_req, with any count, and initiate_request.
LEMMA StartInv ==
    ASSUME IndInv, NEW len \in ReqLens,
           (\E n \in ReqCounts : start_mailbox_req(len, n)) \/ initiate_request(len)
    PROVE  IndInv'
<1>1. len \in Nat /\ ReqCounts \subseteq Nat
  BY MailboxAssumption
<1> QED BY <1>1, RequestInv DEF start_mailbox_req, initiate_request

\* exec_mailbox_req_u32 up to the first register access.
LEMMA ExecInv ==
    ASSUME IndInv, NEW n \in ReqCounts, NEW m \in RespCounts, exec_mailbox_req_u32(n, m)
    PROVE  IndInv'
<1>1. n \in Nat /\ m \in Nat /\ n * 4 \in Nat /\ n * 4 = 4 * n
  BY MailboxAssumption
<1>2. CASE n * 4 < REQ_HEADER_SIZE
  BY <1>2, RefuseInv DEF exec_mailbox_req_u32
<1>3. CASE ~(n * 4 < REQ_HEADER_SIZE)
  BY <1>1, <1>3, RequestInv DEF exec_mailbox_req_u32
<1> QED BY <1>2, <1>3

\* finish_mailbox_resp up to its first poll: only after a request was sent.
LEMMA FinishInv ==
    ASSUME IndInv, NEW m \in RespCounts, finish_mailbox_resp(m) PROVE IndInv'
<1>1. CASE ~RespSizeOk(m)
  BY <1>1, RefuseInv DEF finish_mailbox_resp
<1>2. CASE RespSizeOk(m)
  <2>1. /\ pc = "idle" /\ req = "sent" /\ pc' = "poll"
        /\ call' = [op |-> "finish", len |-> 0, n |-> 0, m |-> m, tmo |-> MAX_WAIT_CYCLES]
        /\ UNCHANGED <<mbox, copy, resp, ret, req, want, left, strayed>>
    BY <1>2 DEF finish_mailbox_resp, NoCall
  <2>2. TypeOK'
    BY <2>1, MailboxAssumption DEF IndInv, TypeOK, Calls
  <2>3. HardwareInv' /\ CallInv' /\ HoldInv'
    BY <2>1, MailboxAssumption DEF IndInv, HardwareInv, CallInv, HoldInv
  <2>4. ~strayed' => ClientInv'
    BY <2>1 DEF IndInv, ClientInv
  <2> QED BY <2>2, <2>3, <2>4 DEF IndInv
<1> QED BY <1>1, <1>2

\* A direct call that finds the mailbox free takes it: the client has strayed,
\* for the mailbox of a staged request is not free.
LEMMA RefusedDirectInv ==
    ASSUME IndInv, NEW answer, Direct(answer), LockReads0 PROVE IndInv'
<1>1. /\ pc = "idle" /\ mbox' = ReadLock /\ mbox.lock = "none" /\ mbox'.lock = "mcu"
      /\ ret' = "MBOX_LOCK_FAILED" /\ left' = "took"
      /\ strayed' = (strayed \/ req # "staged")
      /\ UNCHANGED <<pc, call, copy, resp, req, want>>
  BY Written DEF Direct, LockReads0, IndInv
<1>2. TypeOK'
  BY <1>1, Written DEF IndInv, TypeOK
<1>3. HardwareInv' /\ CallInv' /\ HoldInv'
  BY <1>1, Written DEF IndInv, HardwareInv, CallInv, HoldInv
<1>4. strayed'
  BY <1>1 DEF IndInv, ClientInv
<1> QED BY <1>2, <1>3, <1>4 DEF IndInv

\* The direct calls that find LOCK set, whoever set it.
LEMMA WriteDataInv == ASSUME IndInv, write_data PROVE IndInv'
<1>1. CASE LockReads0
  BY <1>1, RefusedDirectInv DEF write_data
<1>2. CASE ~LockReads0
  <2>1. /\ pc = "idle" /\ mbox.lock # "none"
        /\ mbox' = [mbox EXCEPT !.din = @ + 1] /\ ret' = "OK"
        /\ strayed' = (strayed \/ req # "staged")
        /\ UNCHANGED <<pc, call, copy, resp, req, want, left>>
    BY <1>2 DEF write_data, Direct, LockReads0
  <2>2. /\ mbox' \in Mailboxes /\ mbox'.lock = mbox.lock /\ mbox'.execute = mbox.execute
        /\ mbox'.status = mbox.status /\ mbox'.txn = mbox.txn
    BY <2>1 DEF IndInv, TypeOK, Mailboxes
  <2>3. TypeOK'
    BY <2>1, <2>2 DEF IndInv, TypeOK
  <2>4. HardwareInv' /\ CallInv' /\ HoldInv'
    BY <2>1, <2>2 DEF IndInv, HardwareInv, CallInv, HoldInv
  <2>5. ~strayed' => ClientInv'
    BY <2>1, <2>2 DEF IndInv, ClientInv
  <2> QED BY <2>3, <2>4, <2>5 DEF IndInv
<1> QED BY <1>1, <1>2

LEMMA ClientSetCommandInv ==
    ASSUME IndInv, NEW len \in ReqLens, ClientSetCommand(len) PROVE IndInv'
<1>1. CASE LockReads0
  BY <1>1, RefusedDirectInv DEF ClientSetCommand
<1>2. CASE ~LockReads0
  <2>1. /\ pc = "idle" /\ mbox.lock # "none"
        /\ mbox' = WithCommand(len) /\ ret' = "OK"
        /\ strayed' = (strayed \/ req # "staged")
        /\ req' = (IF req = "none" THEN "staged" ELSE req)
        /\ UNCHANGED <<pc, call, copy, resp, want, left>>
    BY <1>2 DEF ClientSetCommand, Direct, LockReads0
  <2>2. /\ mbox' \in Mailboxes /\ mbox'.lock = mbox.lock /\ mbox'.execute = mbox.execute
        /\ mbox'.status = mbox.status /\ mbox'.txn = mbox.txn /\ mbox'.din = mbox.din
    BY <2>1, Written, MailboxAssumption DEF IndInv
  <2>3. TypeOK'
    BY <2>1, <2>2 DEF IndInv, TypeOK
  <2>4. HardwareInv' /\ CallInv' /\ HoldInv'
    BY <2>1, <2>2 DEF IndInv, HardwareInv, CallInv, HoldInv
  <2>5. ~strayed' => ClientInv'
    BY <2>1, <2>2 DEF IndInv, ClientInv
  <2> QED BY <2>3, <2>4, <2>5 DEF IndInv
<1> QED BY <1>1, <1>2

\* lock_mailbox, called directly: a lock that is granted stages a request.
LEMMA ClientLockInv == ASSUME IndInv, ClientLock PROVE IndInv'
<1>1. CASE LockReads0
  <2>1. /\ pc = "idle" /\ mbox.lock = "none" /\ mbox' = ReadLock /\ mbox'.lock = "mcu"
        /\ ret' = "OK" /\ req' = "staged" /\ left' = "no"
        /\ UNCHANGED <<pc, call, copy, resp, want, strayed>>
    BY <1>1, Written DEF ClientLock, LockReads0, IndInv
  <2>2. TypeOK'
    BY <2>1, Written DEF IndInv, TypeOK
  <2>3. HardwareInv' /\ CallInv' /\ HoldInv'
    BY <2>1, Written DEF IndInv, HardwareInv, CallInv, HoldInv
  <2>4. ~strayed' => ClientInv'
    BY <2>1, Written DEF IndInv, ClientInv, HardwareInv
  <2> QED BY <2>2, <2>3, <2>4 DEF IndInv
<1>2. CASE ~LockReads0
  <2>1. /\ pc = "idle" /\ mbox' = mbox /\ ret' = "MBOX_LOCK_FAILED"
        /\ UNCHANGED <<pc, call, copy, resp, want, strayed, req, left>>
    BY <1>2 DEF ClientLock, ReadLock
  <2>2. TypeOK'
    BY <2>1 DEF IndInv, TypeOK
  <2>3. HardwareInv' /\ CallInv' /\ HoldInv'
    BY <2>1 DEF IndInv, HardwareInv, CallInv, HoldInv
  <2>4. ~strayed' => ClientInv'
    BY <2>1 DEF IndInv, ClientInv
  <2> QED BY <2>2, <2>3, <2>4 DEF IndInv
<1> QED BY <1>1, <1>2

\* A transaction started by execute_command or start_mailbox_req; of a client
\* that has not strayed it is its own.
LEMMA ExecutionStarts ==
    ASSUME IndInv, mbox.lock # "none",
           mbox' = WriteReg(MBOX_EXECUTE, 1), req' = "sent", want' = NextTxn,
           UNCHANGED <<copy, resp, left>>, strayed' \in BOOLEAN,
           call' \in Calls, ret' \in {"OK", "MBOX_INVALID_RESPONSE", ret},
           \/ pc' = "idle"
           \/ pc' = "poll" /\ call'.tmo > 0,
           ~strayed' => ~strayed /\ mbox.lock = "mcu" /\ left = "no" /\ ~resp.alive
    PROVE  IndInv'
<1>1. TypeOK /\ mbox' = Executing
  BY RegisterAccess DEF IndInv
<1>2. TypeOK'
  BY <1>1, Registers, NextTxnType DEF TypeOK
<1>3. HardwareInv' /\ CallInv' /\ HoldInv'
  BY <1>1, Registers DEF HardwareInv, CallInv, HoldInv
<1>4. ~strayed' => ClientInv'
  BY <1>1, Registers DEF ClientInv
<1> QED BY <1>2, <1>3, <1>4 DEF IndInv

\* execute_command: the transaction of whoever holds the lock starts.
LEMMA ExecuteCommandInv == ASSUME IndInv, execute_command PROVE IndInv'
<1>1. CASE LockReads0
  BY <1>1, RefusedDirectInv DEF execute_command
<1>2. CASE ~LockReads0
  <2>1. /\ pc' = "idle" /\ mbox.lock # "none"
        /\ mbox' = WriteReg(MBOX_EXECUTE, 1) /\ req' = "sent" /\ want' = NextTxn
        /\ UNCHANGED <<copy, resp, call, left>> /\ ret' = "OK"
        /\ strayed' = (strayed \/ req # "staged")
    BY <1>2 DEF execute_command, Direct, LockReads0
  <2>2. call' \in Calls /\ strayed' \in BOOLEAN
    BY <2>1 DEF IndInv, TypeOK
  <2>3. ~strayed' => ~strayed /\ mbox.lock = "mcu" /\ left = "no" /\ ~resp.alive
    BY <2>1 DEF IndInv, ClientInv
  <2> QED BY <2>1, <2>2, <2>3, ExecutionStarts
<1> QED BY <1>1, <1>2

\* lock_mailbox: a 0 read from LOCK grants it, so nothing of ours was pending.
LEMMA LockMailboxInv == ASSUME IndInv, lock_mailbox PROVE IndInv'
<1>1. CASE LockReads0
  <2>1. /\ pc = "lock" /\ pc' = "setcmd" /\ mbox.lock = "none" /\ mbox' = ReadLock
        /\ mbox'.lock = "mcu" /\ left' = "no"
        /\ UNCHANGED <<call, ret, copy, resp, req, want, strayed>>
    BY <1>1, Written DEF lock_mailbox, LockReads0, IndInv
  <2>2. TypeOK'
    BY <2>1, Written DEF IndInv, TypeOK
  <2>3. HardwareInv' /\ CallInv' /\ HoldInv'
    BY <2>1, Written DEF IndInv, HardwareInv, CallInv, HoldInv
  <2>4. ~strayed' => ClientInv'
    BY <2>1, Written DEF IndInv, TypeOK, ClientInv, HardwareInv
  <2> QED BY <2>2, <2>3, <2>4 DEF IndInv
<1>2. CASE ~LockReads0
  <2>1. /\ pc = "lock" /\ pc' = "idle" /\ mbox' = mbox /\ call' = NoCall
        /\ ret' = "MBOX_LOCK_FAILED"
        /\ UNCHANGED <<copy, resp, req, want, left, strayed>>
    BY <1>2 DEF lock_mailbox, ReadLock, Return
  <2>2. TypeOK'
    BY <2>1, NoCallType DEF IndInv, TypeOK
  <2>3. HardwareInv' /\ CallInv' /\ HoldInv'
    BY <2>1 DEF IndInv, HardwareInv, CallInv, HoldInv
  <2>4. ~strayed' => ClientInv'
    BY <2>1 DEF IndInv, ClientInv
  <2> QED BY <2>2, <2>3, <2>4 DEF IndInv
<1> QED BY <1>1, <1>2

\* set_command: LOCK reads 1 because lock_mailbox has just taken it.
LEMMA SetCommandInv == ASSUME IndInv, set_command PROVE IndInv'
<1>1. /\ pc = "setcmd" /\ mbox.lock = "mcu" /\ ~mbox.execute /\ call.len \in Nat
      /\ mbox.din = 0 /\ "BUSY" \notin mbox.status
      /\ mbox' = WithCommand(call.len)
      /\ UNCHANGED <<copy, resp, want, left, strayed>>
  BY DEF set_command, LockReads0, IndInv, CallInv, HardwareInv, TypeOK, Calls
<1>2. /\ mbox' \in Mailboxes /\ mbox'.lock = "mcu" /\ mbox'.execute = mbox.execute
      /\ mbox'.din = 0 /\ mbox'.status = mbox.status /\ mbox'.dlen = call.len
  BY <1>1, Written DEF IndInv
<1>3. CASE call.op = "initiate"
  <2>1. pc' = "idle" /\ call' = NoCall /\ ret' = "OK" /\ req' = "staged"
    BY <1>1, <1>3 DEF set_command, LockReads0, Return
  <2>2. TypeOK'
    BY <1>1, <1>2, <2>1, NoCallType DEF IndInv, TypeOK
  <2>3. HardwareInv' /\ CallInv' /\ HoldInv'
    BY <1>1, <1>2, <2>1 DEF HardwareInv, CallInv, HoldInv
  <2>4. ~strayed' => ClientInv'
    BY <1>1, <1>2, <2>1 DEF IndInv, ClientInv
  <2> QED BY <2>2, <2>3, <2>4 DEF IndInv
<1>4. CASE call.op # "initiate"
  <2>1. pc' = "write" /\ UNCHANGED <<call, ret, req>>
    BY <1>1, <1>4 DEF set_command, LockReads0
  <2>2. TypeOK'
    BY <1>1, <1>2, <2>1 DEF IndInv, TypeOK
  <2>3. mbox'.din <= call'.n
    BY <1>2, <2>1 DEF IndInv, TypeOK, Calls
  <2>4. HardwareInv' /\ CallInv' /\ HoldInv'
    BY <1>1, <1>2, <2>1, <2>3 DEF IndInv, HardwareInv, CallInv, HoldInv
  <2>5. ~strayed' => ClientInv'
    BY <1>1, <1>2, <2>1 DEF IndInv, ClientInv
  <2> QED BY <2>2, <2>4, <2>5 DEF IndInv
<1> QED BY <1>3, <1>4

\* One word of the request.
LEMMA WriteRequestWordInv == ASSUME IndInv, WriteRequestWord PROVE IndInv'
<1>1. /\ pc = "write" /\ mbox.din < call.n /\ mbox' = [mbox EXCEPT !.din = @ + 1]
      /\ UNCHANGED <<pc, call, copy, resp, ret, req, want, left, strayed>>
  BY DEF WriteRequestWord
<1>2. /\ mbox' \in Mailboxes /\ mbox'.lock = mbox.lock /\ mbox'.execute = mbox.execute
      /\ mbox'.status = mbox.status /\ mbox'.txn = mbox.txn /\ mbox'.dlen = mbox.dlen
      /\ mbox'.din <= call.n
  BY <1>1 DEF IndInv, TypeOK, Mailboxes, Calls
<1>3. TypeOK'
  BY <1>1, <1>2 DEF IndInv, TypeOK
<1>4. HardwareInv' /\ CallInv' /\ HoldInv'
  BY <1>1, <1>2 DEF IndInv, HardwareInv, CallInv, HoldInv
<1>5. ~strayed' => ClientInv'
  BY <1>1, <1>2 DEF IndInv, ClientInv
<1> QED BY <1>3, <1>4, <1>5 DEF IndInv

\* EXECUTE := 1 once all words are written.
LEMMA StartExecutionInv == ASSUME IndInv, StartExecution PROVE IndInv'
<1>1. /\ mbox.lock # "none" /\ strayed' \in BOOLEAN
      /\ ~strayed' => ~strayed /\ mbox.lock = "mcu" /\ left = "no" /\ ~resp.alive
  BY DEF StartExecution, IndInv, CallInv, ClientInv, TypeOK
<1>2. /\ mbox' = WriteReg(MBOX_EXECUTE, 1) /\ req' = "sent" /\ want' = NextTxn
      /\ UNCHANGED <<copy, resp, left>>
  BY DEF StartExecution
<1>3. \/ pc' = "idle" /\ call' = NoCall /\ ret' \in {"OK", "MBOX_INVALID_RESPONSE"}
      \/ pc' = "poll" /\ call' = [call EXCEPT !.tmo = MAX_WAIT_CYCLES] /\ ret' = ret
  BY DEF StartExecution, Return
<1>4. CASE pc' = "idle" /\ call' = NoCall /\ ret' \in {"OK", "MBOX_INVALID_RESPONSE"}
  BY <1>1, <1>2, <1>4, NoCallType, ExecutionStarts
<1>5. CASE pc' = "poll" /\ call' = [call EXCEPT !.tmo = MAX_WAIT_CYCLES] /\ ret' = ret
  <2>1. call' \in Calls /\ call'.tmo > 0
    BY <1>5, MailboxAssumption DEF IndInv, TypeOK, Calls
  <2> QED BY <1>1, <1>2, <1>5, <2>1, ExecutionStarts
<1> QED BY <1>3, <1>4, <1>5

\* A poll that finds Caliptra done.
LEMMA PollNotBusyInv == ASSUME IndInv, PollNotBusy PROVE IndInv'
<1>1. TypeOK'
  BY DEF PollNotBusy, IndInv, TypeOK
<1>2. HardwareInv' /\ CallInv' /\ HoldInv'
  BY DEF PollNotBusy, IndInv, HardwareInv, CallInv, HoldInv
<1>3. ~strayed' => ClientInv'
  BY DEF PollNotBusy, IndInv, CallInv, ClientInv
<1> QED BY <1>1, <1>2, <1>3 DEF IndInv

\* A poll that finds it busy counts down or times out, the request still sent.
LEMMA PollBusyInv == ASSUME IndInv, PollBusy PROVE IndInv'
<1>1. TypeOK'
  BY MailboxAssumption DEF PollBusy, Return, NoCall, IndInv, TypeOK, CallInv, Calls
<1>2. /\ pc = "poll" /\ req = "sent" /\ pc' \in {"poll", "idle"}
      /\ pc' = "poll" => call'.tmo > 0
      /\ UNCHANGED <<mbox, copy, resp, req, want, left, strayed>>
  BY MailboxAssumption DEF PollBusy, Return, IndInv, TypeOK, CallInv, Calls
<1>3. HardwareInv' /\ CallInv' /\ HoldInv'
  BY <1>2 DEF IndInv, HardwareInv, CallInv, HoldInv
<1>4. ~strayed' => ClientInv'
  BY <1>2 DEF IndInv, ClientInv
<1> QED BY <1>1, <1>3, <1>4 DEF IndInv

\* EXECUTE := 0 ends the transaction, and frees the mailbox.
LEMMA TransactionEnds ==
    ASSUME IndInv, pc = "status", mbox' = WriteReg(MBOX_EXECUTE, 0),
           NEW r \in {"MBOX_CMD_FAILED", "MBOX_INVALID_RESPONSE", "OK_NONE"},
           Return(r), req' = "none", left' = "no", UNCHANGED <<copy, resp, want, strayed>>
    PROVE  IndInv'
<1>1. mbox' = Cleared /\ pc' = "idle" /\ call' = NoCall /\ ret' = r /\ TypeOK
  BY RegisterAccess DEF Return, IndInv
<1>2. TypeOK'
  BY <1>1, Registers, NoCallType DEF TypeOK
<1>3. HardwareInv' /\ CallInv' /\ HoldInv'
  BY <1>1, Registers DEF HardwareInv, CallInv, HoldInv
<1>4. ~strayed' => ~resp'.alive
  BY DEF IndInv, CallInv, ClientInv
<1>5. ~strayed' => ClientInv'
  BY <1>1, <1>4, Registers DEF ClientInv
<1> QED BY <1>2, <1>3, <1>5 DEF IndInv

\* FAILURE and COMPLETE release the mailbox, an unknown status does not.
LEMMA StatusInv ==
    ASSUME IndInv, StatusFailed \/ StatusComplete \/ StatusUnknown PROVE IndInv'
<1>1. CASE StatusFailed
  BY <1>1, TransactionEnds DEF StatusFailed
<1>2. CASE StatusComplete
  BY <1>2, TransactionEnds DEF StatusComplete
<1>3. CASE StatusUnknown
  <2>1. /\ pc = "status" /\ pc' = "idle" /\ call' = NoCall /\ req = "sent"
        /\ ret' = "MBOX_INVALID_RESPONSE"
        /\ UNCHANGED <<mbox, copy, resp, req, want, left, strayed>>
    BY <1>3 DEF StatusUnknown, Return, IndInv, CallInv
  <2>2. TypeOK'
    BY <2>1, NoCallType DEF IndInv, TypeOK
  <2>3. HardwareInv' /\ CallInv' /\ HoldInv'
    BY <2>1 DEF IndInv, HardwareInv, CallInv, HoldInv
  <2>4. ~strayed' => ClientInv'
    BY <2>1 DEF IndInv, ClientInv
  <2> QED BY <2>2, <2>3, <2>4 DEF IndInv
<1> QED BY <1>1, <1>2, <1>3

\* DATA_READY makes the response object, the client's or the call's own.
LEMMA StatusDataReadyInv == ASSUME IndInv, StatusDataReady PROVE IndInv'
<1>1. pc = "status" /\ req' = "none" /\ UNCHANGED <<mbox, want, left, strayed>>
  BY DEF StatusDataReady
<1>2. CASE call.op = "exec"
  <2>1. /\ pc' = "copy" /\ UNCHANGED <<call, resp, ret>>
        /\ copy' = [idx |-> 0, len |-> mbox.dlen, stored |-> 0]
    BY <1>2 DEF StatusDataReady, NoCopy
  <2>2. TypeOK'
    BY <1>1, <2>1 DEF IndInv, TypeOK, Mailboxes, Copies
  <2>3. HardwareInv' /\ CallInv' /\ HoldInv'
    BY <1>1, <2>1 DEF IndInv, TypeOK, Calls, HardwareInv, CallInv, HoldInv
  <2>4. ~strayed' => ClientInv'
    BY <1>1, <2>1 DEF IndInv, CallInv, ClientInv
  <2> QED BY <2>2, <2>3, <2>4 DEF IndInv
<1>3. CASE call.op # "exec"
  <2>1. /\ pc' = "idle" /\ call' = NoCall /\ ret' = "OK_RESPONSE" /\ UNCHANGED copy
        /\ resp' = [alive |-> TRUE, idx |-> 0, len |-> mbox.dlen]
    BY <1>3 DEF StatusDataReady, NoResp, Return
  <2>2. TypeOK'
    BY <1>1, <2>1, NoCallType DEF IndInv, TypeOK, Mailboxes, Responses
  <2>3. HardwareInv' /\ CallInv' /\ HoldInv'
    BY <1>1, <2>1 DEF IndInv, HardwareInv, CallInv, HoldInv
  <2>4. ~strayed' => ClientInv'
    BY <1>1, <2>1 DEF IndInv, CallInv, ClientInv
  <2> QED BY <2>2, <2>3, <2>4 DEF IndInv
<1> QED BY <1>2, <1>3

\* next(): what it reads in place of DATAOUT is LOCK, which takes a free
\* mailbox and else changes nothing.
LEMMA NextWordReadsLock ==
    ASSUME NEW r, NextWord(r)
    PROVE  mbox' = mbox \/ (mbox.lock = "none" /\ mbox' = ReadLock)
BY RegisterAccess DEF NextWord, ReadLock, LockReads0

\* So a response is read without harm to the mailbox.
LEMMA ReadingInv ==
    ASSUME IndInv, mbox' = mbox \/ (mbox.lock = "none" /\ mbox' = ReadLock),
           UNCHANGED <<pc, call, ret, req, want, left, strayed>>,
           copy' \in Copies, resp' \in Responses, resp'.alive = resp.alive,
           \/ pc = "copy" /\ copy'.stored <= call.m
           \/ pc = "idle" /\ resp.alive
    PROVE  IndInv'
<1>1. /\ mbox' \in Mailboxes /\ mbox'.execute = mbox.execute
      /\ mbox'.status = mbox.status /\ mbox'.txn = mbox.txn /\ mbox'.din = mbox.din
      /\ mbox.lock # "none" => mbox'.lock = mbox.lock
      /\ mbox'.lock = "none" => mbox.lock = "none"
  BY Written DEF IndInv, TypeOK
<1>2. TypeOK'
  BY <1>1 DEF IndInv, TypeOK
<1>3. HardwareInv' /\ CallInv' /\ HoldInv'
  BY <1>1 DEF IndInv, HardwareInv, CallInv, HoldInv
<1>4. ~strayed' => ClientInv'
  <2> SUFFICES ASSUME ~strayed PROVE ClientInv'
    OBVIOUS
  <2>1. ClientInv /\ mbox.lock = "mcu"
    BY DEF IndInv, ClientInv
  <2>2. mbox' = mbox
    BY <2>1
  <2> QED BY <2>1, <2>2 DEF ClientInv
<1> QED BY <1>2, <1>3, <1>4 DEF IndInv

\* The copy loop.
LEMMA CopyWordInv == ASSUME IndInv, CopyWord PROVE IndInv'
<1>1. copy' \in Copies /\ copy'.stored <= call.m
  <2> DEFINE k == IF copy.idx < call.m THEN copy.idx + 1 ELSE copy.stored
  <2>1. copy \in Copies /\ call.m \in Nat /\ copy.stored <= call.m
    BY DEF CopyWord, IndInv, CallInv, TypeOK, Calls
  <2>2. k \in Nat /\ k <= call.m
    BY <2>1 DEF Copies
  <2>3. copy' = [idx |-> copy.idx + 1, len |-> copy.len, stored |-> k]
    BY <2>1 DEF CopyWord, Copies
  <2>4. copy.idx + 1 \in Nat /\ copy.len \in Nat
    BY <2>1 DEF Copies
  <2> HIDE DEF k
  <2> QED BY <2>2, <2>3, <2>4 DEF Copies
<1>2. /\ mbox' = mbox \/ (mbox.lock = "none" /\ mbox' = ReadLock)
      /\ UNCHANGED <<pc, call, resp, ret, req, want, left, strayed>> /\ pc = "copy"
      /\ resp' \in Responses
  BY NextWordReadsLock DEF CopyWord, IndInv, TypeOK
<1> QED BY <1>1, <1>2, ReadingInv

\* The client's own reading and rewinding.
LEMMA ClientReadInv == ASSUME IndInv, ClientNext \/ ClientReset PROVE IndInv'
<1>1. /\ mbox' = mbox \/ (mbox.lock = "none" /\ mbox' = ReadLock)
      /\ UNCHANGED <<pc, call, copy, ret, req, want, left, strayed>>
      /\ pc = "idle" /\ resp.alive
  BY NextWordReadsLock DEF ClientNext, ClientReset
<1>2. resp' \in Responses /\ resp'.alive = resp.alive /\ copy' \in Copies
  <2>1. resp \in Responses /\ copy \in Copies
    BY DEF IndInv, TypeOK
  <2>2. CASE ClientNext
    <3> DEFINE i == resp.idx + 1
    <3>1. i \in Nat
      BY <2>1 DEF Responses
    <3>2. resp' = [resp EXCEPT !.idx = i] /\ copy' = copy
      BY <2>2 DEF ClientNext
    <3> HIDE DEF i
    <3> QED BY <2>1, <3>1, <3>2 DEF Responses
  <2>3. CASE ClientReset
    BY <1>1, <2>1, <2>3 DEF ClientReset, Responses
  <2> QED BY <2>2, <2>3
<1> QED BY <1>1, <1>2, ReadingInv

\* The destructor of the response object.
LEMMA DestroyInv == ASSUME IndInv, CopyDone \/ ClientDestroy PROVE IndInv'
<1>1. /\ mbox' = [mbox EXCEPT !.cmd = 0] /\ left' = "dropped" /\ pc' = "idle"
      /\ UNCHANGED <<req, want, strayed>>
      /\ \/ pc = "copy" /\ UNCHANGED resp
         \/ pc = "idle" /\ resp.alive /\ resp' = NoResp
  BY RegisterAccess DEF CopyDone, ClientDestroy, DestroyResponse, Return
<1>2. /\ mbox' \in Mailboxes /\ mbox'.lock = mbox.lock /\ mbox'.execute = mbox.execute
      /\ mbox'.status = mbox.status /\ mbox'.txn = mbox.txn /\ mbox'.din = mbox.din
  BY <1>1 DEF IndInv, TypeOK, Mailboxes
<1>3. call' \in Calls /\ copy' \in Copies /\ resp' \in Responses /\ ret' \in {"OK", ret}
  <2>1. NoCopy \in Copies /\ NoResp \in Responses
    BY DEF NoCopy, NoResp, Copies, Responses
  <2>2. CASE CopyDone
    BY <2>1, <2>2, NoCallType DEF CopyDone, Return, IndInv, TypeOK
  <2>3. CASE ClientDestroy
    BY <2>1, <2>3 DEF ClientDestroy, IndInv, TypeOK
  <2> QED BY <2>2, <2>3
<1>4. TypeOK'
  BY <1>1, <1>2, <1>3 DEF IndInv, TypeOK
<1>5. HardwareInv' /\ CallInv' /\ HoldInv'
  BY <1>1, <1>2 DEF IndInv, HardwareInv, CallInv, HoldInv
<1>6. ~strayed' => ~resp'.alive
  BY <1>1 DEF IndInv, ClientInv, NoResp
<1>7. ~strayed' => ClientInv'
  BY <1>1, <1>2, <1>6 DEF IndInv, ClientInv
<1> QED BY <1>4, <1>5, <1>7 DEF IndInv

\* Caliptra's answer, at any time.
LEMMA CaliptraAnswerInv ==
    ASSUME IndInv, NEW bits \in SUBSET (StatusBits \ {"BUSY"}), NEW len \in RespDlens,
           CaliptraAnswer(bits, len)
    PROVE  IndInv'
<1>1. /\ mbox' \in Mailboxes /\ mbox'.lock = mbox.lock /\ mbox'.execute = mbox.execute
      /\ "BUSY" \notin mbox'.status /\ mbox'.txn = mbox.txn /\ mbox'.din = mbox.din
      /\ mbox.execute /\ UNCHANGED <<pc, call, copy, resp, ret, req, want, left, strayed>>
  BY MailboxAssumption DEF CaliptraAnswer, IndInv, TypeOK, HardwareInv, Mailboxes
<1>2. TypeOK'
  BY <1>1 DEF IndInv, TypeOK
<1>3. HardwareInv' /\ CallInv' /\ HoldInv'
  BY <1>1 DEF IndInv, HardwareInv, CallInv, HoldInv
<1>4. ~strayed' => ClientInv'
  BY <1>1 DEF IndInv, ClientInv
<1> QED BY <1>2, <1>3, <1>4 DEF IndInv

\* Another user's steps: it owns the mailbox only while the MCU does not.
LEMMA OtherUserInv == ASSUME IndInv, NEW u \in Others, OtherUser(u) PROVE IndInv'
<1>1. u # "none" /\ u # "mcu" /\ TypeOK
  BY MailboxAssumption DEF IndInv
<1>2. mbox.lock # "mcu" /\ UNCHANGED <<pc, call, copy, resp, ret, req, want, left, strayed>>
  BY <1>1 DEF OtherUser
<1>3. mbox' \in Mailboxes /\ mbox'.lock # "mcu"
  BY <1>1, <1>2, Registers DEF OtherUser, TypeOK, Mailboxes
<1>4. HardwareInv'
  BY <1>1, <1>2, Registers DEF OtherUser, IndInv, HardwareInv, TypeOK, Mailboxes
<1>5. TypeOK'
  BY <1>2, <1>3 DEF IndInv, TypeOK
<1>6. CallInv' /\ HoldInv'
  BY <1>2, <1>3 DEF IndInv, CallInv, HoldInv
<1>7. ~strayed' => ClientInv'
  BY <1>2, <1>3 DEF IndInv, CallInv, ClientInv
<1> QED BY <1>4, <1>5, <1>6, <1>7 DEF IndInv

----------------------------------------------------------------------------
\* The theorems.

\* IndInv is inductive: every step of the driver, the client, Caliptra and the
\* other users preserves it.
LEMMA Inductive == IndInv /\ [Next]_vars => IndInv'
<1> SUFFICES ASSUME IndInv, [Next]_vars PROVE IndInv'
  OBVIOUS
<1>1. CASE ClientCall
  BY <1>1, StartInv, ExecInv, FinishInv, WriteDataInv, ExecuteCommandInv, ClientLockInv,
     ClientSetCommandInv, ClientReadInv, DestroyInv DEF ClientCall
<1>2. CASE DriverStep
  BY <1>2, LockMailboxInv, SetCommandInv, WriteRequestWordInv, StartExecutionInv,
     PollNotBusyInv, PollBusyInv, StatusInv, StatusDataReadyInv, CopyWordInv, DestroyInv
     DEF DriverStep
<1>3. CASE Environment
  BY <1>3, CaliptraAnswerInv, OtherUserInv DEF Environment
<1>4. CASE UNCHANGED vars
  BY <1>4, Still DEF vars, IndInv, TypeOK
<1> QED BY <1>1, <1>2, <1>3, <1>4 DEF Next

\* The registers, the stage of the call and the client's request agree with
\* each other in every reachable state (soc_manager.cpp as a whole).
THEOREM InvariantHolds == Spec => []IndInv
BY InitInv, Inductive, PTL DEF Spec

\* Type correctness; in particular timeout_cycles of finish_mailbox_resp never
\* wraps below 0, whatever Caliptra does.
THEOREM TypeCorrect == Spec => []TypeOK
<1>1. IndInv => TypeOK
  BY DEF IndInv
<1> QED BY <1>1, InvariantHolds, PTL

\* finish_mailbox_resp and the response object only ever act on the
\* transaction the client started, of a client that never strayed.
THEOREM AnswersAreOurs == Spec => []AnswerIsOurs
<1>1. IndInv => AnswerIsOurs
  BY DEF IndInv, AnswerIsOurs, ClientInv, CallInv
<1> QED BY <1>1, InvariantHolds, PTL

\* start_mailbox_req and exec_mailbox_req_u32 execute with the words and the
\* length of their own caller in the mailbox, for every history of calls.
THEOREM RequestsAreComplete == Spec => RequestComplete
<1> DEFINE Complete == /\ mbox'.lock = "mcu" /\ mbox'.execute
                       /\ mbox'.din = call.n /\ mbox'.dlen = call.len
                       /\ call.op = "exec" => mbox'.dlen = 4 * mbox'.din
<1>1. IndInv /\ [Next]_vars => [pc = "write" /\ pc' # "write" => Complete]_vars
  <2> SUFFICES ASSUME IndInv, Next, pc = "write", pc' # "write" PROVE Complete
    BY DEF vars
  <2>1. TypeOK /\ mbox.lock = "mcu" /\ mbox.dlen = call.len
        /\ (call.op = "exec" => call.len = 4 * call.n)
    BY DEF IndInv, CallInv
  <2>2. ~ClientCall
    BY DEF ClientCall, start_mailbox_req, initiate_request, exec_mailbox_req_u32,
           finish_mailbox_resp, Direct, ClientLock, ClientSetCommand, write_data,
           execute_command, ClientNext, ClientReset, ClientDestroy
  <2>3. ~Environment
    BY DEF Environment, CaliptraAnswer, OtherUser
  <2>4. StartExecution
    BY <2>2, <2>3 DEF Next, DriverStep, lock_mailbox, set_command, WriteRequestWord,
       PollNotBusy, PollBusy, StatusFailed, StatusComplete, StatusUnknown,
       StatusDataReady, CopyWord, CopyDone
  <2>5. mbox.din = call.n /\ mbox' = Executing
    BY <2>4, RegisterAccess DEF StartExecution
  <2> QED BY <2>1, <2>5, Registers
<1> QED BY <1>1, InvariantHolds, PTL DEF Spec, RequestComplete

\* Between calls the MCU owns the mailbox only for a pending request or a live
\* response, but for the two ways in which the code is left with it.
THEOREM LockIsHeldForAReason == Spec => []LockHeldForAReason
<1>1. IndInv => LockHeldForAReason
  BY DEF IndInv, LockHeldForAReason, HoldInv
<1> QED BY <1>1, InvariantHolds, PTL

\* exec_mailbox_req_u32 stays within the caller's buffer.
THEOREM BufferIsNotOverrun == Spec => []NoBufferOverrun
<1>1. IndInv => NoBufferOverrun
  BY DEF IndInv, NoBufferOverrun, CallInv
<1> QED BY <1>1, InvariantHolds, PTL

----------------------------------------------------------------------------
\* What a step may do to the mailbox, by the kind of step, of a client that
\* has not strayed.

Taken ==
    /\ mbox.lock = "none"
    /\ \E a \in {"mcu"} \cup Others : mbox' = [mbox EXCEPT !.lock = a]

Loaded ==
    /\ mbox.lock = "mcu" /\ "BUSY" \notin mbox.status
    /\ \E c \in {0, 1}, n \in Nat, d \in Nat :
          mbox' = [mbox EXCEPT !.cmd = c, !.din = n, !.dlen = d]

Started ==
    /\ mbox.lock # "none" /\ ~mbox.execute
    /\ mbox' = Executing

Answered ==
    /\ "BUSY" \in mbox.status
    /\ \E bits \in SUBSET (StatusBits \ {"BUSY"}), d \in Nat :
          mbox' = [mbox EXCEPT !.status = bits, !.dlen = d]

Ended ==
    /\ mbox.lock # "none" /\ mbox.execute /\ "BUSY" \notin mbox.status
    /\ mbox' = Cleared

Effect == mbox' = mbox \/ Taken \/ Loaded \/ Started \/ Answered \/ Ended

\* The MCU's own steps have it only on a mailbox that is free or theirs.
OwnEffect == mbox' = mbox \/ (mbox.lock \in {"none", "mcu"} /\ Effect)

\* A write to the request registers.
LEMMA LoadEffect ==
    ASSUME mbox.lock = "mcu", "BUSY" \notin mbox.status,
           NEW c \in {0, 1}, NEW n \in Nat, NEW d \in Nat,
           mbox' = [mbox EXCEPT !.cmd = c, !.din = n, !.dlen = d]
    PROVE  OwnEffect
BY DEF Loaded, Effect, OwnEffect

\* set_command's writes, one word of a request, the destructor's write to CMD.
LEMMA RequestRegisters ==
    ASSUME TypeOK, mbox.lock = "mcu", "BUSY" \notin mbox.status,
           \/ \E len \in Nat : mbox' = WithCommand(len)
           \/ mbox' = [mbox EXCEPT !.din = @ + 1]
           \/ mbox' = [mbox EXCEPT !.cmd = 0]
    PROVE  OwnEffect
<1>1. /\ mbox.dlen \in Nat /\ mbox.din + 1 \in Nat /\ mbox.din \in Nat
      /\ mbox.cmd \in {0, 1} /\ mbox \in Mailboxes
  BY DEF TypeOK, Mailboxes
<1>2. ASSUME NEW len \in Nat, mbox' = WithCommand(len) PROVE OwnEffect
  <2>1. mbox' = [mbox EXCEPT !.cmd = 1, !.din = mbox.din, !.dlen = len]
    BY <1>1, <1>2 DEF WithCommand, Mailboxes
  <2> QED BY <1>1, <2>1, LoadEffect
<1>3. CASE mbox' = [mbox EXCEPT !.din = @ + 1]
  <2>1. mbox' = [mbox EXCEPT !.cmd = mbox.cmd, !.din = mbox.din + 1, !.dlen = mbox.dlen]
    BY <1>1, <1>3 DEF Mailboxes
  <2> QED BY <1>1, <2>1, LoadEffect
<1>4. CASE mbox' = [mbox EXCEPT !.cmd = 0]
  <2>1. mbox' = [mbox EXCEPT !.cmd = 0, !.din = mbox.din, !.dlen = mbox.dlen]
    BY <1>1, <1>4 DEF Mailboxes
  <2> QED BY <1>1, <2>1, LoadEffect
<1> QED BY <1>2, <1>3, <1>4

\* The client's calls.
LEMMA ClientEffect == ASSUME IndInv, ClientCall, ~strayed' PROVE OwnEffect
<1>1. TypeOK
  BY DEF IndInv
<1>2. ASSUME NEW len \in ReqLens, initiate_request(len)
      PROVE  OwnEffect
  BY <1>2 DEF initiate_request, Request, Refuse, OwnEffect
<1>3. ASSUME NEW len \in ReqLens, NEW n \in ReqCounts, start_mailbox_req(len, n)
      PROVE  OwnEffect
  BY <1>3 DEF start_mailbox_req, Request, Refuse, OwnEffect
<1>4. ASSUME NEW n \in ReqCounts, NEW m \in RespCounts, exec_mailbox_req_u32(n, m)
      PROVE  OwnEffect
  BY <1>4 DEF exec_mailbox_req_u32, Request, Refuse, OwnEffect
<1>5. ASSUME NEW m \in RespCounts, finish_mailbox_resp(m)
      PROVE  OwnEffect
  BY <1>5 DEF finish_mailbox_resp, Refuse, OwnEffect
<1>6. ASSUME NEW answer, Direct(answer)
      PROVE  /\ mbox' = answer /\ mbox.lock = "mcu" /\ ~mbox.execute
             /\ "BUSY" \notin mbox.status
  <2>1. ClientInv /\ HardwareInv /\ req = "staged"
    BY <1>6 DEF Direct, IndInv
  <2> QED BY <1>6, <2>1 DEF Direct, ClientInv, HardwareInv, LockReads0
<1>7. ASSUME NEW len \in ReqLens, ClientSetCommand(len)
      PROVE  OwnEffect
  <2>1. len \in Nat /\ Direct(WithCommand(len))
    BY <1>7, MailboxAssumption DEF ClientSetCommand
  <2> QED BY <1>1, <1>6, <2>1, RequestRegisters
<1>8. CASE write_data
  <2>1. Direct([mbox EXCEPT !.din = @ + 1])
    BY <1>8 DEF write_data
  <2> QED BY <1>1, <1>6, <2>1, RequestRegisters
<1>9. CASE execute_command
  <2>1. Direct(WriteReg(MBOX_EXECUTE, 1))
    BY <1>9 DEF execute_command
  <2>2. mbox' = Executing /\ mbox.lock = "mcu" /\ ~mbox.execute
    BY <1>6, <2>1, RegisterAccess
  <2> QED BY <2>2 DEF OwnEffect, Effect, Started
<1>10. CASE ClientLock
  BY <1>10 DEF ClientLock, ReadLock, LockReads0, OwnEffect, Effect, Taken
<1>11. CASE ClientNext \/ ClientReset
  BY <1>11, NextWordReadsLock DEF ClientNext, ClientReset, IndInv, ClientInv, OwnEffect
<1>12. CASE ClientDestroy
  <2>1. /\ mbox.lock = "mcu" /\ "BUSY" \notin mbox.status
        /\ mbox' = [mbox EXCEPT !.cmd = 0]
    BY <1>12, RegisterAccess DEF ClientDestroy, DestroyResponse, IndInv, ClientInv
  <2> QED BY <1>1, <2>1, RequestRegisters
<1> QED BY <1>2, <1>3, <1>4, <1>5, <1>7, <1>8, <1>9, <1>10, <1>11, <1>12 DEF ClientCall

\* The driver's own steps.
LEMMA DriverEffect == ASSUME IndInv, DriverStep, ~strayed' PROVE OwnEffect
<1>1. TypeOK /\ call.len \in Nat
  BY DEF IndInv, TypeOK, Calls
<1>2. CASE lock_mailbox
  BY <1>2 DEF lock_mailbox, ReadLock, LockReads0, OwnEffect, Effect, Taken
<1>3. CASE set_command
  <2>1. /\ mbox.lock = "mcu" /\ "BUSY" \notin mbox.status
        /\ mbox' = WithCommand(call.len)
    BY <1>3 DEF set_command, LockReads0, IndInv, CallInv, HardwareInv
  <2> QED BY <1>1, <2>1, RequestRegisters
<1>4. CASE WriteRequestWord
  <2>1. /\ mbox.lock = "mcu" /\ "BUSY" \notin mbox.status
        /\ mbox' = [mbox EXCEPT !.din = @ + 1]
    BY <1>4 DEF WriteRequestWord, IndInv, CallInv, HardwareInv
  <2> QED BY <1>1, <2>1, RequestRegisters
<1>5. CASE StartExecution
  BY <1>5, RegisterAccess DEF StartExecution, IndInv, CallInv, OwnEffect, Effect, Started
<1>6. CASE PollNotBusy \/ PollBusy \/ StatusUnknown \/ StatusDataReady
  BY <1>6 DEF PollNotBusy, PollBusy, StatusUnknown, StatusDataReady, OwnEffect
<1>7. CASE StatusFailed \/ StatusComplete
  <2>1. pc = "status" /\ ~strayed /\ mbox' = Cleared
    BY <1>7, RegisterAccess DEF StatusFailed, StatusComplete
  <2>2. mbox.lock = "mcu" /\ mbox.execute /\ "BUSY" \notin mbox.status
    BY <2>1 DEF IndInv, CallInv, ClientInv
  <2> QED BY <2>1, <2>2 DEF OwnEffect, Effect, Ended
<1>8. CASE CopyWord
  BY <1>8, NextWordReadsLock DEF CopyWord, IndInv, ClientInv, OwnEffect
<1>9. CASE CopyDone
  <2>1. /\ mbox.lock = "mcu" /\ "BUSY" \notin mbox.status
        /\ mbox' = [mbox EXCEPT !.cmd = 0]
    BY <1>9, RegisterAccess DEF CopyDone, DestroyResponse, IndInv, ClientInv
  <2> QED BY <1>1, <2>1, RequestRegisters
<1> QED BY <1>2, <1>3, <1>4, <1>5, <1>6, <1>7, <1>8, <1>9 DEF DriverStep

\* Caliptra and the other users.
LEMMA EnvironmentEffect == ASSUME IndInv, Environment PROVE Effect
<1>1. ASSUME NEW bits \in SUBSET (StatusBits \ {"BUSY"}), NEW len \in RespDlens,
             CaliptraAnswer(bits, len)
      PROVE  Effect
  <2> DEFINE d == IF "DATA_READY" \in bits THEN len ELSE mbox.dlen
  <2>1. d \in Nat
    BY MailboxAssumption DEF IndInv, TypeOK, Mailboxes
  <2>2. "BUSY" \in mbox.status /\ mbox' = [mbox EXCEPT !.status = bits, !.dlen = d]
    BY <1>1 DEF CaliptraAnswer
  <2> HIDE DEF d
  <2> QED BY <2>1, <2>2 DEF Effect, Answered
<1>2. ASSUME NEW u \in Others, OtherUser(u)
      PROVE  Effect
  BY <1>2, MailboxAssumption DEF OtherUser, Effect, Taken, Started, Ended
<1> QED BY <1>1, <1>2 DEF Environment

\* Every step has one of these effects until the client strays.
LEMMA StepEffect == IndInv /\ [Next]_vars /\ ~strayed' => Effect
<1>1. UNCHANGED vars => Effect
  BY DEF vars, Effect
<1>2. OwnEffect => Effect
  BY DEF OwnEffect, Effect
<1> QED BY <1>1, <1>2, ClientEffect, DriverEffect, EnvironmentEffect DEF Next

\* A request never touches the mailbox of another user, and no other call does
\* until the client strays.
THEOREM ForeignTransactionsAreUntouched == Spec => ForeignTransactionUntouched
<1> DEFINE Untouched == \/ mbox' = mbox \/ Environment
                        \/ strayed' /\ pc \notin {"lock", "setcmd", "write"}
<1>1. IndInv /\ [Next]_vars => [mbox.lock \in Others => Untouched]_vars
  <2> SUFFICES ASSUME IndInv, Next, mbox.lock \in Others PROVE Untouched
    BY DEF vars
  <2>1. mbox.lock # "mcu" /\ mbox.lock # "none"
    BY MailboxAssumption
  <2>2. CASE ~strayed'
    BY <2>1, <2>2, ClientEffect, DriverEffect DEF Next, OwnEffect
  <2>3. CASE strayed' /\ pc \in {"lock", "setcmd", "write"}
    <3>1. pc = "lock"
      BY <2>1, <2>3 DEF IndInv, CallInv
    <3>2. ~ClientCall
      BY <3>1 DEF ClientCall, start_mailbox_req, initiate_request, exec_mailbox_req_u32,
         finish_mailbox_resp, Direct, ClientLock, ClientSetCommand, write_data,
         execute_command, ClientNext, ClientReset, ClientDestroy
    <3>3. DriverStep => lock_mailbox
      BY <3>1 DEF DriverStep, set_command, WriteRequestWord, StartExecution,
         PollNotBusy, PollBusy, StatusFailed, StatusComplete, StatusUnknown,
         StatusDataReady, CopyWord, CopyDone
    <3>4. lock_mailbox => mbox' = mbox
      BY <2>1 DEF lock_mailbox, ReadLock, LockReads0
    <3> QED BY <3>2, <3>3, <3>4 DEF Next
  <2> QED BY <2>2, <2>3
<1> QED BY <1>1, InvariantHolds, PTL DEF Spec, ForeignTransactionUntouched

\* No call rewrites or withdraws a request Caliptra is working on, not even
\* one made after a timeout, until the client strays.
THEOREM RequestsAreFrozenWhileBusy == Spec => RequestFrozenWhileBusy
<1> DEFINE Frozen == mbox' = mbox \/ mbox' = [mbox EXCEPT !.status = mbox'.status,
                                                         !.dlen = mbox'.dlen]
<1>1. IndInv /\ [Next]_vars => ["BUSY" \in mbox.status /\ ~strayed' => Frozen]_vars
  <2> SUFFICES ASSUME IndInv, [Next]_vars, "BUSY" \in mbox.status, ~strayed' PROVE Frozen
    OBVIOUS
  <2>1. mbox \in Mailboxes /\ mbox.execute /\ mbox.lock # "none" /\ Effect
    BY StepEffect DEF IndInv, TypeOK, HardwareInv
  <2>2. CASE Answered
    BY <2>1, <2>2 DEF Answered, Mailboxes
  <2> QED BY <2>1, <2>2 DEF Effect, Taken, Loaded, Started, Ended
<1> QED BY <1>1, InvariantHolds, PTL DEF Spec, RequestFrozenWhileBusy

\* The mailbox starts free.
LEMMA ProtocolInitHolds == Init => Protocol!ProtocolInit
BY DEF Init, Protocol!ProtocolInit

\* A client that strays stays astray.
LEMMA StrayedForGood == ASSUME [Next]_vars, strayed PROVE strayed'
<1>1. CASE ClientCall
  BY <1>1 DEF ClientCall, start_mailbox_req, initiate_request, exec_mailbox_req_u32,
     finish_mailbox_resp, Request, Refuse, Direct, ClientLock, ClientSetCommand,
     write_data, execute_command, ClientNext, ClientReset, ClientDestroy
<1>2. CASE DriverStep
  BY <1>2 DEF DriverStep, lock_mailbox, set_command, WriteRequestWord, StartExecution,
     PollNotBusy, PollBusy, StatusFailed, StatusComplete, StatusUnknown,
     StatusDataReady, CopyWord, CopyDone
<1>3. CASE Environment
  BY <1>3 DEF Environment, CaliptraAnswer, OtherUser
<1> QED BY <1>1, <1>2, <1>3 DEF Next, vars

\* A step of a client astray is a misuse of the protocol.
LEMMA MisuseStep == ASSUME IndInv', strayed' PROVE Protocol!Misuse
<1>1. /\ mbox'.lock \in {"none", "mcu"} \cup Others
      /\ mbox'.cmd \in {0, 1} /\ mbox'.din \in Nat
  BY DEF IndInv, TypeOK, Mailboxes
<1> QED BY <1>1 DEF Protocol!Misuse, Protocol!Phases

\* Every step is a step of the protocol or leaves its variables alone.
LEMMA ProtocolStep == IndInv /\ [Next]_vars => [Protocol!ProtocolNext]_(Protocol!pvars)
<1> SUFFICES ASSUME IndInv, [Next]_vars
             PROVE  Protocol!ProtocolNext \/ UNCHANGED Protocol!pvars
  OBVIOUS
<1>1. CASE strayed'
  BY <1>1, Inductive, MisuseStep DEF Protocol!ProtocolNext
<1> SUFFICES ASSUME ~strayed'
             PROVE  Protocol!ProtocolNext \/ UNCHANGED Protocol!pvars
  BY <1>1
<1>2. /\ TypeOK /\ mbox \in Mailboxes /\ Effect /\ HardwareInv /\ ~strayed
      /\ mbox.lock \in {"none", "mcu"} \cup Others
  BY StepEffect, StrayedForGood DEF IndInv, TypeOK, Mailboxes
<1>3. CASE mbox' = mbox
  BY <1>2, <1>3 DEF Protocol!pvars
<1>4. CASE Taken
  <2>1. PICK a \in {"mcu"} \cup Others : mbox' = [mbox EXCEPT !.lock = a]
    BY <1>4 DEF Taken
  <2>2. /\ mbox.lock = "none" /\ a # "none" /\ ~mbox.execute
        /\ mbox'.lock = a /\ mbox'.execute = mbox.execute
        /\ mbox'.cmd = mbox.cmd /\ mbox'.din = mbox.din
    BY <1>2, <1>4, <2>1, MailboxAssumption DEF Taken, HardwareInv, Mailboxes
  <2>3. Protocol!Acquire(a)
    BY <1>2, <2>2 DEF Protocol!Acquire
  <2> QED BY <2>3 DEF Protocol!ProtocolNext
<1>5. CASE Loaded
  <2>1. /\ mbox.lock = "mcu" /\ "BUSY" \notin mbox.status
        /\ mbox'.lock = mbox.lock /\ mbox'.execute = mbox.execute
        /\ mbox'.status = mbox.status
        /\ mbox'.cmd \in {0, 1} /\ mbox'.din \in Nat
    BY <1>2, <1>5 DEF Loaded, Mailboxes
  <2>2. Protocol!Load
    BY <1>2, <2>1 DEF Protocol!Load
  <2> QED BY <2>2 DEF Protocol!ProtocolNext
<1>6. CASE Started
  <2>1. Protocol!Submit
    BY <1>2, <1>6, Registers DEF Started, Protocol!Submit
  <2> QED BY <2>1 DEF Protocol!ProtocolNext
<1>7. CASE Answered
  <2>1. /\ "BUSY" \in mbox.status /\ "BUSY" \notin mbox'.status
        /\ mbox.execute /\ mbox.lock # "none"
        /\ mbox'.lock = mbox.lock /\ mbox'.execute = mbox.execute
        /\ mbox'.cmd = mbox.cmd /\ mbox'.din = mbox.din
    BY <1>2, <1>7 DEF Answered, HardwareInv, Mailboxes
  <2>2. Protocol!Answer
    BY <1>2, <2>1 DEF Protocol!Answer
  <2> QED BY <2>2 DEF Protocol!ProtocolNext
<1>8. CASE Ended
  <2>1. /\ mbox'.lock = "none" /\ mbox'.cmd \in {0, 1} /\ mbox'.din \in Nat
    BY <1>2, <1>8, Registers DEF Ended, Mailboxes
  <2>2. Protocol!Release
    BY <1>2, <1>8, <2>1 DEF Ended, Protocol!Release
  <2> QED BY <2>2 DEF Protocol!ProtocolNext
<1> QED BY <1>2, <1>3, <1>4, <1>5, <1>6, <1>7, <1>8 DEF Effect

\* The driver implements the mailbox protocol: one owner at a time, a request
\* left alone from submission to answer, no release before the answer, until
\* its client makes a call out of order.
THEOREM DriverImplementsProtocol == Spec => ImplementsProtocol
BY ProtocolInitHolds, ProtocolStep, InvariantHolds, PTL
   DEF Spec, ImplementsProtocol, Protocol!ProtocolSpec

----------------------------------------------------------------------------
\* Why every call returns.  Up to the answer a call has a number of steps ahead
\* of it that depends on the words of the request and MAX_WAIT_CYCLES only;
\* once Caliptra has announced a response, the words left to copy count.  Each
\* step of the driver uses up some, and nobody else can add to it.

Ahead ==
    CASE pc = "lock"   -> call.n + MAX_WAIT_CYCLES + 4
      [] pc = "setcmd" -> call.n + MAX_WAIT_CYCLES + 3
      [] pc = "write"  -> call.n - mbox.din + MAX_WAIT_CYCLES + 2
      [] pc = "poll"   -> call.tmo + 1
      [] pc = "status" -> 1
      [] OTHER         -> 0

CopyLeft ==
    IF pc = "copy" /\ copy.idx < WordCount(copy.len) THEN WordCount(copy.len) - copy.idx ELSE 0

AheadBounded ==
    /\ Ahead \in 0..(call.n + MAX_WAIT_CYCLES + 4)
    /\ Ahead = 0 <=> pc \in {"idle", "copy"}
    /\ CopyLeft \in 0..WordCount(copy.len)

CallShortens ==
    pc # "idle" =>
        \/ DriverStep /\ pc' = "idle"
        \/ DriverStep /\ pc # "copy" /\ Ahead' \in 0..(Ahead - 1)
        \/ DriverStep /\ pc = "copy" /\ pc' = "copy" /\ CopyLeft' \in 0..(CopyLeft - 1)
        \/ Environment /\ UNCHANGED <<pc, Ahead, CopyLeft>>

\* The numbers of a call in progress.
LEMMA MailboxNumbers ==
    ASSUME IndInv
    PROVE  /\ MAX_WAIT_CYCLES \in Nat \ {0} /\ call.n \in Nat /\ mbox.din \in Nat
           /\ call.tmo \in 0..MAX_WAIT_CYCLES /\ copy.idx \in Nat /\ copy.len \in Nat
           /\ WordCount(copy.len) \in Nat
           /\ pc = "write" => mbox.din <= call.n
           /\ pc = "poll" => call.tmo > 0
           /\ pc \in {"idle", "lock", "setcmd", "write", "poll", "status", "copy"}
BY WordCountType, MailboxAssumption DEF IndInv, TypeOK, CallInv, Mailboxes, Calls, Copies

\* What is ahead of a call is within its bound.
LEMMA AheadIsBounded == IndInv => AheadBounded
<1> SUFFICES ASSUME IndInv PROVE AheadBounded
  OBVIOUS
<1>1. /\ Ahead \in 0..(call.n + MAX_WAIT_CYCLES + 4)
      /\ Ahead = 0 <=> pc \in {"idle", "copy"}
  BY MailboxNumbers DEF Ahead
<1>2. CopyLeft \in 0..WordCount(copy.len)
  BY MailboxNumbers DEF CopyLeft
<1> QED BY <1>1, <1>2 DEF AheadBounded

\* Taking the mailbox and loading the request.
LEMMA LoadShortens ==
    ASSUME IndInv, lock_mailbox \/ set_command \/ WriteRequestWord \/ StartExecution
    PROVE  pc # "copy" /\ (pc' = "idle" \/ Ahead' \in 0..(Ahead - 1))
<1>1. CASE lock_mailbox
  <2>1. pc = "lock" /\ (pc' = "idle" \/ (pc' = "setcmd" /\ call' = call))
    BY <1>1 DEF lock_mailbox, Return
  <2>2. Ahead = call.n + MAX_WAIT_CYCLES + 4
    BY <2>1 DEF Ahead
  <2>3. pc' = "setcmd" => Ahead' = call.n + MAX_WAIT_CYCLES + 3
    BY <2>1 DEF Ahead
  <2> QED BY <2>1, <2>2, <2>3, MailboxNumbers
<1>2. CASE set_command
  <2>1. /\ pc = "setcmd"
        /\ \/ pc' = "idle"
           \/ pc' = "write" /\ call' = call /\ mbox' = WithCommand(call.len)
    BY <1>2 DEF set_command, Return
  <2>2. Ahead = call.n + MAX_WAIT_CYCLES + 3
    BY <2>1 DEF Ahead
  <2>3. pc' = "write" => mbox'.din = 0
    BY <2>1, Written DEF IndInv, CallInv, TypeOK, Calls
  <2>4. pc' = "write" => Ahead' = call.n - 0 + MAX_WAIT_CYCLES + 2
    BY <2>1, <2>3 DEF Ahead
  <2> QED BY <2>1, <2>2, <2>4, MailboxNumbers
<1>3. CASE WriteRequestWord
  <2>1. /\ pc = "write" /\ pc' = "write" /\ call' = call /\ mbox.din < call.n
        /\ mbox' = [mbox EXCEPT !.din = @ + 1] /\ mbox \in Mailboxes
    BY <1>3 DEF WriteRequestWord, IndInv, TypeOK
  <2>2. mbox'.din = mbox.din + 1
    BY <2>1 DEF Mailboxes
  <2>3. Ahead = call.n - mbox.din + MAX_WAIT_CYCLES + 2
    BY <2>1 DEF Ahead
  <2>4. Ahead' = call.n - (mbox.din + 1) + MAX_WAIT_CYCLES + 2
    BY <2>1, <2>2 DEF Ahead
  <2> QED BY <2>1, <2>3, <2>4, MailboxNumbers
<1>4. CASE StartExecution
  <2>1. /\ pc = "write" /\ mbox.din = call.n /\ call \in Calls
        /\ \/ pc' = "idle"
           \/ pc' = "poll" /\ call' = [call EXCEPT !.tmo = MAX_WAIT_CYCLES]
    BY <1>4 DEF StartExecution, Return, IndInv, TypeOK
  <2>2. Ahead = call.n - mbox.din + MAX_WAIT_CYCLES + 2
    BY <2>1 DEF Ahead
  <2>3. pc' = "poll" => call'.tmo = MAX_WAIT_CYCLES
    BY <2>1 DEF Calls
  <2>4. pc' = "poll" => Ahead' = MAX_WAIT_CYCLES + 1
    BY <2>1, <2>3 DEF Ahead
  <2> QED BY <2>1, <2>2, <2>4, MailboxNumbers
<1> QED BY <1>1, <1>2, <1>3, <1>4

\* Waiting and looking at the answer.
LEMMA WaitShortens ==
    ASSUME IndInv,
           \/ PollNotBusy \/ PollBusy
           \/ StatusFailed \/ StatusComplete \/ StatusUnknown \/ StatusDataReady
    PROVE  pc # "copy" /\ (pc' = "idle" \/ Ahead' \in 0..(Ahead - 1))
<1>1. CASE PollNotBusy
  <2>1. pc = "poll" /\ pc' = "status"
    BY <1>1 DEF PollNotBusy
  <2>2. Ahead = call.tmo + 1 /\ Ahead' = 1
    BY <2>1 DEF Ahead
  <2> QED BY <2>1, <2>2, MailboxNumbers
<1>2. CASE PollBusy
  <2>1. /\ pc = "poll" /\ call \in Calls
        /\ \/ pc' = "idle"
           \/ pc' = "poll" /\ call' = [call EXCEPT !.tmo = @ - 1]
    BY <1>2 DEF PollBusy, Return, IndInv, TypeOK
  <2>2. pc' = "poll" => call'.tmo = call.tmo - 1
    BY <2>1 DEF Calls
  <2>3. Ahead = call.tmo + 1 /\ (pc' = "poll" => Ahead' = call.tmo - 1 + 1)
    BY <2>1, <2>2 DEF Ahead
  <2> QED BY <2>1, <2>3, MailboxNumbers
<1>3. CASE StatusFailed \/ StatusComplete \/ StatusUnknown
  BY <1>3 DEF StatusFailed, StatusComplete, StatusUnknown, Return
<1>4. CASE StatusDataReady
  <2>1. pc = "status" /\ pc' \in {"idle", "copy"}
    BY <1>4 DEF StatusDataReady, Return
  <2>2. Ahead = 1 /\ Ahead' = 0
    BY <2>1 DEF Ahead
  <2> QED BY <2>1, <2>2
<1> QED BY <1>1, <1>2, <1>3, <1>4

\* Copying the response.
LEMMA CopyShortens ==
    ASSUME IndInv, CopyWord \/ CopyDone
    PROVE  pc = "copy" /\ (pc' = "idle" \/ (pc' = "copy" /\ CopyLeft' \in 0..(CopyLeft - 1)))
<1>1. CASE CopyDone
  BY <1>1 DEF CopyDone, Return
<1>2. CASE CopyWord
  <2>1. /\ pc = "copy" /\ pc' = "copy" /\ copy \in Copies
        /\ copy.idx < WordCount(copy.len)
        /\ copy'.idx = copy.idx + 1 /\ copy'.len = copy.len
    BY <1>2 DEF CopyWord, NextWord, IndInv, TypeOK, Copies
  <2>2. CopyLeft = WordCount(copy.len) - copy.idx
    BY <2>1 DEF CopyLeft
  <2>3. CopyLeft' = IF copy.idx + 1 < WordCount(copy.len)
                    THEN WordCount(copy.len) - (copy.idx + 1) ELSE 0
    BY <2>1 DEF CopyLeft
  <2> QED BY <2>1, <2>2, <2>3, MailboxNumbers
<1> QED BY <1>1, <1>2

\* Caliptra and the other users change nothing of what is ahead of a call: the
\* words of its request are its own while it writes them.
LEMMA EnvironmentWaits ==
    ASSUME IndInv, Environment PROVE UNCHANGED <<pc, Ahead, CopyLeft>>
<1>1. UNCHANGED <<pc, call, copy>>
  BY DEF Environment, CaliptraAnswer, OtherUser
<1>2. pc = "write" => mbox'.din = mbox.din
  <2> SUFFICES ASSUME pc = "write" PROVE mbox'.din = mbox.din
    OBVIOUS
  <2>1. mbox.lock = "mcu" /\ mbox \in Mailboxes
    BY DEF IndInv, CallInv, TypeOK
  <2>2. \A u \in Others : ~OtherUser(u)
    BY <2>1, MailboxAssumption DEF OtherUser
  <2> QED BY <2>1, <2>2 DEF Environment, CaliptraAnswer, Mailboxes
<1>3. Ahead' = Ahead
  BY <1>1, <1>2, MailboxNumbers DEF Ahead
<1>4. CopyLeft' = CopyLeft
  BY <1>1 DEF CopyLeft
<1> QED BY <1>1, <1>3, <1>4

\* Every call ends after at most call.n + MAX_WAIT_CYCLES + 4 steps of the
\* driver, and one per word and one more if it copies a response, whatever Caliptra
\* and the other users do: no late answer, no second user and no length that
\* Caliptra announces keeps a call from getting nearer to its end.
THEOREM MailboxCallsAreBounded == Spec => []AheadBounded /\ [][CallShortens]_vars
<1>1. ASSUME IndInv, [Next]_vars PROVE [CallShortens]_vars
  <2> SUFFICES ASSUME Next, pc # "idle" PROVE CallShortens
    BY <1>1 DEF CallShortens
  <2>1. ~ClientCall
    BY DEF ClientCall, start_mailbox_req, initiate_request, exec_mailbox_req_u32,
           finish_mailbox_resp, Direct, ClientLock, ClientSetCommand, write_data,
           execute_command, ClientNext, ClientReset, ClientDestroy
  <2>2. CASE Environment
    BY <1>1, <2>2, EnvironmentWaits DEF CallShortens
  <2>3. CASE DriverStep
    <3>1. CASE lock_mailbox \/ set_command \/ WriteRequestWord \/ StartExecution
      BY <1>1, <2>3, <3>1, LoadShortens DEF CallShortens
    <3>2. CASE \/ PollNotBusy \/ PollBusy
               \/ StatusFailed \/ StatusComplete \/ StatusUnknown \/ StatusDataReady
      BY <1>1, <2>3, <3>2, WaitShortens DEF CallShortens
    <3>3. CASE CopyWord \/ CopyDone
      BY <1>1, <2>3, <3>3, CopyShortens DEF CallShortens
    <3> QED BY <2>3, <3>1, <3>2, <3>3 DEF DriverStep
  <2> QED BY <2>1, <2>2, <2>3 DEF Next
<1> QED BY <1>1, AheadIsBounded, InvariantHolds, PTL DEF Spec
=============================================================================
