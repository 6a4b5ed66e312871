----------------------------- MODULE OtpMemory -----------------------------
(***************************************************************************)
(* What the OTP driver promises to its callers: a memory of fuses that read *)
(* and write calls go through word by word, in order.  A word is counted as *)
(* read or written only when it is; at most one write is under way, it may  *)
(* outlive the call that gave up on it, and no word is counted while one    *)
(* is.  The driver in rom is shown to implement this memory (Otp, property  *)
(* ImplementsMemory).                                                       *)
(***************************************************************************)
EXTENDS Naturals, Sequences

CONSTANTS Addrs,       \* addresses of the memory
          Words        \* what a word may hold: sets of programmed bits

VARIABLES fuses,       \* the memory
          pending,     \* the write under way, if any: {} or {<<address, word>>}
          job,         \* the call in progress, or the last one
          done,        \* words of it that have been read or written
          out,         \* what a read call has got so far
          status       \* "busy", or how the last call ended: "OK" or "failed"

memoryVars == <<fuses, pending, job, done, out, status>>

Jobs == [op : {"read", "write", "other"}, addr : Addrs, n : Nat, data : Seq(Words)]

Inside(j) ==
    /\ \A k \in 0..(j.n - 1) : j.addr + k \in Addrs
    /\ j.op = "write" => Len(j.data) = j.n

MemoryInit ==
    /\ fuses = [a \in Addrs |-> {}]
    /\ pending = {} /\ job \in Jobs /\ job.op = "other"
    /\ done = 0 /\ out = <<>> /\ status = "OK"

\* A call of no words is over at once.
StartJob ==
    /\ status # "busy"
    /\ job' \in Jobs /\ Inside(job')
    /\ done' = 0 /\ out' = <<>>
    /\ status' = IF job'.op # "other" /\ job'.n = 0 THEN "OK" ELSE "busy"
    /\ UNCHANGED <<fuses, pending>>

\* The write of the next word goes out, after any earlier one has ended.
StartWrite ==
    /\ status = "busy" /\ job.op = "write" /\ pending = {}
    /\ pending' = {<<job.addr + done, job.data[done + 1]>>}
    /\ UNCHANGED <<fuses, job, done, out, status>>

\* The write under way ends: its bits are programmed, or nothing is.
Land ==
    \E p \in pending :
        /\ \/ fuses' = [fuses EXCEPT ![p[1]] = @ \cup p[2]]
           \/ UNCHANGED fuses
        /\ pending' = {}
        /\ UNCHANGED <<job, done, out, status>>

\* One word more has been read or written.
CountWord ==
    /\ status = "busy" /\ pending = {} /\ done < job.n
    /\ \/ job.op = "read" /\ out' = Append(out, fuses[job.addr + done])
       \/ /\ job.op = "write" /\ fuses[job.addr + done] = job.data[done + 1]
          /\ UNCHANGED out
    /\ done' = done + 1
    /\ status' = IF done + 1 = job.n THEN "OK" ELSE "busy"
    /\ UNCHANGED <<fuses, pending, job>>

\* init and lock_partition come to their end.
EndOther ==
    /\ status = "busy" /\ job.op = "other"
    /\ status' = "OK"
    /\ UNCHANGED <<fuses, pending, job, done, out>>

\* A call gives up: an error or a timeout.
GiveUp ==
    /\ status = "busy"
    /\ status' = "failed"
    /\ UNCHANGED <<fuses, pending, job, done, out>>

MemoryNext == StartJob \/ StartWrite \/ Land \/ CountWord \/ EndOther \/ GiveUp

MemorySpec == MemoryInit /\ [][MemoryNext]_memoryVars
=============================================================================
