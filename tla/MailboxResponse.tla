--------------------------- MODULE MailboxResponse ---------------------------
(***************************************************************************)
(* CaliptraMailboxResponse as a C++ value: the object that owns the release *)
(* of a mailbox, moved between variables and McuResult storage and read     *)
(* word by word.  Slots stand for the places such an object can live in:    *)
(* Vars are plain variables (the local of finish_mailbox_resp, resp_opt of  *)
(* exec_mailbox_req_u32, a client's own), Results are McuResult storage     *)
(* whose has_value_ flag says whether an object is in it.  One response is  *)
(* made per mailbox: Bases are the mailbox base addresses.                  *)
(***************************************************************************)
EXTENDS Integers, Sequences

CONSTANTS Bases,        \* mailbox base addresses
          Vars,         \* variables of type CaliptraMailboxResponse
          Results,      \* McuResult objects that may hold one
          Dlens,        \* response lengths, in bytes
          Payload,      \* the words Caliptra answers with, 4 bytes each
          WORD_MOD      \* 2^32: checksum_ wraps at it

ASSUME ResponseAssumption ==
    /\ Vars \cap Results = {}
    /\ "none" \notin Bases
    /\ Dlens \subseteq Nat
    /\ Payload \in Seq([1..4 -> Nat]) /\ Len(Payload) > 0
    /\ WORD_MOD \in Nat \ {0}

Slots == Vars \cup Results
Word  == [1..4 -> Nat]

VARIABLES obj,       \* the object in each slot, or Empty
          writes,    \* per mailbox: how often its release was written
          made,      \* mailboxes whose response has been made
          lent,      \* results whose has_value_ value() && cleared, with the
                     \* object still in their storage
          forgotten, \* ghost: mailboxes whose owner was left in such storage
          got        \* ghost, per mailbox: words next() returned since reset()

vars == <<obj, writes, made, lent, forgotten, got>>

\* live: the slot holds an object.
Objects == [live : BOOLEAN, base : Bases \cup {"none"}, idx : Nat, len : Nat,
            sum : 0..(WORD_MOD - 1), released : BOOLEAN]
Empty   == [live |-> FALSE, base |-> "none", idx |-> 0, len |-> 0, sum |-> 0,
            released |-> FALSE]

Live(s)  == obj[s].live
Owner(s) == Live(s) /\ ~obj[s].released

\* has_value_ of a result.
HasValue(r) == Live(r) /\ r \notin lent

TypeOK ==
    /\ obj \in [Slots -> Objects]
    /\ writes \in [Bases -> Nat]
    /\ made \subseteq Bases
    /\ lent \subseteq Results
    /\ forgotten \subseteq Bases
    /\ got \in [Bases -> Seq(Word)]

Init ==
    /\ obj = [s \in Slots |-> Empty]
    /\ writes = [b \in Bases |-> 0]
    /\ made = {} /\ lent = {} /\ forgotten = {}
    /\ got = [b \in Bases |-> <<>>]

----------------------------------------------------------------------------
\* Special members of CaliptraMailboxResponse.

New(b, n) == [live |-> TRUE, base |-> b, idx |-> 0, len |-> n, sum |-> 0,
              released |-> FALSE]

\* Nothing reads the fields of a moved-from object but released_.
MovedFrom(o) == [Empty EXCEPT !.live = o.live, !.base = o.base, !.released = TRUE]

\* What the destructor, or the start of a move assignment, does to the
\* release counts when the object in slot s goes away.
Releasing(s) ==
    IF Owner(s) THEN [writes EXCEPT ![obj[s].base] = @ + 1] ELSE writes

\* finish_mailbox_resp constructs the object.
Construct(v, b, n) ==
    /\ ~Live(v) /\ b \notin made
    /\ obj' = [obj EXCEPT ![v] = New(b, n)]
    /\ made' = made \cup {b}
    /\ UNCHANGED <<writes, lent, forgotten, got>>

\* Mutant: the moved-to object starts counting afresh.
MoveConstruct_drops_checksum(d, s) ==
    /\ d # s /\ ~Live(d) /\ Live(s)
    /\ obj' = [obj EXCEPT ![d] = [obj[s] EXCEPT !.sum = 0], ![s] = MovedFrom(@)]
    /\ UNCHANGED <<writes, made, lent, forgotten, got>>

MoveConstruct(d, s) ==
    /\ d # s /\ ~Live(d) /\ Live(s)
    /\ obj' = [obj EXCEPT ![d] = obj[s], ![s] = MovedFrom(@)]
    /\ UNCHANGED <<writes, made, lent, forgotten, got>>

\* Mutant: the source is not marked, so both objects release.
MoveAssign_keeps_source(d, s) ==
    /\ Live(d) /\ Live(s) /\ d # s
    /\ writes' = Releasing(d)
    /\ obj' = [obj EXCEPT ![d] = obj[s]]
    /\ UNCHANGED <<made, lent, forgotten, got>>

\* The target's own release comes first; assigning to itself does nothing.
MoveAssign(d, s) ==
    /\ Live(d) /\ Live(s)
    /\ IF d = s
       THEN UNCHANGED <<obj, writes>>
       ELSE /\ writes' = Releasing(d)
            /\ obj' = [obj EXCEPT ![d] = obj[s], ![s] = MovedFrom(@)]
    /\ UNCHANGED <<made, lent, forgotten, got>>

\* The destructor of a variable, or of a result with has_value_ set.
Destroy(v) ==
    /\ Live(v) /\ v \notin lent
    /\ writes' = Releasing(v)
    /\ obj' = [obj EXCEPT ![v] = Empty]
    /\ UNCHANGED <<made, lent, forgotten, got>>

----------------------------------------------------------------------------
\* McuResult around it.

Ok(r, v) ==
    /\ ~Live(r) /\ Live(v)
    /\ obj' = [obj EXCEPT ![r] = obj[v], ![v] = MovedFrom(@)]
    /\ UNCHANGED <<writes, made, lent, forgotten, got>>

\* The move constructor of a result that holds a value: the other drops its
\* has_value_ flag and never runs the destructor of what is left.
Take(d, r) ==
    /\ d # r /\ ~Live(d) /\ HasValue(r)
    /\ obj' = [obj EXCEPT ![d] = obj[r], ![r] = Empty]
    /\ UNCHANGED <<writes, made, lent, forgotten, got>>

\* unwrap() && of a result that holds a value moves it out; unwrap() of any
\* other spins for ever.
unwrap(v, r) == Take(v, r)

\* The default, a parameter passed by value, is destroyed when the result
\* holds a value and is moved out when it does not.
unwrap_or(v, r, default) ==
    /\ v # default /\ ~Live(v) /\ Live(default)
    /\ IF HasValue(r)
       THEN /\ obj' = [obj EXCEPT ![v] = obj[r], ![r] = Empty, ![default] = Empty]
            /\ writes' = Releasing(default)
       ELSE /\ obj' = [obj EXCEPT ![v] = obj[default], ![default] = Empty]
            /\ UNCHANGED writes
    /\ UNCHANGED <<made, lent, forgotten, got>>

\* value() && clears has_value_ and returns a reference to the object, which
\* stays where it is,
value(r) ==
    /\ HasValue(r)
    /\ lent' = lent \cup {r}
    /\ UNCHANGED <<obj, writes, made, forgotten, got>>

\* until the caller moves from the reference
MoveOut(v, r) ==
    /\ r \in lent /\ ~Live(v)
    /\ obj' = [obj EXCEPT ![v] = obj[r], ![r] = Empty]
    /\ lent' = lent \ {r}
    /\ UNCHANGED <<writes, made, forgotten, got>>

\* or the result is destroyed or assigned over: no destructor runs for it.
Forget(r) ==
    /\ r \in lent
    /\ obj' = [obj EXCEPT ![r] = Empty]
    /\ lent' = lent \ {r}
    /\ forgotten' = IF Owner(r) THEN forgotten \cup {obj[r].base} ELSE forgotten
    /\ UNCHANGED <<writes, made, got>>

\* operator=: the old value is destroyed, then the other's state is taken
\* over, an empty (error) result included; of a lent one nothing is taken,
\* which is Destroy(d).
ResultAssign(d, r) ==
    /\ d # r /\ HasValue(d) /\ r \notin lent
    /\ writes' = Releasing(d)
    /\ obj' = [obj EXCEPT ![d] = obj[r], ![r] = Empty]
    /\ UNCHANGED <<made, lent, forgotten, got>>

----------------------------------------------------------------------------
\* Reading.

WordCount(n) == (n + 3) \div 4

MBOX_LOCK    == 0
MBOX_DATAOUT == 16
RESP_MBOX_DATAOUT == 0

\* What a read at an offset of a mailbox whose lock is held returns; DATAOUT
\* gives the words of the payload in turn.
RegValue(off, i) ==
    IF off = MBOX_LOCK THEN <<1, 0, 0, 0>> ELSE Payload[i]

\* The bytes past the end of the last word are masked out.
Masked(w, n) == [k \in 1..4 |-> IF k <= n THEN w[k] ELSE 0]

ByteSum(w) == w[1] + w[2] + w[3] + w[4]

Remaining(n, i) == IF n - i * 4 > 4 THEN 4 ELSE n - i * 4

\* Word 0, the checksum, is kept by the object and not added to the sum.
NextFirst(v) ==
    /\ Owner(v)
    /\ obj[v].idx = 0 /\ WordCount(obj[v].len) > 0
    /\ obj' = [obj EXCEPT ![v].idx = 1]
    /\ got' = [got EXCEPT ![obj[v].base] = <<Payload[1]>>]
    /\ UNCHANGED <<writes, made, lent, forgotten>>

\* Mutant: the sum is kept in a wider integer.
NextWord_wide_sum(v) ==
    /\ Owner(v)
    /\ obj[v].idx \in 1..(WordCount(obj[v].len) - 1)
    /\ obj' = [obj EXCEPT ![v].idx = @ + 1,
              ![v].sum = @ + ByteSum(RegValue(RESP_MBOX_DATAOUT, obj[v].idx + 1))]
    /\ got' = [got EXCEPT ![obj[v].base] =
                  Append(@, RegValue(RESP_MBOX_DATAOUT, obj[v].idx + 1))]
    /\ UNCHANGED <<writes, made, lent, forgotten>>

NextWord(v) ==
    /\ Owner(v)
    /\ obj[v].idx \in 1..(WordCount(obj[v].len) - 1)
    /\ LET o == obj[v]
           w == Masked(RegValue(RESP_MBOX_DATAOUT, o.idx + 1), Remaining(o.len, o.idx))
       IN  /\ obj' = [obj EXCEPT ![v].idx = @ + 1, ![v].sum = (@ + ByteSum(w)) % WORD_MOD]
           /\ got' = [got EXCEPT ![o.base] = Append(@, w)]
    /\ UNCHANGED <<writes, made, lent, forgotten>>

Reset(v) ==
    /\ Owner(v)
    /\ obj' = [obj EXCEPT ![v].idx = 0, ![v].sum = 0]
    /\ got' = [got EXCEPT ![obj[v].base] = <<>>]
    /\ UNCHANGED <<writes, made, lent, forgotten>>

----------------------------------------------------------------------------

Next ==
    \/ \E v \in Vars, b \in Bases, n \in Dlens : Construct(v, b, n)
    \/ \E d, s \in Vars : MoveConstruct(d, s) \/ MoveAssign(d, s)
    \/ \E s \in Slots : Destroy(s)
    \/ \E r \in Results, v \in Vars : Ok(r, v)
    \/ \E d, r \in Results : Take(d, r) \/ ResultAssign(d, r)
    \/ \E v \in Vars, r \in Results : unwrap(v, r) \/ MoveOut(v, r)
    \/ \E r \in Results : value(r) \/ Forget(r)
    \/ \E v, default \in Vars, r \in Results : unwrap_or(v, r, default)
    \/ \E v \in Vars : NextFirst(v) \/ NextWord(v) \/ Reset(v)

Spec == Init /\ [][Next]_vars

----------------------------------------------------------------------------
\* Properties.

OneOwner == \A s, t \in Slots : Owner(s) /\ Owner(t) /\ obj[s].base = obj[t].base => s = t

\* Of a mailbox whose response was made: some object owns its release, or it
\* was released once, or its owner was forgotten, and one of these only.
Accounted(b) ==
    IF b \in made
    THEN \/ /\ writes[b] = 0 /\ b \notin forgotten
            /\ \E s \in Slots : Owner(s) /\ obj[s].base = b
         \/ /\ \/ writes[b] = 1 /\ b \notin forgotten
               \/ writes[b] = 0 /\ b \in forgotten
            /\ \A s \in Slots : Owner(s) => obj[s].base # b
    ELSE /\ writes[b] = 0 /\ b \notin forgotten
         /\ \A s \in Slots : Live(s) => obj[s].base # b

OwnedXorReleased == \A b \in Bases : Accounted(b)

\* A live object belongs to a mailbox whose response was made.
LiveIsMade == \A s \in Slots : Live(s) => obj[s].base \in made

\* However a response is moved, assigned over, wrapped and dropped, its
\* mailbox is released exactly once: until then exactly one object owns the
\* release, afterwards none does (released_ of the moves, has_value_ of
\* McuResult).  One way loses the release, value() && of a result whose
\* reference is never moved from; exec_mailbox_req_u32, the one user, moves
\* from it in the same expression.
ReleaseExactlyOnce == OneOwner /\ OwnedXorReleased

\* Sum of the bytes of the words after the first.
SumOfTail(ws) ==
    LET f[n \in Nat] == IF n <= 1 THEN 0 ELSE f[n - 1] + ByteSum(ws[n])
    IN  f[Len(ws)]

\* The object that owns a response has read as many words as were handed out
\* since reset(), and its checksum_ is the sum of the bytes of those words but
\* the first, modulo the word size: the iteration survives every move.
ChecksumOfWordsReturned ==
    \A s \in Slots : Owner(s) =>
        LET ws == got[obj[s].base]
        IN  /\ obj[s].idx = Len(ws)
            /\ obj[s].sum = SumOfTail(ws) % WORD_MOD

\* "Read next word from response": next() hands out the words Caliptra
\* answered with, bytes past the end of the response masked out.
NextReadsResponse ==
    \A s \in Slots : Owner(s) =>
        \A i \in 2..Len(got[obj[s].base]) :
            got[obj[s].base][i] = Masked(Payload[i], Remaining(obj[s].len, i - 1))
=============================================================================
