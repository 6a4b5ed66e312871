------------------------ MODULE MailboxResponseProofs ------------------------
(***************************************************************************)
(* Proofs that a response releases its mailbox exactly once and that its    *)
(* checksum is that of the words it returned, for any number of mailboxes,  *)
(* variables and results and any response length.  ReleaseInv adds to       *)
(* ReleaseExactlyOnce the types of the slots and that a live object belongs *)
(* to a mailbox whose response was made; ChecksumInv adds what each object  *)
(* has read.  The sum is a recursive function: that it is one, and what it  *)
(* is of a longer sequence, is shown by induction in the form of sets of    *)
(* naturals that have a least element.                                      *)
(***************************************************************************)
EXTENDS MailboxResponse, WellFoundedInduction, TLAPS

SlotsOK ==
    /\ obj \in [Slots -> Objects]
    /\ writes \in [Bases -> Nat]
    /\ made \subseteq Bases
    /\ lent \subseteq Results
    /\ forgotten \subseteq Bases

ReleaseInv == SlotsOK /\ LiveIsMade /\ ReleaseExactlyOnce

\* The checksum stays within its word.
LEMMA ZeroSum == 0 \in 0..(WORD_MOD - 1) /\ 0 \in Nat
BY ResponseAssumption

\* A sum of bytes wraps into the word.
LEMMA ModType ==
    ASSUME NEW x \in Nat, NEW y \in Nat PROVE (x + y) % WORD_MOD \in 0..(WORD_MOD - 1)
<1>1. x + y \in Nat /\ WORD_MOD \in Nat \ {0}
  BY ResponseAssumption
<1> QED BY <1>1

\* No slot holds an object at first.
LEMMA InitRelease == Init => ReleaseInv
<1> SUFFICES ASSUME Init PROVE ReleaseInv
  OBVIOUS
<1>1. Empty \in Objects
  BY ResponseAssumption DEF Empty, Objects
<1>2. \A s \in Slots : obj[s] = Empty /\ ~Live(s) /\ ~Owner(s)
  BY DEF Init, Live, Owner, Empty
<1>3. SlotsOK
  BY <1>1 DEF Init, SlotsOK
<1>4. LiveIsMade
  BY <1>2 DEF LiveIsMade
<1>5. OneOwner /\ OwnedXorReleased
  BY <1>2 DEF Init, OneOwner, OwnedXorReleased, Accounted
<1> QED BY <1>3, <1>4, <1>5 DEF ReleaseInv, ReleaseExactlyOnce

\* The object of a live slot belongs to a mailbox.
LEMMA LiveBase ==
    ASSUME ReleaseInv, NEW s \in Slots, Live(s)
    PROVE  obj[s].base \in Bases /\ obj[s].base \in made
BY DEF ReleaseInv, LiveIsMade, SlotsOK

\* Reading and rewinding change neither who owns a release nor the counts.
LEMMA ReadRelease ==
    ASSUME ReleaseInv, NEW v \in Vars, NextFirst(v) \/ NextWord(v) \/ Reset(v)
    PROVE  ReleaseInv'
<1>1. UNCHANGED <<writes, made, lent, forgotten>>
  BY DEF NextFirst, NextWord, Reset
<1>2. v \in Slots /\ obj[v] \in Objects
  BY DEF Slots, ReleaseInv, SlotsOK
<1>3. PICK i \in Nat, c \in 0..(WORD_MOD - 1) :
        obj' = [obj EXCEPT ![v] = [obj[v] EXCEPT !.idx = i, !.sum = c]]
  <2>1. CASE NextFirst(v)
    <3>1. obj[v].sum \in 0..(WORD_MOD - 1)
      BY <1>2 DEF Objects
    <3>2. obj' = [obj EXCEPT ![v] = [obj[v] EXCEPT !.idx = 1, !.sum = obj[v].sum]]
      BY <1>2, <2>1 DEF NextFirst, Objects, ReleaseInv, SlotsOK
    <3> QED BY <3>1, <3>2
  <2>2. CASE NextWord(v)
    <3> DEFINE w == Masked(RegValue(RESP_MBOX_DATAOUT, obj[v].idx + 1),
                           Remaining(obj[v].len, obj[v].idx))
               c == (obj[v].sum + ByteSum(w)) % WORD_MOD
    <3>1. c \in 0..(WORD_MOD - 1)
      <4>1. RegValue(RESP_MBOX_DATAOUT, obj[v].idx + 1) = <<1, 0, 0, 0>>
        BY DEF RegValue, RESP_MBOX_DATAOUT, MBOX_LOCK
      <4>2. ByteSum(w) \in Nat
        BY <4>1 DEF ByteSum, Masked
      <4>3. obj[v].sum \in Nat
        BY <1>2, ResponseAssumption DEF Objects
      <4> HIDE DEF w
      <4> QED BY <4>2, <4>3, ModType
    <3>2. obj' = [obj EXCEPT ![v].idx = @ + 1, ![v].sum = (@ + ByteSum(w)) % WORD_MOD]
      BY <2>2 DEF NextWord
    <3> HIDE DEF w
    <3>3. obj' = [obj EXCEPT ![v] = [obj[v] EXCEPT !.idx = obj[v].idx + 1, !.sum = c]]
      BY <1>2, <3>2 DEF Objects, ReleaseInv, SlotsOK
    <3>4. obj[v].idx + 1 \in Nat
      BY <1>2 DEF Objects
    <3> QED BY <3>1, <3>3, <3>4
  <2>3. CASE Reset(v)
    <3>1. obj' = [obj EXCEPT ![v] = [obj[v] EXCEPT !.idx = 0, !.sum = 0]]
      BY <1>2, <2>3 DEF Reset, Objects, ReleaseInv, SlotsOK
    <3> QED BY <3>1, ZeroSum
  <2> QED BY <2>1, <2>2, <2>3
<1>4. [obj[v] EXCEPT !.idx = i, !.sum = c] \in Objects
  BY <1>2 DEF Objects
<1>5. obj' \in [Slots -> Objects]
  BY <1>3, <1>4 DEF ReleaseInv, SlotsOK
<1>6. \A s \in Slots : /\ obj'[s].live = obj[s].live /\ obj'[s].base = obj[s].base
                       /\ obj'[s].released = obj[s].released
  BY <1>2, <1>3 DEF ReleaseInv, SlotsOK, Objects
<1> QED BY <1>1, <1>5, <1>6 DEF ReleaseInv, SlotsOK, LiveIsMade, ReleaseExactlyOnce,
          OneOwner, OwnedXorReleased, Accounted, Live, Owner

\* finish_mailbox_resp makes the response of a mailbox that has none yet.
LEMMA ConstructRelease ==
    ASSUME ReleaseInv, NEW v \in Vars, NEW b \in Bases, NEW n \in Dlens, Construct(v, b, n)
    PROVE  ReleaseInv'
<1> DEFINE o == New(b, n)
<1>1. /\ v \in Slots /\ ~Live(v) /\ b \notin made /\ made' = made \cup {b}
      /\ obj' = [obj EXCEPT ![v] = o] /\ UNCHANGED <<writes, lent, forgotten>>
  BY DEF Construct, Slots
<1>2. o \in Objects /\ o.live = TRUE /\ o.base = b /\ o.released = FALSE
  <2>1. n \in Nat
    BY ResponseAssumption
  <2> QED BY <2>1, ZeroSum DEF New, Objects
<1> HIDE DEF o
<1>3. SlotsOK'
  BY <1>1, <1>2 DEF ReleaseInv, SlotsOK
<1>4. \A s \in Slots : /\ s # v => obj'[s] = obj[s] /\ Live(s)' = Live(s) /\ Owner(s)' = Owner(s)
                       /\ s = v => obj'[s] = o /\ Owner(s)' /\ Live(s)'
  BY <1>1, <1>2 DEF ReleaseInv, SlotsOK, Live, Owner
<1>5. LiveIsMade'
  BY <1>1, <1>2, <1>4 DEF ReleaseInv, LiveIsMade
<1>6. \A s \in Slots : Owner(s) => obj[s].base # b
  BY <1>1 DEF ReleaseInv, LiveIsMade, Owner
<1>7. OneOwner'
  BY <1>2, <1>4, <1>6 DEF ReleaseInv, ReleaseExactlyOnce, OneOwner
<1>8. OwnedXorReleased'
  <2> SUFFICES ASSUME NEW a \in Bases
               PROVE Accounted(a)'
    BY DEF OwnedXorReleased
  <2>0. Accounted(a)
    BY DEF ReleaseInv, ReleaseExactlyOnce, OwnedXorReleased
  <2>1. CASE a = b
    BY <1>1, <1>2, <1>4, <2>0, <2>1 DEF Accounted
  <2>2. CASE a # b /\ a \in made
    <3>1. a \in made' /\ writes'[a] = writes[a]
      BY <1>1, <2>2
    <3>2. CASE \E s \in Slots : Owner(s) /\ obj[s].base = a
      <4>1. PICK s \in Slots : Owner(s) /\ obj[s].base = a
        BY <3>2
      <4>2. s # v
        BY <1>1, <4>1 DEF Owner
      <4> QED BY <1>1, <1>4, <2>0, <2>2, <3>1, <4>1, <4>2 DEF Accounted
    <3>3. CASE \A s \in Slots : Owner(s) => obj[s].base # a
      <4>1. \A s \in Slots : Owner(s)' => obj'[s].base # a
        BY <1>2, <1>4, <2>2, <3>3
      <4> QED BY <1>1, <2>0, <2>2, <3>1, <3>3, <4>1 DEF Accounted
    <3> QED BY <3>2, <3>3
  <2>3. CASE a # b /\ a \notin made
    BY <1>1, <1>2, <1>4, <2>0, <2>3 DEF Accounted
  <2> QED BY <2>1, <2>2, <2>3
<1> QED BY <1>3, <1>5, <1>7, <1>8 DEF ReleaseInv, ReleaseExactlyOnce

\* A slot d loses what it held, and releases it if it owned the release.  Every
\* other owner of a release, and no one else, has a successor.
LEMMA ReleaseStep ==
    ASSUME ReleaseInv, NEW d \in Slots,
           obj' \in [Slots -> Objects], OneOwner',
           \A t \in Slots : Live(t)' =>
               \E u \in Slots : Live(u) /\ obj[u].base = obj'[t].base,
           \A t \in Slots : Owner(t)' =>
               \E u \in Slots \ {d} : Owner(u) /\ obj[u].base = obj'[t].base,
           \A u \in Slots \ {d} : Owner(u) =>
               \E t \in Slots : Owner(t)' /\ obj[u].base = obj'[t].base,
           writes' = Releasing(d), UNCHANGED <<made, forgotten>>, lent' \subseteq Results
    PROVE  ReleaseInv'
<1>1. Owner(d) => Live(d) /\ obj[d].base \in Bases
  BY LiveBase DEF Owner
<1>2. SlotsOK'
  BY <1>1 DEF ReleaseInv, SlotsOK, Releasing
<1>3. LiveIsMade'
  BY DEF ReleaseInv, LiveIsMade
<1>4. OwnedXorReleased'
  <2> SUFFICES ASSUME NEW a \in Bases
               PROVE Accounted(a)'
    BY DEF OwnedXorReleased
  <2>0. Accounted(a)
    BY DEF ReleaseInv, ReleaseExactlyOnce, OwnedXorReleased
  <2>1. CASE Owner(d) /\ obj[d].base = a
    <3>1. a \in made' /\ writes[a] = 0 /\ a \notin forgotten /\ writes'[a] = 1
      BY <2>0, <2>1, LiveBase DEF ReleaseInv, SlotsOK, Accounted, Releasing, Owner
    <3>2. \A t \in Slots : Owner(t) /\ obj[t].base = a => t = d
      BY <2>1 DEF ReleaseInv, ReleaseExactlyOnce, OneOwner
    <3>3. \A t \in Slots : Owner(t)' => obj'[t].base # a
      BY <3>2
    <3> QED BY <3>1, <3>3 DEF Accounted
  <2>2. CASE ~(Owner(d) /\ obj[d].base = a)
    <3>1. writes'[a] = writes[a]
      BY <1>1, <2>2 DEF ReleaseInv, SlotsOK, Releasing
    <3>2. CASE a \in made /\ \E t \in Slots : Owner(t) /\ obj[t].base = a
      <4>1. writes[a] = 0 /\ a \notin forgotten
        BY <2>0, <3>2 DEF Accounted
      <4>2. \E t \in Slots : Owner(t)' /\ obj'[t].base = a
        BY <2>2, <3>2
      <4> QED BY <3>1, <3>2, <4>1, <4>2 DEF Accounted
    <3>3. CASE a \in made /\ \A t \in Slots : Owner(t) => obj[t].base # a
      <4>1. \/ writes[a] = 1 /\ a \notin forgotten
            \/ writes[a] = 0 /\ a \in forgotten
        <5>1. ~\E t \in Slots : Owner(t) /\ obj[t].base = a
          BY <3>3
        <5> QED BY <2>0, <3>3, <5>1 DEF Accounted
      <4>2. \A t \in Slots : Owner(t)' => obj'[t].base # a
        BY <3>3
      <4> QED BY <3>1, <3>3, <4>1, <4>2 DEF Accounted
    <3>4. CASE a \notin made
      <4>1. writes'[a] = 0 /\ a \notin forgotten' /\ a \notin made'
        BY <2>0, <3>1, <3>4 DEF Accounted
      <4>2. \A t \in Slots : Live(t)' => obj'[t].base # a
        BY <2>0, <3>4 DEF Accounted
      <4> QED BY <4>1, <4>2 DEF Accounted
    <3> QED BY <3>2, <3>3, <3>4
  <2> QED BY <2>1, <2>2
<1> QED BY <1>2, <1>3, <1>4 DEF ReleaseInv, ReleaseExactlyOnce

\* A move: d takes over the object of s, and what is left in s owns nothing.
LEMMA MoveRelease ==
    ASSUME ReleaseInv, NEW d \in Slots, NEW s \in Slots, s # d,
           NEW o \in Objects, o.live => o.released /\ Live(s) /\ o.base = obj[s].base,
           obj' = [obj EXCEPT ![d] = obj[s], ![s] = o],
           writes' = Releasing(d), UNCHANGED <<made, forgotten>>, lent' \subseteq Results
    PROVE  ReleaseInv'
<1>1. obj \in [Slots -> Objects]
  BY DEF ReleaseInv, SlotsOK
<1>2. obj' \in [Slots -> Objects] /\ obj'[d] = obj[s] /\ obj'[s] = o
  BY <1>1
<1>3. \A t \in Slots \ {d, s} : obj'[t] = obj[t]
  BY <1>1
<1>4. OneOwner'
  BY <1>2, <1>3 DEF ReleaseInv, ReleaseExactlyOnce, OneOwner, Owner, Live
<1>5. \A t \in Slots : Live(t)' => \E u \in Slots : Live(u) /\ obj[u].base = obj'[t].base
  BY <1>2, <1>3 DEF Live
<1>6. \A t \in Slots : Owner(t)' =>
        \E u \in Slots \ {d} : Owner(u) /\ obj[u].base = obj'[t].base
  BY <1>2, <1>3 DEF Owner, Live
<1>7. \A u \in Slots \ {d} : Owner(u) =>
        \E t \in Slots : Owner(t)' /\ obj[u].base = obj'[t].base
  BY <1>2, <1>3 DEF Owner, Live
<1> QED BY <1>2, <1>4, <1>5, <1>6, <1>7, ReleaseStep

\* A moved-from object owns nothing; neither does an empty slot.
LEMMA Leftovers ==
    ASSUME NEW o \in Objects
    PROVE  /\ MovedFrom(o) \in Objects /\ MovedFrom(o).released
           /\ MovedFrom(o).base = o.base /\ MovedFrom(o).live = o.live
           /\ Empty \in Objects /\ ~Empty.live
BY ZeroSum DEF MovedFrom, Objects, Empty

\* Nothing is released when the slot moved into was not in use.
LEMMA NothingReleased == ASSUME NEW d \in Slots, ~Live(d) PROVE Releasing(d) = writes
BY DEF Releasing, Owner

\* A destroyed object releases its mailbox if it still owned the release.
LEMMA DestroyRelease ==
    ASSUME ReleaseInv, NEW d \in Slots, Destroy(d) PROVE ReleaseInv'
<1>1. obj \in [Slots -> Objects] /\ Empty \in Objects /\ ~Empty.live
  BY Leftovers DEF ReleaseInv, SlotsOK
<1>2. /\ obj' \in [Slots -> Objects] /\ obj'[d] = Empty
      /\ writes' = Releasing(d) /\ UNCHANGED <<made, forgotten>> /\ lent' \subseteq Results
  BY <1>1 DEF Destroy, ReleaseInv, SlotsOK
<1>3. \A t \in Slots \ {d} : obj'[t] = obj[t]
  BY <1>1 DEF Destroy
<1>4. OneOwner'
  BY <1>1, <1>2, <1>3 DEF ReleaseInv, ReleaseExactlyOnce, OneOwner, Owner, Live
<1>5. \A t \in Slots : Live(t)' => \E u \in Slots : Live(u) /\ obj[u].base = obj'[t].base
  BY <1>1, <1>2, <1>3 DEF Live
<1>6. \A t \in Slots : Owner(t)' =>
        \E u \in Slots \ {d} : Owner(u) /\ obj[u].base = obj'[t].base
  BY <1>1, <1>2, <1>3 DEF Owner, Live
<1>7. \A u \in Slots \ {d} : Owner(u) =>
        \E t \in Slots : Owner(t)' /\ obj[u].base = obj'[t].base
  BY <1>3 DEF Owner, Live
<1> QED BY <1>2, <1>4, <1>5, <1>6, <1>7, ReleaseStep

\* A reference that value() handed out is dropped: its object goes away without
\* a release, and if it owned one its mailbox counts as forgotten.
LEMMA ForgetRelease ==
    ASSUME ReleaseInv, NEW r \in Results, Forget(r) PROVE ReleaseInv'
<1>1. /\ r \in Slots /\ obj \in [Slots -> Objects] /\ Empty \in Objects /\ ~Empty.live
  BY Leftovers DEF ReleaseInv, SlotsOK, Slots
<1>2. /\ obj' \in [Slots -> Objects] /\ obj'[r] = Empty /\ UNCHANGED <<writes, made>>
      /\ \A t \in Slots \ {r} : obj'[t] = obj[t]
  BY <1>1 DEF Forget
<1>3. Owner(r) => obj[r].base \in Bases /\ obj[r].base \in made
  BY <1>1, LiveBase DEF Owner
<1>4. SlotsOK'
  BY <1>2, <1>3 DEF Forget, ReleaseInv, SlotsOK
<1>5. LiveIsMade' /\ OneOwner'
  BY <1>1, <1>2 DEF ReleaseInv, ReleaseExactlyOnce, OneOwner, LiveIsMade, Owner, Live
<1>6. OwnedXorReleased'
  <2> SUFFICES ASSUME NEW a \in Bases PROVE Accounted(a)'
    BY DEF OwnedXorReleased
  <2>1. Accounted(a)
    BY DEF ReleaseInv, ReleaseExactlyOnce, OwnedXorReleased
  <2>2. CASE Owner(r) /\ obj[r].base = a
    <3>1. a \in made /\ writes[a] = 0 /\ a \in forgotten'
      BY <1>1, <1>3, <2>1, <2>2 DEF Accounted, Forget
    <3>2. \A t \in Slots : Owner(t)' => obj'[t].base # a
      BY <1>1, <1>2, <2>2 DEF ReleaseInv, ReleaseExactlyOnce, OneOwner, Owner, Live
    <3> QED BY <1>2, <3>1, <3>2 DEF Accounted
  <2>3. CASE ~(Owner(r) /\ obj[r].base = a)
    <3>1. (a \in forgotten') = (a \in forgotten)
      BY <2>3 DEF Forget
    <3>2. \A t \in Slots : Owner(t)' => Owner(t) /\ obj'[t].base = obj[t].base
      BY <1>1, <1>2 DEF Owner, Live
    <3>3. \A t \in Slots : Owner(t) /\ obj[t].base = a => Owner(t)' /\ obj'[t].base = a
      BY <1>2, <2>3 DEF Owner, Live
    <3>4. \A t \in Slots : Live(t)' => Live(t) /\ obj'[t].base = obj[t].base
      BY <1>1, <1>2 DEF Live
    <3> QED BY <1>2, <2>1, <3>1, <3>2, <3>3, <3>4 DEF Accounted
  <2> QED BY <2>2, <2>3
<1> QED BY <1>4, <1>5, <1>6 DEF ReleaseInv, ReleaseExactlyOnce

\* value() moves nothing yet.
LEMMA ValueRelease == ASSUME ReleaseInv, NEW r \in Results, value(r) PROVE ReleaseInv'
BY DEF value, ReleaseInv, SlotsOK, LiveIsMade, ReleaseExactlyOnce, OneOwner,
       OwnedXorReleased, Accounted, Owner, Live

\* The moves between variables, and the moves in and out of a result.
LEMMA MovesRelease ==
    ASSUME ReleaseInv, NEW d \in Slots, NEW s \in Slots,
           \/ MoveConstruct(d, s) \/ MoveAssign(d, s) \/ Take(d, s) \/ ResultAssign(d, s)
           \/ (Ok(d, s) \/ MoveOut(d, s)) /\ d # s
    PROVE  ReleaseInv'
<1>1. obj[s] \in Objects /\ lent \subseteq Results
  BY DEF ReleaseInv, SlotsOK
<1>2. CASE MoveConstruct(d, s) \/ (Ok(d, s) /\ d # s)
  BY <1>1, <1>2, Leftovers, NothingReleased, MoveRelease DEF MoveConstruct, Ok, Live
<1>3. CASE MoveAssign(d, s) /\ d # s
  BY <1>1, <1>3, Leftovers, MoveRelease DEF MoveAssign, Live
<1>4. CASE MoveAssign(d, s) /\ d = s
  BY <1>4 DEF MoveAssign, ReleaseInv, SlotsOK, LiveIsMade, ReleaseExactlyOnce, OneOwner,
              OwnedXorReleased, Accounted, Owner, Live
<1>5. CASE Take(d, s) \/ (MoveOut(d, s) /\ d # s)
  BY <1>1, <1>5, Leftovers, NothingReleased, MoveRelease DEF Take, MoveOut
<1>6. CASE ResultAssign(d, s)
  BY <1>1, <1>6, Leftovers, MoveRelease DEF ResultAssign
<1> QED BY <1>2, <1>3, <1>4, <1>5, <1>6

\* unwrap_or hands out the value and destroys the default, or hands out the
\* default.
LEMMA UnwrapOrRelease ==
    ASSUME ReleaseInv, NEW v \in Vars, NEW r \in Results, NEW default \in Vars,
           unwrap_or(v, r, default)
    PROVE  ReleaseInv'
<1>1. /\ v \in Slots /\ r \in Slots /\ default \in Slots
      /\ v # r /\ r # default /\ v # default /\ ~Live(v)
      /\ UNCHANGED <<made, forgotten>> /\ lent' \subseteq Results
  BY ResponseAssumption DEF Slots, unwrap_or, ReleaseInv, SlotsOK
<1>2. obj \in [Slots -> Objects] /\ Empty \in Objects /\ ~Empty.live
  BY <1>1, Leftovers DEF ReleaseInv, SlotsOK
<1>3. CASE HasValue(r)
  <2>1. /\ obj' = [obj EXCEPT ![v] = obj[r], ![r] = Empty, ![default] = Empty]
        /\ writes' = Releasing(default)
    BY <1>3 DEF unwrap_or
  <2>2. /\ obj' \in [Slots -> Objects] /\ obj'[v] = obj[r]
        /\ obj'[r] = Empty /\ obj'[default] = Empty
    BY <1>1, <1>2, <2>1
  <2>3. \A t \in Slots \ {v, r, default} : obj'[t] = obj[t]
    BY <1>1, <1>2, <2>1
  <2>4. OneOwner'
    BY <1>1, <1>2, <2>2, <2>3 DEF ReleaseInv, ReleaseExactlyOnce, OneOwner, Owner, Live
  <2>5. \A t \in Slots : Live(t)' => \E u \in Slots : Live(u) /\ obj[u].base = obj'[t].base
    BY <1>1, <1>2, <2>2, <2>3 DEF Live
  <2>6. \A t \in Slots : Owner(t)' =>
          \E u \in Slots \ {default} : Owner(u) /\ obj[u].base = obj'[t].base
    BY <1>1, <1>2, <2>2, <2>3 DEF Owner, Live
  <2>7. \A u \in Slots \ {default} : Owner(u) =>
          \E t \in Slots : Owner(t)' /\ obj[u].base = obj'[t].base
    BY <1>1, <2>2, <2>3 DEF Owner, Live
  <2> QED BY <1>1, <2>1, <2>2, <2>4, <2>5, <2>6, <2>7, ReleaseStep
<1>4. CASE ~HasValue(r)
  <2>1. /\ obj' = [obj EXCEPT ![v] = obj[default], ![default] = Empty]
        /\ writes' = Releasing(v)
    BY <1>1, <1>4, NothingReleased DEF unwrap_or
  <2> QED BY <1>1, <1>2, <2>1, MoveRelease
<1> QED BY <1>3, <1>4

\* ReleaseInv is inductive.
LEMMA ReleaseInductive == ReleaseInv /\ [Next]_vars => ReleaseInv'
<1> SUFFICES ASSUME ReleaseInv, [Next]_vars PROVE ReleaseInv'
  OBVIOUS
<1>1. Vars \subseteq Slots /\ Results \subseteq Slots
  BY DEF Slots
<1>2. \A r \in Results, v \in Vars : r # v
  BY ResponseAssumption
<1>3. CASE UNCHANGED vars
  BY <1>3 DEF vars, ReleaseInv, SlotsOK, LiveIsMade, ReleaseExactlyOnce, OneOwner,
              OwnedXorReleased, Accounted, Owner, Live
<1>4. CASE Next
  BY <1>1, <1>2, <1>4, ConstructRelease, DestroyRelease, MovesRelease, UnwrapOrRelease,
     ValueRelease, ForgetRelease, ReadRelease DEF Next, unwrap
<1> QED BY <1>3, <1>4

\* However a response is moved, wrapped in results, assigned over and dropped,
\* its mailbox is released once and only once: released_ and has_value_ hand
\* the duty from object to object.  Only a reference of value() && that is
\* dropped unmoved loses it.
THEOREM ReleasedExactlyOnce == Spec => []ReleaseExactlyOnce
<1>1. ReleaseInv => ReleaseExactlyOnce
  BY DEF ReleaseInv
<1> QED BY <1>1, InitRelease, ReleaseInductive, PTL DEF Spec

\* A word, masked or not, is four bytes.
LEMMA WordType ==
    ASSUME NEW i, NEW n PROVE Masked(RegValue(RESP_MBOX_DATAOUT, i), n) \in Word
<1>1. RegValue(RESP_MBOX_DATAOUT, i) = <<1, 0, 0, 0>>
  BY DEF RegValue, RESP_MBOX_DATAOUT, MBOX_LOCK
<1>2. \A k \in 1..4 : <<1, 0, 0, 0>>[k] \in Nat
  OBVIOUS
<1> QED BY <1>1, <1>2 DEF Masked, Word

GotOK == got \in [Bases -> Seq(Word)]

\* Only reading and rewinding touch the record of the words handed out.
LEMMA GotInductive == ReleaseInv /\ GotOK /\ [Next]_vars => GotOK'
<1> SUFFICES ASSUME ReleaseInv, GotOK, [Next]_vars PROVE GotOK'
  OBVIOUS
<1>1. CASE got' = got
  BY <1>1 DEF GotOK
<1>2. ASSUME NEW v \in Vars, NextFirst(v) \/ NextWord(v) \/ Reset(v) PROVE GotOK'
  <2>1. obj[v].base \in Bases
    BY <1>2, LiveBase DEF NextFirst, NextWord, Reset, Owner, Slots
  <2>2. CASE NextFirst(v)
    <3>1. Payload[1] \in Word
      BY ResponseAssumption DEF Word
    <3> QED BY <2>1, <2>2, <3>1 DEF NextFirst, GotOK
  <2>3. CASE NextWord(v)
    <3>1. PICK w \in Word : got' = [got EXCEPT ![obj[v].base] = Append(@, w)]
      BY <2>3, WordType DEF NextWord
    <3>2. Append(got[obj[v].base], w) \in Seq(Word)
      BY <2>1, <3>1 DEF GotOK
    <3> QED BY <2>1, <3>1, <3>2 DEF GotOK
  <2>4. CASE Reset(v)
    BY <2>1, <2>4 DEF Reset, GotOK
  <2> QED BY <1>2, <2>2, <2>3, <2>4
<1>3. CASE UNCHANGED vars
  BY <1>1, <1>3 DEF vars
<1>4. CASE Next
  BY <1>1, <1>2, <1>4 DEF Next, Construct, MoveConstruct, MoveAssign, Destroy, Ok, Take,
                          ResultAssign, unwrap, unwrap_or, value, MoveOut, Forget
<1> QED BY <1>3, <1>4

\* Objects, counters and checksum_ keep their types: checksum_ never leaves its
\* 32 bits.
THEOREM ResponseTypes == Spec => []TypeOK
<1>1. Init => GotOK
  BY DEF Init, GotOK
<1>2. ReleaseInv /\ GotOK => TypeOK
  BY DEF ReleaseInv, SlotsOK, GotOK, TypeOK
<1> QED BY <1>1, <1>2, InitRelease, ReleaseInductive, GotInductive, PTL DEF Spec

----------------------------------------------------------------------------
\* The checksum.  SumOfTail is a recursive function, and its properties take an
\* induction; the well-foundedness of < on Nat gives the induction principle for
\* sets.

\* A set of naturals that is not empty has a least element.
LEMMA LeastNatural ==
    ASSUME NEW T, T \subseteq Nat, T # {}
    PROVE  \E x \in T : \A y \in T : x <= y
<1> DEFINE R == {ss \in Nat \X Nat : ss[1] < ss[2]}
<1>1. IsWellFoundedOn(R, Nat)
  BY NatLessThanWellFounded DEF OpToRel
<1>2. \E x \in T : \A y \in T : ~(<<y, x>> \in R)
  BY <1>1, WFMin
<1>3. \A x \in T, y \in T : <<y, x>> \notin R => ~(y < x)
  OBVIOUS
<1>4. \A x \in T, y \in T : ~(y < x) => x <= y
  OBVIOUS
<1> HIDE DEF R
<1> QED BY <1>2, <1>3, <1>4

\* Induction over the naturals.
LEMMA SetInduction ==
    ASSUME NEW S, 0 \in S, \A n \in Nat : n \in S => n + 1 \in S
    PROVE  Nat \subseteq S
<1> SUFFICES ASSUME Nat \ S # {} PROVE FALSE
  OBVIOUS
<1>1. PICK x \in Nat \ S : \A y \in Nat \ S : x <= y
  BY LeastNatural
<1>2. x # 0 /\ x - 1 \in Nat /\ x - 1 \in S
  BY <1>1
<1> QED BY <1>1, <1>2

\* The recursion of SumOfTail over the numbers up to n.
Partial(B, n, g) == g = [i \in 0..n |-> IF i <= 1 THEN 0 ELSE g[i - 1] + B[i]]

\* The equation at one number.
LEMMA PartialValues ==
    ASSUME NEW B, NEW n \in Nat, NEW g, Partial(B, n, g)
    PROVE  \A i \in 0..n : g[i] = IF i <= 1 THEN 0 ELSE g[i - 1] + B[i]
  BY DEF Partial

\* The equations have one solution.
LEMMA PartialUnique ==
    ASSUME NEW B, NEW n \in Nat, NEW m \in Nat, NEW g, NEW h,
           Partial(B, n, g), Partial(B, m, h), m <= n
    PROVE  \A i \in 0..m : g[i] = h[i]
<1> DEFINE S == {i \in Nat : i <= m => g[i] = h[i]}
<1>1. /\ \A i \in 0..n : g[i] = IF i <= 1 THEN 0 ELSE g[i - 1] + B[i]
      /\ \A i \in 0..m : h[i] = IF i <= 1 THEN 0 ELSE h[i - 1] + B[i]
  BY PartialValues
<1>2. 0 \in S
  BY <1>1
<1>3. ASSUME NEW i \in Nat, i \in S PROVE i + 1 \in S
  <2>1. CASE i + 1 <= m
    <3>1. i + 1 \in 0..m /\ i + 1 \in 0..n /\ (i + 1) - 1 = i /\ g[i] = h[i]
      BY <1>3, <2>1
    <3>2. g[i + 1] = IF i + 1 <= 1 THEN 0 ELSE g[i] + B[i + 1]
      BY <1>1, <3>1
    <3>3. h[i + 1] = IF i + 1 <= 1 THEN 0 ELSE h[i] + B[i + 1]
      BY <1>1, <3>1
    <3> QED BY <3>1, <3>2, <3>3
  <2> QED BY <2>1
<1> HIDE DEF S
<1>4. Nat \subseteq S
  BY <1>2, <1>3, SetInduction
<1> QED BY <1>4 DEF S

\* They have one.
LEMMA PartialExists ==
    ASSUME NEW B PROVE \A n \in Nat : \E g : Partial(B, n, g)
<1> DEFINE S == {n \in Nat : \E g : Partial(B, n, g)}
<1>1. 0 \in S
  <2>1. Partial(B, 0, [i \in 0..0 |-> 0])
    BY DEF Partial
  <2> QED BY <2>1
<1>2. ASSUME NEW n \in Nat, n \in S PROVE n + 1 \in S
  <2>1. PICK g : Partial(B, n, g)
    BY <1>2
  <2> DEFINE last == IF n + 1 <= 1 THEN 0 ELSE g[n] + B[n + 1]
             h == [i \in 0..(n + 1) |-> IF i = n + 1 THEN last ELSE g[i]]
  <2>2. \A i \in 0..n : h[i] = g[i]
    OBVIOUS
  <2>3. \A i \in 0..n : g[i] = IF i <= 1 THEN 0 ELSE g[i - 1] + B[i]
    BY <2>1, PartialValues
  <2>4. \A i \in 0..n : h[i] = IF i <= 1 THEN 0 ELSE h[i - 1] + B[i]
    <3> TAKE i \in 0..n
    <3>1. CASE i <= 1
      BY <2>2, <2>3, <3>1
    <3>2. CASE ~(i <= 1)
      <4>1. i - 1 \in 0..n
        BY <3>2
      <4> HIDE DEF h
      <4> QED BY <2>2, <2>3, <3>2, <4>1
    <3> QED BY <3>1, <3>2
  <2>5. h[n + 1] = IF n + 1 <= 1 THEN 0 ELSE g[n] + B[n + 1]
    OBVIOUS
  <2>6. h[n + 1] = IF n + 1 <= 1 THEN 0 ELSE h[(n + 1) - 1] + B[n + 1]
    <3>1. (n + 1) - 1 = n /\ n \in 0..n
      OBVIOUS
    <3> HIDE DEF h
    <3> QED BY <2>2, <2>5, <3>1
  <2>7. \A i \in 0..(n + 1) : h[i] = IF i <= 1 THEN 0 ELSE h[i - 1] + B[i]
    <3>1. \A i \in 0..(n + 1) : i \in 0..n \/ i = n + 1
      OBVIOUS
    <3> HIDE DEF h
    <3> QED BY <2>4, <2>6, <3>1
  <2>8. h = [i \in 0..(n + 1) |-> h[i]]
    OBVIOUS
  <2> HIDE DEF h
  <2>9. Partial(B, n + 1, h)
    BY <2>7, <2>8 DEF Partial
  <2> QED BY <2>9
<1> HIDE DEF S
<1>3. Nat \subseteq S
  BY <1>1, <1>2, SetInduction
<1> QED BY <1>3 DEF S

\* So has the recursion over all naturals.
LEMMA SumsExist ==
    ASSUME NEW B
    PROVE  \E F : F = [n \in Nat |-> IF n <= 1 THEN 0 ELSE F[n - 1] + B[n]]
<1> DEFINE P(n) == CHOOSE g : Partial(B, n, g)
           F == [n \in Nat |-> P(n)[n]]
<1>1. \A n \in Nat : Partial(B, n, P(n))
  BY PartialExists
<1> HIDE DEF P
<1>2. ASSUME NEW n \in Nat PROVE F[n] = IF n <= 1 THEN 0 ELSE F[n - 1] + B[n]
  <2>1. F[n] = P(n)[n]
    OBVIOUS
  <2>2. P(n)[n] = IF n <= 1 THEN 0 ELSE P(n)[n - 1] + B[n]
    BY <1>1, PartialValues
  <2>3. CASE n > 1
    <3>1. n - 1 \in Nat /\ n - 1 <= n /\ n - 1 \in 0..(n - 1)
      BY <2>3
    <3>2. P(n)[n - 1] = P(n - 1)[n - 1]
      BY <1>1, <3>1, PartialUnique
    <3>3. F[n - 1] = P(n - 1)[n - 1]
      BY <3>1
    <3> HIDE DEF F
    <3> QED BY <2>1, <2>2, <3>2, <3>3
  <2>4. CASE n <= 1
    BY <2>1, <2>2, <2>4
  <2> QED BY <2>3, <2>4
<1>3. F = [n \in Nat |-> F[n]]
  OBVIOUS
<1> HIDE DEF F
<1>4. F = [n \in Nat |-> IF n <= 1 THEN 0 ELSE F[n - 1] + B[n]]
  BY <1>2, <1>3
<1> QED BY <1>4

\* The function SumOfTail defines.
Sums(ws) == CHOOSE f : f = [n \in Nat |-> IF n <= 1 THEN 0 ELSE f[n - 1] + ByteSum(ws[n])]

\* SumOfTail is its value at the length of the sequence.
LEMMA SumIsSums == ASSUME NEW ws PROVE SumOfTail(ws) = Sums(ws)[Len(ws)]
  BY DEF SumOfTail, Sums

\* It satisfies its equation.
LEMMA SumsValues ==
    ASSUME NEW ws
    PROVE  \A n \in Nat : Sums(ws)[n] = IF n <= 1 THEN 0 ELSE Sums(ws)[n - 1] + ByteSum(ws[n])
<1> DEFINE B == [n \in Nat |-> ByteSum(ws[n])]
<1>1. PICK F : F = [n \in Nat |-> IF n <= 1 THEN 0 ELSE F[n - 1] + B[n]]
  <2> HIDE DEF B
  <2> QED BY SumsExist
<1>2. \A n \in Nat : B[n] = ByteSum(ws[n])
  OBVIOUS
<1> HIDE DEF B
<1>3. F = [n \in Nat |-> IF n <= 1 THEN 0 ELSE F[n - 1] + ByteSum(ws[n])]
  BY <1>1, <1>2
<1>4. Sums(ws) = [n \in Nat |-> IF n <= 1 THEN 0 ELSE Sums(ws)[n - 1] + ByteSum(ws[n])]
  BY <1>3, Zenon DEF Sums
<1> QED BY <1>4

\* The sum up to n depends on the first n words only.
LEMMA SumsAgree ==
    ASSUME NEW ws, NEW vs, NEW m \in Nat, \A i \in 1..m : ws[i] = vs[i]
    PROVE  Sums(ws)[m] = Sums(vs)[m]
<1> DEFINE S == {i \in Nat : i <= m => Sums(ws)[i] = Sums(vs)[i]}
<1>1. /\ \A n \in Nat : Sums(ws)[n] = IF n <= 1 THEN 0 ELSE Sums(ws)[n - 1] + ByteSum(ws[n])
      /\ \A n \in Nat : Sums(vs)[n] = IF n <= 1 THEN 0 ELSE Sums(vs)[n - 1] + ByteSum(vs[n])
  BY SumsValues
<1>2. 0 \in S
  BY <1>1
<1>3. ASSUME NEW i \in Nat, i \in S PROVE i + 1 \in S
  <2>1. CASE i + 1 <= m
    <3>1. i + 1 \in Nat /\ i + 1 \in 1..m /\ (i + 1) - 1 = i /\ Sums(ws)[i] = Sums(vs)[i]
      BY <1>3, <2>1
    <3>2. Sums(ws)[i + 1] = IF i + 1 <= 1 THEN 0 ELSE Sums(ws)[i] + ByteSum(ws[i + 1])
      BY <1>1, <3>1
    <3>3. Sums(vs)[i + 1] = IF i + 1 <= 1 THEN 0 ELSE Sums(vs)[i] + ByteSum(vs[i + 1])
      BY <1>1, <3>1
    <3>4. ByteSum(ws[i + 1]) = ByteSum(vs[i + 1])
      BY <3>1
    <3> QED BY <3>1, <3>2, <3>3, <3>4
  <2> QED BY <2>1
<1> HIDE DEF S
<1>4. m \in S
  BY <1>2, <1>3, SetInduction
<1> QED BY <1>4 DEF S

\* The bytes of a word add up to a number.
LEMMA ByteSumType == ASSUME NEW w \in Word PROVE ByteSum(w) \in Nat
  BY DEF Word, ByteSum

\* So do those of words.
LEMMA SumType == ASSUME NEW ws \in Seq(Word) PROVE SumOfTail(ws) \in Nat
<1> DEFINE S == {i \in Nat : i <= Len(ws) => Sums(ws)[i] \in Nat}
<1>1. \A n \in Nat : Sums(ws)[n] = IF n <= 1 THEN 0 ELSE Sums(ws)[n - 1] + ByteSum(ws[n])
  BY SumsValues
<1>2. 0 \in S
  BY <1>1
<1>3. ASSUME NEW i \in Nat, i \in S PROVE i + 1 \in S
  <2>1. CASE i + 1 <= Len(ws)
    <3>1. i + 1 \in Nat /\ i + 1 \in 1..Len(ws) /\ (i + 1) - 1 = i /\ Sums(ws)[i] \in Nat
      BY <1>3, <2>1
    <3>2. Sums(ws)[i + 1] = IF i + 1 <= 1 THEN 0 ELSE Sums(ws)[i] + ByteSum(ws[i + 1])
      BY <1>1, <3>1
    <3>3. ByteSum(ws[i + 1]) \in Nat
      BY <3>1, ByteSumType
    <3> QED BY <3>1, <3>2, <3>3
  <2> QED BY <2>1
<1>4. Len(ws) \in S
  <2> HIDE DEF S
  <2> QED BY <1>2, <1>3, SetInduction
<1> QED BY <1>4, SumIsSums

\* The first word is not summed.
LEMMA SumOfShort ==
    ASSUME NEW ws \in Seq(Word), Len(ws) <= 1 PROVE SumOfTail(ws) = 0
  BY SumIsSums, SumsValues

\* So a response of which nothing, or one word, was handed out has the sum 0.
LEMMA SumOfFirst ==
    /\ SumOfTail(<<>>) = 0
    /\ \A w \in Word : SumOfTail(<<w>>) = 0
<1>1. SumOfTail(<<>>) = 0
  <2> DEFINE ws == <<>>
  <2>1. ws \in Seq(Word) /\ Len(ws) <= 1
    OBVIOUS
  <2> HIDE DEF ws
  <2>2. SumOfTail(ws) = 0
    BY <2>1, SumOfShort
  <2> QED BY <2>2, Zenon DEF ws
<1>2. ASSUME NEW w \in Word PROVE SumOfTail(<<w>>) = 0
  <2> DEFINE ws == <<w>>
  <2>1. ws \in Seq(Word) /\ Len(ws) <= 1
    OBVIOUS
  <2> HIDE DEF ws
  <2>2. SumOfTail(ws) = 0
    BY <2>1, SumOfShort
  <2> QED BY <2>2, Zenon DEF ws
<1> QED BY <1>1, <1>2, Zenon

\* Every further one is.
LEMMA SumOfAppend ==
    ASSUME NEW ws \in Seq(Word), Len(ws) >= 1, NEW w \in Word
    PROVE  SumOfTail(Append(ws, w)) = SumOfTail(ws) + ByteSum(w)
<1> DEFINE vs == Append(ws, w)
           n == Len(ws)
<1>1. /\ Len(vs) = n + 1 /\ n \in Nat /\ vs[n + 1] = w /\ vs \in Seq(Word)
      /\ \A i \in 1..n : vs[i] = ws[i]
  OBVIOUS
<1> HIDE DEF vs
<1>2. n + 1 \in Nat /\ ~(n + 1 <= 1) /\ (n + 1) - 1 = n
  BY <1>1
<1>3. Sums(vs)[n + 1] = Sums(vs)[n] + ByteSum(w)
  BY <1>1, <1>2, SumsValues
<1>4. Sums(vs)[n] = Sums(ws)[n]
  BY <1>1, SumsAgree
<1> QED BY <1>1, <1>3, <1>4, SumIsSums DEF vs

\* Wrapping at every word is wrapping at the end.
LEMMA ModAdd ==
    ASSUME NEW m \in Nat \ {0}, NEW x \in Nat, NEW y \in Nat
    PROVE  ((x % m) + y) % m = (x + y) % m
<1>1. PICK q \in Nat, r \in 0..(m - 1) : x = (q * m) + r /\ x % m = r
  <2>1. x = ((x \div m) * m) + (x % m) /\ x \div m \in Nat /\ x % m \in 0..(m - 1)
    OBVIOUS
  <2> QED BY <2>1
<1>2. PICK p \in Nat, z \in 0..(m - 1) : r + y = (p * m) + z /\ (r + y) % m = z
  <2>1. r + y \in Nat
    OBVIOUS
  <2>2. \A k \in Nat : k = ((k \div m) * m) + (k % m) /\ k \div m \in Nat /\ k % m \in 0..(m - 1)
    OBVIOUS
  <2> QED BY <2>1, <2>2
<1>3. x + y = ((q + p) * m) + z
  BY <1>1, <1>2
<1>4. (((q + p) * m) + z) % m = z
  OBVIOUS
<1> QED BY <1>1, <1>2, <1>3, <1>4

\* What ChecksumOfWordsReturned says of one object and the words handed out.
Tallied(o, ws) == o.idx = Len(ws) /\ o.sum = SumOfTail(ws) % WORD_MOD

Tallies == \A s \in Slots : Owner(s) => Tallied(obj[s], got[obj[s].base])

\* No words have been handed out of a response that has not been made.
Unread == \A b \in Bases \ made : got[b] = <<>>

ChecksumInv == ReleaseInv /\ GotOK /\ Unread /\ Tallies

\* A reading step tallies when its new index and sum do.
LEMMA ReadTallies ==
    ASSUME ChecksumInv, NEW v \in Slots, Owner(v), NEW i, NEW c, NEW ws,
           obj' = [obj EXCEPT ![v] = [obj[v] EXCEPT !.idx = i, !.sum = c]],
           got' = [got EXCEPT ![obj[v].base] = ws], UNCHANGED made,
           i = Len(ws) /\ c = SumOfTail(ws) % WORD_MOD
    PROVE  Unread' /\ Tallies'
<1> DEFINE o == [obj[v] EXCEPT !.idx = i, !.sum = c]
<1>1. /\ obj \in [Slots -> Objects] /\ got \in [Bases -> Seq(Word)]
      /\ obj[v].base \in Bases /\ obj[v].base \in made
  BY LiveBase DEF ChecksumInv, ReleaseInv, SlotsOK, GotOK, Owner
<1>2. /\ o.idx = i /\ o.sum = c /\ o.base = obj[v].base
      /\ o.live = obj[v].live /\ o.released = obj[v].released
  BY <1>1 DEF Objects
<1> HIDE DEF o
<1>3. obj'[v] = o /\ \A s \in Slots \ {v} : obj'[s] = obj[s]
  BY <1>1 DEF o
<1>4. got'[obj[v].base] = ws /\ \A b \in Bases : b # obj[v].base => got'[b] = got[b]
  BY <1>1
<1>5. Unread'
  BY <1>1, <1>4 DEF ChecksumInv, Unread
<1>6. ASSUME NEW s \in Slots, Owner(s)' PROVE Tallied(obj[s], got[obj[s].base])'
  <2>1. CASE s = v
    BY <1>2, <1>3, <1>4, <2>1 DEF Tallied
  <2>2. CASE s # v
    <3>1. obj'[s] = obj[s] /\ Owner(s)
      BY <1>3, <1>6, <2>2 DEF Owner, Live
    <3>2. obj[s].base # obj[v].base
      BY <2>2, <3>1 DEF ChecksumInv, ReleaseInv, ReleaseExactlyOnce, OneOwner
    <3>3. obj[s].base \in Bases
      BY <3>1, LiveBase DEF ChecksumInv, Owner
    <3>4. Tallied(obj[s], got[obj[s].base])
      BY <3>1 DEF ChecksumInv, Tallies
    <3>5. obj'[s].base = obj[s].base /\ got'[obj'[s].base] = got[obj[s].base]
      BY <1>4, <3>1, <3>2, <3>3
    <3> QED BY <3>1, <3>4, <3>5 DEF Tallied
  <2> QED BY <2>1, <2>2
<1> QED BY <1>5, <1>6 DEF Tallies

\* next() and reset() keep the tally.
LEMMA ReadingTallies ==
    ASSUME ChecksumInv, NEW v \in Vars, NextFirst(v) \/ NextWord(v) \/ Reset(v)
    PROVE  Unread' /\ Tallies'
<1>1. v \in Slots /\ Owner(v) /\ UNCHANGED made
  BY DEF Slots, NextFirst, NextWord, Reset
<1>2. /\ obj \in [Slots -> Objects] /\ obj[v] \in Objects /\ obj[v].base \in Bases
      /\ got[obj[v].base] \in Seq(Word)
  BY <1>1, LiveBase DEF ChecksumInv, ReleaseInv, SlotsOK, GotOK, Owner
<1> DEFINE ws == got[obj[v].base]
<1>3. obj[v].idx = Len(ws) /\ obj[v].sum = SumOfTail(ws) % WORD_MOD
  BY <1>1 DEF ChecksumInv, Tallies, Tallied
<1>4. 0 % WORD_MOD = 0
  BY ResponseAssumption
<1>5. CASE NextFirst(v)
  <2>1. Payload[1] \in Word
    BY ResponseAssumption DEF Word
  <2>2. <<Payload[1]>> \in Seq(Word) /\ Len(<<Payload[1]>>) = 1
    BY <2>1
  <2>3. SumOfTail(<<Payload[1]>>) = 0
    BY <2>1, SumOfFirst, Zenon
  <2>4. obj[v].sum = 0
    <3>1. Len(ws) <= 1
      BY <1>3, <1>5 DEF NextFirst
    <3>2. SumOfTail(ws) = 0
      BY <1>2, <3>1, SumOfShort
    <3> QED BY <1>3, <1>4, <3>2
  <2>5. obj' = [obj EXCEPT ![v] = [obj[v] EXCEPT !.idx = 1, !.sum = 0]]
    BY <1>1, <1>2, <1>5, <2>4 DEF NextFirst, Objects
  <2>6. got' = [got EXCEPT ![obj[v].base] = <<Payload[1]>>]
    BY <1>5 DEF NextFirst
  <2> QED BY <1>1, <1>4, <2>2, <2>3, <2>5, <2>6, ReadTallies
<1>6. CASE NextWord(v)
  <2> DEFINE w == Masked(RegValue(RESP_MBOX_DATAOUT, obj[v].idx + 1),
                         Remaining(obj[v].len, obj[v].idx))
             c == (obj[v].sum + ByteSum(w)) % WORD_MOD
  <2>1. w \in Word
    BY WordType
  <2>2. /\ obj' = [obj EXCEPT ![v].idx = @ + 1, ![v].sum = (@ + ByteSum(w)) % WORD_MOD]
        /\ got' = [got EXCEPT ![obj[v].base] = Append(@, w)]
        /\ obj[v].idx >= 1
    BY <1>2, <1>6 DEF NextWord, Objects
  <2> HIDE DEF w
  <2>3. obj' = [obj EXCEPT ![v] = [obj[v] EXCEPT !.idx = obj[v].idx + 1, !.sum = c]]
    BY <1>1, <1>2, <2>2 DEF Objects
  <2>4. got' = [got EXCEPT ![obj[v].base] = Append(ws, w)]
    BY <2>2
  <2>5. Len(ws) >= 1 /\ obj[v].idx + 1 = Len(Append(ws, w))
    BY <1>2, <1>3, <2>1, <2>2
  <2>6. SumOfTail(Append(ws, w)) = SumOfTail(ws) + ByteSum(w)
    BY <1>2, <2>1, <2>5, SumOfAppend
  <2>7. c = SumOfTail(Append(ws, w)) % WORD_MOD
    <3>1. SumOfTail(ws) \in Nat /\ ByteSum(w) \in Nat /\ WORD_MOD \in Nat \ {0}
      BY <1>2, <2>1, SumType, ByteSumType, ResponseAssumption
    <3> QED BY <1>3, <2>6, <3>1, ModAdd
  <2> HIDE DEF c
  <2> QED BY <1>1, <2>3, <2>4, <2>5, <2>7, ReadTallies
<1>7. CASE Reset(v)
  <2>1. <<>> \in Seq(Word) /\ Len(<<>>) = 0
    OBVIOUS
  <2>2. SumOfTail(<<>>) = 0
    BY SumOfFirst, Zenon
  <2>3. obj' = [obj EXCEPT ![v] = [obj[v] EXCEPT !.idx = 0, !.sum = 0]]
    BY <1>1, <1>2, <1>7 DEF Reset, Objects
  <2>4. got' = [got EXCEPT ![obj[v].base] = <<>>]
    BY <1>7 DEF Reset
  <2> QED BY <1>1, <1>4, <2>1, <2>2, <2>3, <2>4, ReadTallies
<1> QED BY <1>5, <1>6, <1>7

\* A step that hands out no words and leaves no owner but one that was one
\* before, with its record as it was.
LEMMA MovingTallies ==
    ASSUME ChecksumInv, UNCHANGED <<made, got>>,
           \A t \in Slots : Owner(t)' => \E u \in Slots : Owner(u) /\ obj'[t] = obj[u]
    PROVE  Unread' /\ Tallies'
<1>1. Unread'
  BY DEF ChecksumInv, Unread
<1>2. ASSUME NEW t \in Slots, Owner(t)' PROVE Tallied(obj[t], got[obj[t].base])'
  <2>1. PICK u \in Slots : Owner(u) /\ obj'[t] = obj[u]
    BY <1>2
  <2>2. Tallied(obj[u], got[obj[u].base])
    BY <2>1 DEF ChecksumInv, Tallies
  <2> QED BY <2>1, <2>2 DEF Tallied
<1> QED BY <1>1, <1>2 DEF Tallies

\* The object of a new response has read nothing.
LEMMA ConstructTallies ==
    ASSUME ChecksumInv, NEW v \in Vars, NEW b \in Bases, NEW n \in Dlens, Construct(v, b, n)
    PROVE  Unread' /\ Tallies'
<1>1. /\ v \in Slots /\ b \notin made /\ made' = made \cup {b} /\ got' = got
      /\ obj' = [obj EXCEPT ![v] = New(b, n)]
  BY DEF Construct, Slots
<1>2. obj \in [Slots -> Objects]
  BY DEF ChecksumInv, ReleaseInv, SlotsOK
<1>3. obj'[v] = New(b, n) /\ \A s \in Slots \ {v} : obj'[s] = obj[s]
  BY <1>1, <1>2
<1>4. Unread'
  BY <1>1 DEF ChecksumInv, Unread
<1>5. ASSUME NEW s \in Slots, Owner(s)' PROVE Tallied(obj[s], got[obj[s].base])'
  <2>1. CASE s = v
    <3>1. obj'[s].idx = 0 /\ obj'[s].sum = 0 /\ obj'[s].base = b
      BY <1>3, <2>1 DEF New
    <3>2. got[b] = <<>>
      BY <1>1 DEF ChecksumInv, Unread
    <3>3. <<>> \in Seq(Word) /\ Len(<<>>) = 0
      OBVIOUS
    <3>4. SumOfTail(<<>>) = 0
      BY SumOfFirst, Zenon
    <3>5. 0 % WORD_MOD = 0
      BY ResponseAssumption
    <3> QED BY <1>1, <3>1, <3>2, <3>3, <3>4, <3>5 DEF Tallied
  <2>2. CASE s # v
    <3>1. obj'[s] = obj[s] /\ Owner(s)
      BY <1>3, <1>5, <2>2 DEF Owner, Live
    <3>2. Tallied(obj[s], got[obj[s].base])
      BY <3>1 DEF ChecksumInv, Tallies
    <3> QED BY <1>1, <3>1, <3>2 DEF Tallied
  <2> QED BY <2>1, <2>2
<1> QED BY <1>4, <1>5 DEF Tallies

\* Moves, assignments and destructions hand the tally on with the object.
LEMMA MovesTally ==
    ASSUME ChecksumInv, NEW d \in Slots, NEW s \in Slots,
           \/ MoveConstruct(d, s) \/ MoveAssign(d, s) \/ Take(d, s) \/ ResultAssign(d, s)
           \/ (Ok(d, s) \/ MoveOut(d, s)) /\ d # s
           \/ Destroy(d) \/ Forget(d)
    PROVE  Unread' /\ Tallies'
<1>1. obj \in [Slots -> Objects] /\ obj[s] \in Objects
  BY DEF ChecksumInv, ReleaseInv, SlotsOK
<1>2. /\ MovedFrom(obj[s]).released /\ ~Empty.live
  BY <1>1, Leftovers
<1>3. UNCHANGED <<made, got>>
  BY DEF MoveConstruct, MoveAssign, Take, ResultAssign, Ok, MoveOut, Destroy, Forget
<1>4. CASE UNCHANGED obj
  BY <1>3, <1>4, MovingTallies DEF Owner, Live
<1>5. ASSUME NEW o, o.released \/ ~o.live, d # s,
             obj' = [obj EXCEPT ![d] = obj[s], ![s] = o]
      PROVE  Unread' /\ Tallies'
  <2>1. obj'[d] = obj[s] /\ obj'[s] = o /\ \A t \in Slots \ {d, s} : obj'[t] = obj[t]
    BY <1>1, <1>5
  <2>2. \A t \in Slots : Owner(t)' => \E u \in Slots : Owner(u) /\ obj'[t] = obj[u]
    BY <1>5, <2>1 DEF Owner, Live
  <2> QED BY <1>3, <2>2, MovingTallies
<1>6. CASE Destroy(d) \/ Forget(d)
  <2>1. obj'[d] = Empty /\ \A t \in Slots \ {d} : obj'[t] = obj[t]
    BY <1>1, <1>6 DEF Destroy, Forget
  <2>2. \A t \in Slots : Owner(t)' => \E u \in Slots : Owner(u) /\ obj'[t] = obj[u]
    BY <1>2, <2>1 DEF Owner, Live
  <2> QED BY <1>3, <2>2, MovingTallies
<1>7. CASE MoveConstruct(d, s) \/ MoveAssign(d, s) \/ (Ok(d, s) /\ d # s)
  BY <1>2, <1>4, <1>5, <1>7 DEF MoveConstruct, MoveAssign, Ok
<1>8. CASE Take(d, s) \/ ResultAssign(d, s) \/ (MoveOut(d, s) /\ d # s)
  BY <1>2, <1>5, <1>8 DEF Take, ResultAssign, MoveOut
<1> QED BY <1>6, <1>7, <1>8

\* unwrap_or does too.
LEMMA UnwrapOrTallies ==
    ASSUME ChecksumInv, NEW v \in Vars, NEW r \in Results, NEW default \in Vars,
           unwrap_or(v, r, default)
    PROVE  Unread' /\ Tallies'
<1>1. /\ v \in Slots /\ r \in Slots /\ default \in Slots
      /\ v # r /\ r # default /\ v # default /\ UNCHANGED <<made, got>>
  BY ResponseAssumption DEF Slots, unwrap_or
<1>2. obj \in [Slots -> Objects] /\ ~Empty.live
  BY <1>1, Leftovers DEF ChecksumInv, ReleaseInv, SlotsOK
<1>3. \A t \in Slots : Owner(t)' => \E u \in Slots : Owner(u) /\ obj'[t] = obj[u]
  <2>1. CASE HasValue(r)
    <3>1. obj' = [obj EXCEPT ![v] = obj[r], ![r] = Empty, ![default] = Empty]
      BY <2>1 DEF unwrap_or
    <3>2. /\ obj'[v] = obj[r] /\ obj'[r] = Empty /\ obj'[default] = Empty
          /\ \A t \in Slots \ {v, r, default} : obj'[t] = obj[t]
      BY <1>1, <1>2, <3>1
    <3> QED BY <1>1, <1>2, <3>2 DEF Owner, Live
  <2>2. CASE ~HasValue(r)
    <3>1. obj' = [obj EXCEPT ![v] = obj[default], ![default] = Empty]
      BY <2>2 DEF unwrap_or
    <3>2. /\ obj'[v] = obj[default] /\ obj'[default] = Empty
          /\ \A t \in Slots \ {v, default} : obj'[t] = obj[t]
      BY <1>1, <1>2, <3>1
    <3> QED BY <1>1, <1>2, <3>2 DEF Owner, Live
  <2> QED BY <2>1, <2>2
<1> QED BY <1>1, <1>3, MovingTallies

\* ChecksumInv is inductive.
LEMMA ChecksumInductive == ChecksumInv /\ [Next]_vars => ChecksumInv'
<1> SUFFICES ASSUME ChecksumInv, [Next]_vars PROVE ChecksumInv'
  OBVIOUS
<1>1. ReleaseInv' /\ GotOK'
  BY ReleaseInductive, GotInductive DEF ChecksumInv
<1>2. Vars \subseteq Slots /\ Results \subseteq Slots /\ \A r \in Results, v \in Vars : r # v
  BY ResponseAssumption DEF Slots
<1>3. CASE UNCHANGED vars
  <2>1. Unread' /\ Tallies'
    BY <1>3 DEF vars, ChecksumInv, Unread, Tallies, Tallied, Owner, Live
  <2> QED BY <1>1, <2>1 DEF ChecksumInv
<1>4. CASE Next
  <2>1. ASSUME NEW r \in Results, value(r) PROVE Unread' /\ Tallies'
    BY <2>1 DEF value, ChecksumInv, Unread, Tallies, Tallied, Owner, Live
  <2>2. Unread' /\ Tallies'
    BY <1>2, <1>4, <2>1, ConstructTallies, MovesTally, UnwrapOrTallies, ReadingTallies
       DEF Next, unwrap
  <2> QED BY <1>1, <2>2 DEF ChecksumInv
<1> QED BY <1>3, <1>4

\* For responses of any length and any word size: the object that owns a
\* response has read the words next() handed out, and its checksum_ is the sum
\* of their bytes, through every move, assignment and rewind.
THEOREM ChecksumIsOfWordsReturned == Spec => []ChecksumOfWordsReturned
<1>1. Init => ChecksumInv
  <2>1. Init => Unread /\ Tallies /\ GotOK
    BY DEF Init, Unread, Tallies, GotOK, Owner, Live, Empty
  <2> QED BY <2>1, InitRelease DEF ChecksumInv
<1>2. ChecksumInv => ChecksumOfWordsReturned
  BY DEF ChecksumInv, Tallies, Tallied, ChecksumOfWordsReturned
<1> QED BY <1>1, <1>2, ChecksumInductive, PTL DEF Spec
=============================================================================
