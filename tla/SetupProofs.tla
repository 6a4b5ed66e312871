----------------------------- MODULE SetupProofs -----------------------------
(***************************************************************************)
(* Proofs about class Soc and the verification of the debug unlock hashes,  *)
(* for any users, callers and other agents.  An operation is a sequence of  *)
(* register writes, so the invariants say, of what is left of it, that the  *)
(* writes still to come make up for what does not hold yet.                 *)
(***************************************************************************)
EXTENDS MCSetup, SequenceTheorems, TLAPS

\* A write y is still to come; a write x comes before every y.
Comes(s, y) == \E j \in 1..Len(s) : s[j] = y

Precedes(s, x, y) == \A j \in 1..Len(s) : s[j] = y => \E k \in 1..(j - 1) : s[k] = x

\* The registers set_axi_users(u) is to program, with their values.
Targets(u) ==
    {<<MBOX_VALID(i), u.mbox_users[i]>> : i \in {j \in UserSlots : u.mbox_users[j] # nullopt}}
        \cup {<<FUSE_VALID, u.fuse_user>>, <<TRNG_VALID, u.trng_user>>}

LockWrite(t) == <<LockOf(t[1]), 1>>

\* The writes it makes.
AxiWrites(u) == Targets(u) \cup {LockWrite(t) : t \in Targets(u)} \cup {<<DMA_USER, u.dma_user>>}

\* A register is programmed and locked, or its lock is still to come and its
\* value is there, or both are still to come, the value first.
OnTheWay(t) ==
    \/ SealedAs(t[1], t[2])
    \/ Comes(todo, LockWrite(t)) /\ (t[1] \in taint \/ soc[t[1]] = t[2])
    \/ /\ soc[LockOf(t[1])] = 0
       /\ Comes(todo, LockWrite(t)) /\ Precedes(todo, t, LockWrite(t))

Sealing ==
    call = "set_axi_users" =>
        /\ todo \in Seq(AxiWrites(axi))
        /\ \A t \in Targets(axi) : OnTheWay(t)

\* UsersSealed, in these terms.
Sealed == sealed => \A t \in Targets(axi) : SealedAs(t[1], t[2])

SocInv == SocTypeOK /\ Sealing /\ Sealed

----------------------------------------------------------------------------
\* The register table.

\* The registers that name a bus user.
LEMMA UserRegsAre == UserRegs = {32, 36, 40, 44, 48, 72, 80}
BY DEF UserRegs, UserSlots, NumUsers, MBOX_VALID, FUSE_VALID, TRNG_VALID

\* Their locks.
LEMMA LockRegsAre == LockRegs = {52, 56, 60, 64, 68, 76, 84}
<1>1. \A r \in UserRegs : LockOf(r) \in {52, 56, 60, 64, 68, 76, 84}
  BY UserRegsAre DEF LockOf, MBOX_VALID
<1>2. /\ LockOf(32) = 52 /\ LockOf(36) = 56 /\ LockOf(40) = 60 /\ LockOf(44) = 64
      /\ LockOf(48) = 68 /\ LockOf(72) = 76 /\ LockOf(80) = 84
  BY DEF LockOf, MBOX_VALID
<1> QED BY <1>1, <1>2, UserRegsAre DEF LockRegs

\* The fuses.
LEMMA FuseRegsAre == FuseRegs = {320, 324, 512, 516, 520, 524}
BY DEF FuseRegs, PQC_KEY_TYPE, FMC_SVN, UDS_BASE, STRAP_GENERIC

\* The watchdog settings.
LEMMA OtherRegsAre == {WDT_CFG(i) : i \in 0..4} = {12, 16, 20, 24, 28}
BY DEF WDT_CFG

\* No two of the tables overlap, and a lock belongs to one user register.
LEMMA TableFacts ==
    /\ \A r \in UserRegs : /\ LockOf(r) \in LockRegs /\ r \notin LockRegs
                           /\ r \notin FuseRegs \cup {FUSE_WR_DONE}
    /\ \A r, q \in UserRegs : LockOf(r) = LockOf(q) => r = q
    /\ \A r \in LockRegs : r \notin FuseRegs \cup {FUSE_WR_DONE}
    /\ \A r \in {FW_EXEC_CTRL, FW_FATAL, DMA_USER, FUSE_WR_DONE} \cup {WDT_CFG(i) : i \in 0..4} :
          r \notin UserRegs \cup LockRegs \cup FuseRegs
    /\ \A r \in {FW_EXEC_CTRL, FW_FATAL, DMA_USER} \cup {WDT_CFG(i) : i \in 0..4} :
          r # FUSE_WR_DONE
    /\ UserRegs \cup LockRegs \cup FuseRegs \cup {WDT_CFG(i) : i \in 0..4}
          \cup {FW_EXEC_CTRL, FW_FATAL, DMA_USER, FUSE_WR_DONE} \subseteq SocRegs
<1>1. \A r \in UserRegs : /\ LockOf(r) \in LockRegs /\ r \notin LockRegs
                         /\ r \notin FuseRegs \cup {FUSE_WR_DONE}
  BY UserRegsAre, LockRegsAre, FuseRegsAre DEF LockOf, MBOX_VALID, FUSE_WR_DONE
<1>2. \A r, q \in UserRegs : LockOf(r) = LockOf(q) => r = q
  BY UserRegsAre DEF LockOf, MBOX_VALID
<1>3. \A r \in LockRegs : r \notin FuseRegs \cup {FUSE_WR_DONE}
  BY LockRegsAre, FuseRegsAre DEF FUSE_WR_DONE
<1>4. \A r \in {FW_EXEC_CTRL, FW_FATAL, DMA_USER, FUSE_WR_DONE} \cup {WDT_CFG(i) : i \in 0..4} :
        r \notin UserRegs \cup LockRegs \cup FuseRegs
  BY UserRegsAre, LockRegsAre, FuseRegsAre, OtherRegsAre
     DEF FW_EXEC_CTRL, FW_FATAL, DMA_USER, FUSE_WR_DONE
<1>5. \A r \in {FW_EXEC_CTRL, FW_FATAL, DMA_USER} \cup {WDT_CFG(i) : i \in 0..4} :
        r # FUSE_WR_DONE
  BY OtherRegsAre DEF FW_EXEC_CTRL, FW_FATAL, DMA_USER, FUSE_WR_DONE
<1>6. UserRegs \cup LockRegs \cup FuseRegs \cup {WDT_CFG(i) : i \in 0..4}
          \cup {FW_EXEC_CTRL, FW_FATAL, DMA_USER, FUSE_WR_DONE} \subseteq SocRegs
  BY DEF SocRegs
<1> QED BY <1>1, <1>2, <1>3, <1>4, <1>5, <1>6

\* A mailbox user register and its lock.
LEMMA MboxRegs ==
    ASSUME NEW i \in UserSlots
    PROVE  MBOX_VALID(i) \in UserRegs /\ MBOX_LOCK(i) = LockOf(MBOX_VALID(i))
BY DEF UserRegs, UserSlots, NumUsers, MBOX_VALID, MBOX_LOCK, LockOf

\* The registers of the other users.
LEMMA SingleFacts ==
    /\ FUSE_VALID \in UserRegs /\ TRNG_VALID \in UserRegs
    /\ FUSE_LOCK = LockOf(FUSE_VALID) /\ TRNG_LOCK = LockOf(TRNG_VALID)
<1>1. FUSE_VALID \in UserRegs /\ TRNG_VALID \in UserRegs
  BY DEF UserRegs
<1>2. FUSE_LOCK = LockOf(FUSE_VALID) /\ TRNG_LOCK = LockOf(TRNG_VALID)
  BY DEF LockOf, MBOX_VALID, FUSE_VALID, FUSE_LOCK, TRNG_VALID, TRNG_LOCK
<1> QED BY <1>1, <1>2

\* A write changes the register it is for, if that.
LEMMA WriteFacts ==
    ASSUME soc \in [SocRegs -> Nat], NEW r \in Nat, NEW v \in Nat, write_reg(r, v)
    PROVE  /\ soc' \in [SocRegs -> Nat]
           /\ \A q \in SocRegs : q # r => soc'[q] = soc[q]
           /\ r \in SocRegs => soc'[r] = IF SocFrozen(r) THEN soc[r] ELSE v
           /\ SocFrozen(r) => soc' = soc
BY DEF write_reg

\* A locked user register, and its lock, keep their values.
LEMMA SealKept ==
    ASSUME soc \in [SocRegs -> Nat], NEW r \in Nat, NEW v \in Nat, write_reg(r, v),
           NEW q \in UserRegs, soc[LockOf(q)] # 0
    PROVE  soc'[q] = soc[q] /\ soc'[LockOf(q)] = soc[LockOf(q)] /\ SocFrozen(q)
<1>1. LockOf(q) \in LockRegs /\ q \in SocRegs /\ LockOf(q) \in SocRegs
  BY TableFacts
<1>2. SocFrozen(q) /\ SocFrozen(LockOf(q))
  BY <1>1 DEF SocFrozen
<1> QED BY <1>1, <1>2, WriteFacts

----------------------------------------------------------------------------
\* Sequences of writes.

\* Where the elements of a concatenation come from.
LEMMA ConcatIndex ==
    ASSUME NEW S, NEW u \in Seq(S), NEW v \in Seq(S)
    PROVE  /\ u \o v \in Seq(S)
           /\ \A j \in 1..Len(u) : j \in 1..Len(u \o v) /\ (u \o v)[j] = u[j]
           /\ \A j \in 1..Len(v) : /\ Len(u) + j \in 1..Len(u \o v)
                                 /\ (u \o v)[Len(u) + j] = v[j]
           /\ \A j \in 1..Len(u \o v) :
                 j \in 1..Len(u) \/ \E k \in 1..Len(v) : j = Len(u) + k
<1>1. /\ u \o v \in Seq(S) /\ Len(u \o v) = Len(u) + Len(v)
      /\ Len(u) \in Nat /\ Len(v) \in Nat
  OBVIOUS
<1>2. \A j \in 1..(Len(u) + Len(v)) :
        (u \o v)[j] = IF j <= Len(u) THEN u[j] ELSE v[j - Len(u)]
  BY ConcatProperties
<1>3. ASSUME NEW j \in 1..Len(u) PROVE j \in 1..Len(u \o v) /\ (u \o v)[j] = u[j]
  <2>1. j \in 1..(Len(u) + Len(v)) /\ j <= Len(u)
    BY <1>1
  <2> QED BY <1>1, <1>2, <2>1
<1>4. ASSUME NEW j \in 1..Len(v)
      PROVE  Len(u) + j \in 1..Len(u \o v) /\ (u \o v)[Len(u) + j] = v[j]
  <2>1. /\ Len(u) + j \in 1..(Len(u) + Len(v)) /\ ~(Len(u) + j <= Len(u))
        /\ (Len(u) + j) - Len(u) = j
    BY <1>1
  <2> QED BY <1>1, <1>2, <2>1
<1>5. ASSUME NEW j \in 1..Len(u \o v)
      PROVE  j \in 1..Len(u) \/ \E k \in 1..Len(v) : j = Len(u) + k
  <2>1. CASE j > Len(u)
    <3>1. j - Len(u) \in 1..Len(v) /\ j = Len(u) + (j - Len(u))
      BY <1>1, <2>1
    <3> QED BY <3>1
  <2> QED BY <1>1, <2>1
<1> QED BY <1>1, <1>3, <1>4, <1>5

\* What comes in a part comes in the whole; an order both parts keep the whole
\* keeps.
LEMMA ConcatOrder ==
    ASSUME NEW S, NEW u \in Seq(S), NEW v \in Seq(S), NEW x, NEW y,
           Precedes(u, x, y), Precedes(v, x, y)
    PROVE  /\ u \o v \in Seq(S)
           /\ Precedes(u \o v, x, y)
           /\ Comes(u, y) \/ Comes(v, y) => Comes(u \o v, y)
<1>1. /\ u \o v \in Seq(S) /\ Len(u) \in Nat /\ Len(v) \in Nat
      /\ \A j \in 1..Len(u) : j \in 1..Len(u \o v) /\ (u \o v)[j] = u[j]
      /\ \A j \in 1..Len(v) : Len(u) + j \in 1..Len(u \o v) /\ (u \o v)[Len(u) + j] = v[j]
      /\ \A j \in 1..Len(u \o v) :
            j \in 1..Len(u) \/ \E k \in 1..Len(v) : j = Len(u) + k
  BY ConcatIndex
<1> DEFINE w == u \o v
<1> HIDE DEF w
<1>2. /\ w \in Seq(S) /\ Len(u) \in Nat /\ Len(v) \in Nat
      /\ \A j \in 1..Len(u) : j \in 1..Len(w) /\ w[j] = u[j]
      /\ \A j \in 1..Len(v) : Len(u) + j \in 1..Len(w) /\ w[Len(u) + j] = v[j]
      /\ \A j \in 1..Len(w) : j \in 1..Len(u) \/ \E k \in 1..Len(v) : j = Len(u) + k
  BY <1>1 DEF w
<1>3. Comes(u, y) \/ Comes(v, y) => Comes(w, y)
  BY <1>2 DEF Comes
<1>4. ASSUME NEW j \in 1..Len(w), w[j] = y PROVE \E k \in 1..(j - 1) : w[k] = x
  <2>1. CASE j \in 1..Len(u)
    <3>1. PICK k \in 1..(j - 1) : u[k] = x
      BY <1>2, <1>4, <2>1 DEF Precedes
    <3>2. k \in 1..Len(u)
      BY <1>2, <2>1
    <3> QED BY <1>2, <3>1, <3>2
  <2>2. CASE \E i \in 1..Len(v) : j = Len(u) + i
    <3>1. PICK i \in 1..Len(v) : j = Len(u) + i
      BY <2>2
    <3>2. PICK k \in 1..(i - 1) : v[k] = x
      BY <1>2, <1>4, <3>1 DEF Precedes
    <3>3. k \in 1..Len(v) /\ Len(u) + k \in 1..(j - 1)
      BY <1>2, <3>1
    <3>4. w[Len(u) + k] = x
      BY <1>2, <3>2, <3>3
    <3> QED BY <3>3, <3>4
  <2> QED BY <1>2, <2>1, <2>2
<1>5. Precedes(w, x, y)
  BY <1>4 DEF Precedes
<1> QED BY <1>2, <1>3, <1>5 DEF w

\* What is left after the first write.
LEMMA TailOrder ==
    ASSUME NEW S, NEW s \in Seq(S), s # <<>>, NEW x, NEW y
    PROVE  /\ s[1] \in S /\ Tail(s) \in Seq(S)
           /\ Comes(s, y) => s[1] = y \/ Comes(Tail(s), y)
           /\ Precedes(s, x, y) => s[1] # y /\ (s[1] = x \/ Precedes(Tail(s), x, y))
           /\ \A j \in 1..Len(Tail(s)) : j + 1 \in 1..Len(s) /\ Tail(s)[j] = s[j + 1]
<1>1. /\ Len(s) \in Nat \ {0} /\ Len(Tail(s)) = Len(s) - 1
      /\ \A i \in 1..Len(Tail(s)) : Tail(s)[i] = s[i + 1]
      /\ s[1] \in S /\ Tail(s) \in Seq(S)
  BY HeadTailProperties, EmptySeq
<1> DEFINE w == Tail(s)
<1> HIDE DEF w
<1>2. /\ Len(s) \in Nat \ {0} /\ Len(w) = Len(s) - 1
      /\ \A i \in 1..Len(w) : w[i] = s[i + 1]
  BY <1>1 DEF w
<1>3. \A j \in 1..Len(w) : j + 1 \in 1..Len(s) /\ w[j] = s[j + 1]
  BY <1>2
<1>4. Comes(s, y) => s[1] = y \/ Comes(w, y)
  <2> SUFFICES ASSUME NEW j \in 1..Len(s), s[j] = y, j # 1 PROVE Comes(w, y)
    BY DEF Comes
  <2>1. j - 1 \in 1..Len(w) /\ (j - 1) + 1 = j
    BY <1>2
  <2> QED BY <1>2, <2>1 DEF Comes
<1>5. ASSUME Precedes(s, x, y) PROVE s[1] # y /\ (s[1] = x \/ Precedes(w, x, y))
  <2>1. s[1] # y
    BY <1>2, <1>5 DEF Precedes
  <2>2. ASSUME s[1] # x, NEW j \in 1..Len(w), w[j] = y PROVE \E k \in 1..(j - 1) : w[k] = x
    <3>1. j + 1 \in 1..Len(s) /\ s[j + 1] = y /\ (j + 1) - 1 = j
      BY <1>3, <2>2
    <3>2. PICK k \in 1..j : s[k] = x
      BY <1>5, <3>1 DEF Precedes
    <3>3. k # 1
      BY <2>2, <3>2
    <3>4. k - 1 \in 1..(j - 1) /\ k - 1 \in 1..Len(w) /\ (k - 1) + 1 = k
      BY <1>2, <3>3
    <3> QED BY <1>2, <3>2, <3>4
  <2> QED BY <2>1, <2>2 DEF Precedes
<1> QED BY <1>1, <1>3, <1>4, <1>5 DEF w

----------------------------------------------------------------------------
\* The writes of set_axi_users.

Configs == [mbox_users : [UserSlots -> Nat \cup {nullopt}], fuse_user : Nat, trng_user : Nat,
            dma_user : Nat]

\* The arguments of set_axi_users, and what axi holds before the first.
LEMMA ConfigTypes == AxiConfigs \cup {NoUsers} \subseteq Configs
<1>1. NoUsers \in Configs
  BY DEF NoUsers, Configs
<1> QED BY <1>1, SocAssumption DEF Configs

\* What is to be programmed is a user register, each once.
LEMMA TargetFacts ==
    ASSUME NEW u \in Configs
    PROVE  /\ \A t \in Targets(u) : t \in UserRegs \X Nat
           /\ \A s, t \in Targets(u) : s[1] = t[1] => s = t
<1>0. /\ u.fuse_user \in Nat /\ u.trng_user \in Nat
      /\ \A i \in UserSlots : u.mbox_users[i] # nullopt => u.mbox_users[i] \in Nat
  BY DEF Configs
<1>1. \A t \in Targets(u) : t \in UserRegs \X Nat
  BY <1>0, MboxRegs, SingleFacts DEF Targets
<1>2. ASSUME NEW s \in Targets(u), NEW t \in Targets(u), s[1] = t[1] PROVE s = t
  <2>1. \A i, j \in UserSlots : MBOX_VALID(i) = MBOX_VALID(j) => i = j
    BY DEF MBOX_VALID, UserSlots, NumUsers
  <2>2. \A i \in UserSlots : MBOX_VALID(i) # FUSE_VALID /\ MBOX_VALID(i) # TRNG_VALID
    BY DEF MBOX_VALID, UserSlots, NumUsers, FUSE_VALID, TRNG_VALID
  <2>3. FUSE_VALID # TRNG_VALID
    BY DEF FUSE_VALID, TRNG_VALID
  <2> QED BY <1>2, <2>1, <2>2, <2>3 DEF Targets
<1> QED BY <1>1, <1>2

\* The writes of set_axi_users reach no other register, and those to a register
\* or to its lock agree.
LEMMA AxiWriteFacts ==
    ASSUME NEW u \in Configs
    PROVE  /\ AxiWrites(u) \subseteq SocRegs \X Nat
           /\ \A x \in AxiWrites(u) : x[1] \in UserRegs \cup LockRegs \cup {DMA_USER}
           /\ \A x \in AxiWrites(u), t \in Targets(u) :
                 /\ x[1] = t[1] => x = t
                 /\ x[1] = LockOf(t[1]) => x = LockWrite(t)
                 /\ t # LockWrite(t)
<1>1. /\ \A t \in Targets(u) : t \in UserRegs \X Nat
      /\ \A s, t \in Targets(u) : s[1] = t[1] => s = t
  BY TargetFacts
<1>2. u.dma_user \in Nat
  BY DEF Configs
<1>3. /\ UserRegs \subseteq SocRegs /\ LockRegs \subseteq SocRegs /\ DMA_USER \in SocRegs
      /\ DMA_USER \notin UserRegs /\ DMA_USER \notin LockRegs
      /\ \A r \in UserRegs : LockOf(r) \in LockRegs /\ r \notin LockRegs
      /\ \A r, q \in UserRegs : LockOf(r) = LockOf(q) => r = q
  BY TableFacts
<1>4. ASSUME NEW x \in AxiWrites(u)
      PROVE  x \in SocRegs \X Nat /\ x[1] \in UserRegs \cup LockRegs \cup {DMA_USER}
  BY <1>1, <1>2, <1>3 DEF AxiWrites, LockWrite
<1>5. ASSUME NEW x \in AxiWrites(u), NEW t \in Targets(u)
      PROVE  /\ x[1] = t[1] => x = t
             /\ x[1] = LockOf(t[1]) => x = LockWrite(t)
             /\ t # LockWrite(t)
  <2>1. CASE x \in Targets(u)
    BY <1>1, <1>3, <2>1 DEF LockWrite
  <2>2. CASE \E s \in Targets(u) : x = LockWrite(s)
    BY <1>1, <1>3, <2>2 DEF LockWrite
  <2>3. CASE x = <<DMA_USER, u.dma_user>>
    BY <1>1, <1>3, <2>3 DEF LockWrite
  <2> QED BY <2>1, <2>2, <2>3 DEF AxiWrites
<1> QED BY <1>4, <1>5

\* The writes for one mailbox user.
LEMMA MboxPart ==
    ASSUME NEW u \in Configs, NEW i \in UserSlots
    PROVE  /\ MboxUserWrites(u, i) \in Seq(AxiWrites(u))
           /\ \A t \in Targets(u) : Precedes(MboxUserWrites(u, i), t, LockWrite(t))
           /\ \A t \in Targets(u) :
                 t[1] = MBOX_VALID(i) => Comes(MboxUserWrites(u, i), LockWrite(t))
<1>1. CASE u.mbox_users[i] = nullopt
  <2>1. MboxUserWrites(u, i) = <<>>
    BY <1>1 DEF MboxUserWrites
  <2>2. \A t \in Targets(u) : t[1] # MBOX_VALID(i)
    <3>1. \A j \in UserSlots : MBOX_VALID(i) = MBOX_VALID(j) => i = j
      BY DEF MBOX_VALID, UserSlots, NumUsers
    <3>2. MBOX_VALID(i) # FUSE_VALID /\ MBOX_VALID(i) # TRNG_VALID
      BY DEF MBOX_VALID, UserSlots, NumUsers, FUSE_VALID, TRNG_VALID
    <3> QED BY <1>1, <3>1, <3>2 DEF Targets
  <2> QED BY <2>1, <2>2 DEF Precedes
<1>2. CASE u.mbox_users[i] # nullopt
  <2> DEFINE t0 == <<MBOX_VALID(i), u.mbox_users[i]>>
  <2>1. t0 \in Targets(u)
    BY <1>2 DEF Targets
  <2>2. LockWrite(t0) = <<MBOX_LOCK(i), 1>>
    BY MboxRegs DEF LockWrite
  <2>3. MboxUserWrites(u, i) = <<t0, LockWrite(t0)>>
    BY <1>2, <2>2 DEF MboxUserWrites
  <2>4. t0 \in AxiWrites(u) /\ LockWrite(t0) \in AxiWrites(u)
    BY <2>1 DEF AxiWrites
  <2>5. ASSUME NEW t \in Targets(u) PROVE Precedes(<<t0, LockWrite(t0)>>, t, LockWrite(t))
    <3>1. t0 # LockWrite(t)
      <4>1. t0[1] \in UserRegs /\ LockWrite(t)[1] \in LockRegs
        BY <2>1, TargetFacts, TableFacts DEF LockWrite
      <4> QED BY <4>1, TableFacts
    <3>2. LockWrite(t0) = LockWrite(t) => t0 = t
      <4>1. LockWrite(t0) = LockWrite(t) => LockOf(t0[1]) = LockOf(t[1])
        BY DEF LockWrite
      <4>2. t0[1] \in UserRegs /\ t[1] \in UserRegs
        BY <2>1, TargetFacts
      <4> QED BY <2>1, <4>1, <4>2, TargetFacts, TableFacts
    <3> HIDE DEF t0
    <3>3. /\ Len(<<t0, LockWrite(t0)>>) = 2
          /\ <<t0, LockWrite(t0)>>[1] = t0 /\ <<t0, LockWrite(t0)>>[2] = LockWrite(t0)
      OBVIOUS
    <3> QED BY <3>1, <3>2, <3>3 DEF Precedes
  <2>6. ASSUME NEW t \in Targets(u), t[1] = MBOX_VALID(i)
        PROVE  Comes(<<t0, LockWrite(t0)>>, LockWrite(t))
    <3>1. t = t0
      BY <2>1, <2>6, TargetFacts
    <3> QED BY <3>1 DEF Comes
  <2> QED BY <2>3, <2>4, <2>5, <2>6
<1> QED BY <1>1, <1>2

\* The writes for the other users.
SingleWrites(u) ==
    << <<FUSE_VALID, u.fuse_user>>, <<FUSE_LOCK, 1>>,
       <<TRNG_VALID, u.trng_user>>, <<TRNG_LOCK, 1>>, <<DMA_USER, u.dma_user>> >>

\* Two registers of them are to be programmed, each before its lock is set.
LEMMA SinglePart ==
    ASSUME NEW u \in Configs
    PROVE  /\ SingleWrites(u) \in Seq(AxiWrites(u))
           /\ \A t \in Targets(u) : Precedes(SingleWrites(u), t, LockWrite(t))
           /\ \A t \in Targets(u) :
                 t[1] \in {FUSE_VALID, TRNG_VALID} => Comes(SingleWrites(u), LockWrite(t))
<1> DEFINE f == <<FUSE_VALID, u.fuse_user>>
           g == <<TRNG_VALID, u.trng_user>>
           d == <<DMA_USER, u.dma_user>>
<1>1. f \in Targets(u) /\ g \in Targets(u)
  BY DEF Targets
<1>2. LockWrite(f) = <<FUSE_LOCK, 1>> /\ LockWrite(g) = <<TRNG_LOCK, 1>>
  BY SingleFacts DEF LockWrite
<1>3. SingleWrites(u) = <<f, LockWrite(f), g, LockWrite(g), d>>
  BY <1>2 DEF SingleWrites
<1>4. /\ f \in AxiWrites(u) /\ LockWrite(f) \in AxiWrites(u)
      /\ g \in AxiWrites(u) /\ LockWrite(g) \in AxiWrites(u) /\ d \in AxiWrites(u)
  BY <1>1 DEF AxiWrites
<1>5. ASSUME NEW t \in Targets(u)
      PROVE  /\ f # LockWrite(t) /\ g # LockWrite(t) /\ d # LockWrite(t)
             /\ LockWrite(f) = LockWrite(t) => f = t
             /\ LockWrite(g) = LockWrite(t) => g = t
  <2>1. /\ t[1] \in UserRegs /\ f[1] \in UserRegs /\ g[1] \in UserRegs
        /\ LockWrite(t)[1] \in LockRegs
    BY <1>1, TargetFacts, TableFacts DEF LockWrite
  <2>2. d[1] \notin LockRegs
    BY TableFacts
  <2>3. \A s \in Targets(u) : LockWrite(s) = LockWrite(t) => LockOf(s[1]) = LockOf(t[1])
    BY DEF LockWrite
  <2>4. \A s \in Targets(u) : s[1] \in UserRegs /\ (s[1] = t[1] => s = t)
    BY TargetFacts
  <2>5. \A s \in Targets(u) : LockWrite(s) = LockWrite(t) => s = t
    BY <2>1, <2>3, <2>4, TableFacts
  <2>6. f # LockWrite(t) /\ g # LockWrite(t) /\ d # LockWrite(t)
    BY <2>1, <2>2, TableFacts
  <2> QED BY <1>1, <2>5, <2>6
<1>6. \A t \in Targets(u) : t[1] \in {FUSE_VALID, TRNG_VALID} => t = f \/ t = g
  BY <1>1, TargetFacts
<1> HIDE DEF f, g, d
<1> DEFINE w == <<f, LockWrite(f), g, LockWrite(g), d>>
<1>7. /\ w \in Seq(AxiWrites(u)) /\ Len(w) = 5
      /\ w[1] = f /\ w[2] = LockWrite(f) /\ w[3] = g /\ w[4] = LockWrite(g) /\ w[5] = d
  BY <1>4
<1> HIDE DEF w
<1>8. ASSUME NEW t \in Targets(u) PROVE Precedes(w, t, LockWrite(t))
  <2> SUFFICES ASSUME NEW j \in 1..5, w[j] = LockWrite(t)
               PROVE  \E k \in 1..(j - 1) : w[k] = t
    BY <1>7 DEF Precedes
  <2>1. (j = 2 /\ f = t) \/ (j = 4 /\ g = t)
    BY <1>5, <1>7
  <2> QED BY <1>7, <2>1
<1>9. ASSUME NEW t \in Targets(u), t[1] \in {FUSE_VALID, TRNG_VALID}
      PROVE  Comes(w, LockWrite(t))
  <2>1. t = f \/ t = g
    BY <1>6, <1>9
  <2> QED BY <1>7, <2>1 DEF Comes
<1> QED BY <1>3, <1>7, <1>8, <1>9 DEF w

\* set_axi_users locks every register it is to program, after writing it.
LEMMA AxiUserWritesFacts ==
    ASSUME NEW u \in Configs
    PROVE  /\ AxiUserWrites(u) \in Seq(AxiWrites(u))
           /\ \A t \in Targets(u) : /\ Comes(AxiUserWrites(u), LockWrite(t))
                                    /\ Precedes(AxiUserWrites(u), t, LockWrite(t))
<1> DEFINE M(i) == MboxUserWrites(u, i)
<1>0. /\ 0 \in UserSlots /\ 1 \in UserSlots /\ 2 \in UserSlots
      /\ 3 \in UserSlots /\ 4 \in UserSlots
      /\ \A i \in UserSlots : i \in {0, 1, 2, 3, 4}
  BY DEF UserSlots, NumUsers
<1>1. \A i \in UserSlots :
        /\ M(i) \in Seq(AxiWrites(u))
        /\ \A t \in Targets(u) : /\ Precedes(M(i), t, LockWrite(t))
                                 /\ t[1] = MBOX_VALID(i) => Comes(M(i), LockWrite(t))
  BY MboxPart
<1>2. \A t \in Targets(u) :
        (\E i \in UserSlots : t[1] = MBOX_VALID(i)) \/ t[1] \in {FUSE_VALID, TRNG_VALID}
  BY DEF Targets
<1> DEFINE a1 == M(0) \o M(1)
           a2 == a1 \o M(2)
           a3 == a2 \o M(3)
           a4 == a3 \o M(4)
<1>3. AxiUserWrites(u) = a4 \o SingleWrites(u)
  BY DEF AxiUserWrites, SingleWrites
<1> DEFINE In(s) == s \in Seq(AxiWrites(u))
           Kept(s, t) == Precedes(s, t, LockWrite(t))
           Done(s, t) == Comes(s, LockWrite(t))
<1>4. ASSUME NEW s, NEW w, In(s), In(w), NEW t, Kept(s, t), Kept(w, t)
      PROVE  In(s \o w) /\ Kept(s \o w, t) /\ (Done(s, t) \/ Done(w, t) => Done(s \o w, t))
  BY <1>4, ConcatOrder
<1>5. ASSUME NEW t \in Targets(u)
      PROVE  In(a4 \o SingleWrites(u)) /\ Kept(a4 \o SingleWrites(u), t)
                /\ Done(a4 \o SingleWrites(u), t)
  <2>1. /\ In(M(0)) /\ Kept(M(0), t) /\ In(M(1)) /\ Kept(M(1), t) /\ In(M(2)) /\ Kept(M(2), t)
        /\ In(M(3)) /\ Kept(M(3), t) /\ In(M(4)) /\ Kept(M(4), t)
    BY <1>0, <1>1
  <2>2. In(SingleWrites(u)) /\ Kept(SingleWrites(u), t)
    BY SinglePart
  <2>3. \/ Done(M(0), t) \/ Done(M(1), t) \/ Done(M(2), t) \/ Done(M(3), t) \/ Done(M(4), t)
        \/ Done(SingleWrites(u), t)
    BY <1>0, <1>1, <1>2, SinglePart
  <2> HIDE DEF In, Kept, Done, M
  <2>4. In(a1) /\ Kept(a1, t) /\ (Done(M(0), t) \/ Done(M(1), t) => Done(a1, t))
    BY <1>4, <2>1
  <2> HIDE DEF a1
  <2>5. In(a2) /\ Kept(a2, t) /\ (Done(a1, t) \/ Done(M(2), t) => Done(a2, t))
    BY <1>4, <2>1, <2>4
  <2> HIDE DEF a2
  <2>6. In(a3) /\ Kept(a3, t) /\ (Done(a2, t) \/ Done(M(3), t) => Done(a3, t))
    BY <1>4, <2>1, <2>5
  <2> HIDE DEF a3
  <2>7. In(a4) /\ Kept(a4, t) /\ (Done(a3, t) \/ Done(M(4), t) => Done(a4, t))
    BY <1>4, <2>1, <2>6
  <2> HIDE DEF a4
  <2>8. /\ In(a4 \o SingleWrites(u)) /\ Kept(a4 \o SingleWrites(u), t)
        /\ Done(a4, t) \/ Done(SingleWrites(u), t) => Done(a4 \o SingleWrites(u), t)
    BY <1>4, <2>2, <2>7
  <2> QED BY <2>3, <2>4, <2>5, <2>6, <2>7, <2>8
<1>6. <<FUSE_VALID, u.fuse_user>> \in Targets(u)
  BY DEF Targets
<1> HIDE DEF a4
<1> QED BY <1>3, <1>5, <1>6

----------------------------------------------------------------------------
\* Types, and what the invariant gives.

\* The registers and the fuse writes.
LEMMA FuseFacts ==
    /\ SocRegs \subseteq Nat
    /\ FuseWrites \in Seq(Nat \X Nat)
    /\ FMC_SVN \in Nat /\ FUSE_WR_DONE \in Nat /\ DMA_USER \in Nat
<1>1. {WDT_CFG(i) : i \in 0..4} \subseteq Nat
  BY OtherRegsAre
<1>2. UserRegs \subseteq Nat /\ LockRegs \subseteq Nat /\ FuseRegs \subseteq Nat
  BY UserRegsAre, LockRegsAre, FuseRegsAre
<1>3. SocRegs \subseteq Nat
  <2>1. {FW_EXEC_CTRL, FW_FATAL, DMA_USER, FUSE_WR_DONE} \subseteq Nat
    BY DEF FW_EXEC_CTRL, FW_FATAL, DMA_USER, FUSE_WR_DONE
  <2> QED BY <1>1, <1>2, <2>1 DEF SocRegs
<1>4. FuseWrites = << <<512, 0>>, <<516, 0>>, <<520, 1441792>>, <<524, 96>>, <<320, 1>> >>
  BY DEF FuseWrites, UDS_BASE, STRAP_GENERIC, PQC_KEY_TYPE, OTP_DAI_IDLE_BIT_OFFSET,
         OTP_DIRECT_ACCESS_CMD_REG_OFFSET, MLDSA_CALIPTRA_VALUE
<1>5. FuseWrites \in Seq(Nat \X Nat)
  BY <1>4
<1> QED BY <1>3, <1>5 DEF FMC_SVN, FUSE_WR_DONE, DMA_USER

\* What the invariant says of the registers that are locked.
LEMMA SocInvImplies == SocInv => SocTypeOK /\ UsersSealed
<1> SUFFICES ASSUME SocInv PROVE UsersSealed
  BY DEF SocInv
<1>1. /\ \A i \in UserSlots :
            axi.mbox_users[i] # nullopt => <<MBOX_VALID(i), axi.mbox_users[i]>> \in Targets(axi)
      /\ <<FUSE_VALID, axi.fuse_user>> \in Targets(axi)
      /\ <<TRNG_VALID, axi.trng_user>> \in Targets(axi)
  BY DEF Targets
<1>2. sealed => \A t \in Targets(axi) : SealedAs(t[1], t[2])
  BY DEF SocInv, Sealed
<1> QED BY <1>1, <1>2 DEF UsersSealed

\* The initial state: nothing is programmed.
LEMMA SocInitInv == SocInit => SocInv
<1> SUFFICES ASSUME SocInit PROVE SocInv
  OBVIOUS
<1>1. SocTypeOK
  <2>1. soc \in [SocRegs -> Nat] /\ disturbances \in 0..MaxDisturbances
    BY SocAssumption DEF SocInit
  <2>2. call \in Calls /\ todo \in Seq(Nat \X Nat) /\ axi \in AxiConfigs \cup {NoUsers}
    BY DEF SocInit, Calls
  <2> QED BY <2>1, <2>2 DEF SocTypeOK, SocInit
<1>2. Sealing /\ Sealed
  BY DEF SocInit, Sealing, Sealed
<1> QED BY <1>1, <1>2 DEF SocInv

----------------------------------------------------------------------------
\* Operations begin.

\* One write outside set_axi_users more, or none.
LEMMA Counted ==
    ASSUME SocInv, Meddle \/ disturbances' = disturbances
    PROVE  disturbances' \in 0..MaxDisturbances
<1>1. disturbances \in 0..MaxDisturbances /\ MaxDisturbances \in Nat
  BY SocAssumption DEF SocInv, SocTypeOK
<1>2. \/ disturbances < MaxDisturbances /\ disturbances' = disturbances + 1
      \/ disturbances' = disturbances
  BY DEF Meddle
<1> QED BY <1>1, <1>2

\* An operation other than set_axi_users begins.
LEMMA BeginKeeps ==
    ASSUME SocInv, call' \in {"none", "write", "populate_fuses", "poll_ready", "halted"},
           todo' \in Seq(Nat \X Nat),
           call' \notin {"write", "populate_fuses"} => todo' = <<>>,
           UNCHANGED <<soc, axi, sealed, taint>>, Meddle \/ UNCHANGED disturbances
    PROVE  SocInv'
<1>1. SocTypeOK'
  <2>1. call' \in Calls
    BY DEF Calls
  <2>2. disturbances' \in 0..MaxDisturbances
    BY Counted
  <2> QED BY <2>1, <2>2 DEF SocInv, SocTypeOK
<1>2. Sealing'
  BY DEF Sealing
<1>3. Sealed'
  BY DEF SocInv, Sealed, SealedAs
<1> QED BY <1>1, <1>2, <1>3 DEF SocInv

\* One write through a setter, or a stop in fatal_error.
LEMMA SetterKeeps ==
    ASSUME SocInv, NEW r \in Nat, NEW v \in Nat,
           Begin("write", <<<<r, v>>>>) \/ Begin("halted", <<>>) \/ Begin("poll_ready", <<>>),
           UNCHANGED <<soc, axi, sealed, taint>>, Meddle \/ UNCHANGED disturbances
    PROVE  SocInv'
<1>1. <<<<r, v>>>> \in Seq(Nat \X Nat) /\ <<>> \in Seq(Nat \X Nat)
  OBVIOUS
<1>2. \/ call' = "write" /\ todo' = <<<<r, v>>>>
      \/ call' \in {"halted", "poll_ready"} /\ todo' = <<>>
  BY DEF Begin
<1>3. todo' \in Seq(Nat \X Nat)
  BY <1>1, <1>2, Zenon
<1> QED BY <1>2, <1>3, BeginKeeps

\* set_axi_users begins: every lock is still to come, after its register.
LEMMA AxiBegins ==
    ASSUME SocInv, NEW u \in AxiConfigs, set_axi_users(u)
    PROVE  SocInv'
<1>0. u \in Configs /\ axi' = u
  BY ConfigTypes DEF set_axi_users
<1>1. /\ todo' = AxiUserWrites(u) /\ call = "none" /\ call' = "set_axi_users"
      /\ taint' = {r \in UserRegs : soc[LockOf(r)] # 0}
      /\ UNCHANGED <<soc, disturbances>>
  BY DEF set_axi_users, Begin
<1>2. /\ todo' \in Seq(AxiWrites(u)) /\ AxiWrites(u) \subseteq SocRegs \X Nat
      /\ \A t \in Targets(u) : Comes(todo', LockWrite(t)) /\ Precedes(todo', t, LockWrite(t))
  BY <1>0, <1>1, AxiUserWritesFacts, AxiWriteFacts
<1>3. sealed' = FALSE
  BY DEF set_axi_users
<1>4. SocTypeOK'
  <2>1. todo' \in Seq(Nat \X Nat)
    <3>1. AxiWrites(u) \subseteq Nat \X Nat
      BY <1>2, FuseFacts
    <3> QED BY <1>2, <3>1
  <2>2. call' \in Calls /\ call' \notin {"none", "read_svn", "poll_ready", "poll_fatal", "halted"}
    BY <1>1 DEF Calls
  <2> QED BY <1>0, <1>1, <1>3, <2>1, <2>2 DEF SocInv, SocTypeOK
<1>5. Sealing'
  <2>1. ASSUME NEW t \in Targets(u) PROVE OnTheWay(t)'
    <3>1. t[1] \in UserRegs
      BY <1>0, TargetFacts
    <3>2. t[1] \in taint' \/ soc'[LockOf(t[1])] = 0
      BY <1>1, <3>1
    <3>3. Comes(todo', LockWrite(t)) /\ Precedes(todo', t, LockWrite(t))
      BY <1>2
    <3> QED BY <3>2, <3>3 DEF OnTheWay
  <2> QED BY <1>0, <1>2, <2>1 DEF Sealing
<1>6. Sealed'
  BY <1>3 DEF Sealed
<1> QED BY <1>4, <1>5, <1>6 DEF SocInv

----------------------------------------------------------------------------
\* One register write.

\* A write of set_axi_users brings every register a step nearer to being
\* programmed and locked.
LEMMA WriteSeals ==
    ASSUME SocInv, call = "set_axi_users", Write, NEW t \in Targets(axi)
    PROVE  todo' \in Seq(AxiWrites(axi)) /\ OnTheWay(t)'
<1> DEFINE x == todo[1]
           y == LockWrite(t)
           q == t[1]
           k == LockOf(t[1])
<1>1. /\ todo # <<>> /\ write_reg(x[1], x[2]) /\ todo' = Tail(todo) /\ axi' = axi
      /\ taint' = IF ~SocFrozen(x[1]) THEN taint \ {x[1]} ELSE taint
  BY DEF Write
<1>2. axi \in Configs
  BY ConfigTypes DEF SocInv, SocTypeOK
<1>3. todo \in Seq(AxiWrites(axi)) /\ OnTheWay(t)
  BY DEF SocInv, Sealing
<1>4. /\ x \in AxiWrites(axi) /\ todo' \in Seq(AxiWrites(axi))
      /\ Comes(todo, y) => x = y \/ Comes(todo', y)
      /\ Precedes(todo, t, y) => x # y /\ (x = t \/ Precedes(todo', t, y))
  BY <1>1, <1>3, TailOrder
<1>5. /\ x \in SocRegs \X Nat /\ x[1] \in Nat
      /\ x[1] = q => x = t
      /\ x[1] = k => x = y
      /\ t # y
  <2>1. /\ x \in SocRegs \X Nat
        /\ x[1] = q => x = t
        /\ x[1] = k => x = y
        /\ t # y
    BY <1>2, <1>4, AxiWriteFacts
  <2> QED BY <2>1, FuseFacts
<1>6. t \in UserRegs \X Nat /\ q \in UserRegs /\ q \in SocRegs /\ k \in LockRegs /\ k \in SocRegs
  BY <1>2, TargetFacts, TableFacts
<1>7. q \notin LockRegs /\ q \notin FuseRegs \cup {FUSE_WR_DONE}
        /\ k \notin FuseRegs \cup {FUSE_WR_DONE} /\ k \notin UserRegs /\ q # k
  BY <1>6, TableFacts
<1>8. soc \in [SocRegs -> Nat]
  BY DEF SocInv, SocTypeOK
<1>9. /\ \A r \in SocRegs : r # x[1] => soc'[r] = soc[r]
      /\ soc'[x[1]] = IF SocFrozen(x[1]) THEN soc[x[1]] ELSE x[2]
  BY <1>1, <1>5, <1>8, WriteFacts
<1>10. y = <<k, 1>>
  BY DEF LockWrite
<1>11. CASE soc[k] # 0
  <2>1. soc'[q] = soc[q] /\ soc'[k] = soc[k] /\ SocFrozen(q)
    BY <1>1, <1>5, <1>6, <1>8, <1>11, SealKept
  <2>2. q \in taint \/ soc[q] = t[2]
    BY <1>3, <1>11 DEF OnTheWay, SealedAs
  <2>3. q \in taint => q \in taint'
    BY <1>1, <2>1
  <2> QED BY <1>1, <1>4, <1>11, <2>1, <2>2, <2>3 DEF OnTheWay, SealedAs
<1>12. CASE soc[k] = 0
  <2>1. Comes(todo, y)
    BY <1>3, <1>12 DEF OnTheWay, SealedAs
  <2>2. ~SocFrozen(q) /\ ~SocFrozen(k)
    BY <1>6, <1>7, <1>12 DEF SocFrozen
  <2>3. CASE x = y
    <3>1. ~Precedes(todo, t, y)
      BY <1>4, <2>3
    <3>2. q \in taint \/ soc[q] = t[2]
      BY <1>3, <1>12, <3>1 DEF OnTheWay, SealedAs
    <3>3. x[1] = k /\ x[2] = 1
      BY <1>10, <2>3
    <3>4. soc'[k] = 1 /\ soc'[q] = soc[q]
      BY <1>6, <1>7, <1>9, <2>2, <3>3
    <3>5. q \in taint => q \in taint'
      BY <1>1, <1>7, <3>3
    <3> QED BY <1>1, <1>4, <3>2, <3>4, <3>5 DEF OnTheWay, SealedAs
  <2>4. CASE x = t
    <3>1. soc'[q] = t[2]
      BY <1>9, <2>2, <2>4
    <3>2. Comes(todo', y)
      BY <1>4, <1>5, <2>1, <2>4
    <3> QED BY <1>4, <3>1, <3>2 DEF OnTheWay
  <2>5. CASE x # y /\ x # t
    <3>1. soc'[q] = soc[q] /\ soc'[k] = 0
      BY <1>5, <1>6, <1>9, <1>12, <2>5
    <3>2. Comes(todo', y)
      BY <1>4, <2>1, <2>5
    <3>3. \/ q \in taint \/ soc[q] = t[2]
          \/ Precedes(todo', t, y)
      BY <1>3, <1>4, <1>12, <2>5 DEF OnTheWay, SealedAs
    <3>4. q \in taint => q \in taint'
      BY <1>1, <1>5, <2>5
    <3> QED BY <1>1, <1>4, <3>1, <3>2, <3>3, <3>4 DEF OnTheWay
  <2> QED BY <2>3, <2>4, <2>5
<1> QED BY <1>6, <1>8, <1>11, <1>12

\* A write of any operation.
LEMMA WriteKeeps ==
    ASSUME SocInv, Write
    PROVE  SocInv'
<1> DEFINE x == todo[1]
<1>1. /\ todo # <<>> /\ write_reg(x[1], x[2]) /\ todo' = Tail(todo)
      /\ taint' = IF call = "set_axi_users" /\ ~SocFrozen(x[1])
                  THEN taint \ {x[1]} ELSE taint
      /\ UNCHANGED <<call, axi, sealed, disturbances>>
  BY DEF Write
<1>2. soc \in [SocRegs -> Nat] /\ todo \in Seq(Nat \X Nat)
  BY DEF SocInv, SocTypeOK
<1>3. x \in Nat \X Nat /\ x[1] \in Nat /\ x[2] \in Nat /\ todo' \in Seq(Nat \X Nat)
  BY <1>1, <1>2, TailOrder
<1>4. soc' \in [SocRegs -> Nat]
  BY <1>1, <1>2, <1>3, WriteFacts
<1>5. SocTypeOK'
  <2>1. call \notin {"none", "read_svn", "poll_ready", "poll_fatal", "halted"}
    BY <1>1 DEF SocInv, SocTypeOK
  <2>2. taint' \subseteq UserRegs
    BY <1>1 DEF SocInv, SocTypeOK
  <2> QED BY <1>1, <1>3, <1>4, <2>1, <2>2 DEF SocInv, SocTypeOK
<1>6. Sealing'
  <2>1. ASSUME call = "set_axi_users"
        PROVE  todo' \in Seq(AxiWrites(axi)) /\ \A t \in Targets(axi) : OnTheWay(t)'
    <3>1. \A t \in Targets(axi) : todo' \in Seq(AxiWrites(axi)) /\ OnTheWay(t)'
      BY <2>1, WriteSeals
    <3>2. <<FUSE_VALID, axi.fuse_user>> \in Targets(axi)
      BY DEF Targets
    <3> QED BY <3>1, <3>2
  <2> QED BY <1>1, <2>1 DEF Sealing
<1>7. Sealed'
  <2>1. ASSUME NEW t \in Targets(axi), SealedAs(t[1], t[2]) PROVE SealedAs(t[1], t[2])'
    <3>1. t[1] \in UserRegs
      BY ConfigTypes, TargetFacts DEF SocInv, SocTypeOK
    <3>2. soc'[t[1]] = soc[t[1]] /\ soc'[LockOf(t[1])] = soc[LockOf(t[1])] /\ SocFrozen(t[1])
      BY <1>1, <1>2, <1>3, <2>1, <3>1, SealKept DEF SealedAs
    <3>3. t[1] \in taint => t[1] \in taint'
      BY <1>1, <3>2
    <3> QED BY <1>1, <2>1, <3>2, <3>3 DEF SealedAs
  <2> QED BY <1>1, <2>1 DEF SocInv, Sealed
<1> QED BY <1>5, <1>6, <1>7 DEF SocInv

----------------------------------------------------------------------------
\* The other steps.

\* An operation has made its last write.
LEMMA WrittenKeeps ==
    ASSUME SocInv, Written
    PROVE  SocInv'
<1>1. /\ todo = <<>> /\ call \in {"set_axi_users", "populate_fuses", "write"}
      /\ call' = IF call = "populate_fuses" THEN "read_svn" ELSE "none"
      /\ sealed' = (sealed \/ call = "set_axi_users")
      /\ UNCHANGED <<soc, todo, axi, taint, disturbances>>
  BY DEF Written
<1>2. \A y : ~Comes(todo, y)
  BY <1>1 DEF Comes
<1>3. SocTypeOK'
  <2>1. call' \in Calls /\ sealed' \in BOOLEAN
    BY <1>1 DEF Calls
  <2> QED BY <1>1, <2>1 DEF SocInv, SocTypeOK
<1>4. Sealing'
  BY <1>1 DEF Sealing
<1>5. Sealed'
  <2>1. call = "set_axi_users" => \A t \in Targets(axi) : SealedAs(t[1], t[2])
    BY <1>2 DEF SocInv, Sealing, OnTheWay
  <2>2. sealed \/ call = "set_axi_users" => \A t \in Targets(axi) : SealedAs(t[1], t[2])
    BY <2>1 DEF SocInv, Sealed
  <2> QED BY <1>1, <2>2 DEF Sealed, SealedAs
<1> QED BY <1>3, <1>4, <1>5 DEF SocInv

\* populate_fuses reads the SVN, or passes over a failure.
LEMMA ReadSvnKeeps ==
    ASSUME SocInv, ReadSvn
    PROVE  SocInv'
<1>1. /\ call = "read_svn"
      /\ \/ call' = "write" /\ todo' = <<<<FMC_SVN, OtpSvn>>>>
         \/ call' = "none" /\ todo' = todo
      /\ UNCHANGED <<soc, axi, sealed, taint, disturbances>>
  BY DEF ReadSvn
<1>2. todo = <<>>
  BY <1>1 DEF SocInv, SocTypeOK
<1>3. <<<<FMC_SVN, OtpSvn>>>> \in Seq(Nat \X Nat) /\ <<>> \in Seq(Nat \X Nat)
  BY FuseFacts, SocAssumption
<1>4. todo' \in Seq(Nat \X Nat)
  BY <1>1, <1>2, <1>3, Zenon
<1> QED BY <1>1, <1>2, <1>4, BeginKeeps

\* Waiting for Caliptra, or finding that it failed, writes nothing.
LEMMA PollKeeps ==
    ASSUME SocInv, PollReady \/ PollFatal
    PROVE  SocInv'
<1>1. /\ call \in {"poll_ready", "poll_fatal"}
      /\ call' \in {"none", "poll_ready", "poll_fatal", "halted"}
      /\ UNCHANGED <<soc, todo, axi, sealed, taint, disturbances>>
  BY DEF PollReady, PollFatal
<1>2. SocTypeOK'
  <2>1. call' \in Calls
    BY <1>1 DEF Calls
  <2>2. todo = <<>>
    BY <1>1 DEF SocInv, SocTypeOK
  <2> QED BY <1>1, <2>1, <2>2 DEF SocInv, SocTypeOK
<1>3. Sealing' /\ Sealed'
  BY <1>1 DEF SocInv, Sealing, Sealed, SealedAs
<1> QED BY <1>2, <1>3 DEF SocInv

\* Another agent writes an open user register or its lock: the value of that
\* register is anybody's until set_axi_users writes it, the others are as they
\* were.
LEMMA DisturbKeeps ==
    ASSUME SocInv, NEW r \in UserRegs \cup LockRegs, NEW v \in Nat, Disturb(r, v)
    PROVE  SocInv'
<1>1. /\ write_reg(r, v) /\ taint' = taint \cup {q \in UserRegs : r \in {q, LockOf(q)}}
      /\ Meddle
      /\ UNCHANGED <<call, todo, axi, sealed>>
  BY DEF Disturb
<1>2. soc \in [SocRegs -> Nat] /\ axi \in Configs
  BY ConfigTypes DEF SocInv, SocTypeOK
<1>3. r \in SocRegs /\ r \in Nat
  BY TableFacts, FuseFacts
<1>4. /\ soc' \in [SocRegs -> Nat]
      /\ \A q \in SocRegs : q # r => soc'[q] = soc[q]
  BY <1>1, <1>2, <1>3, WriteFacts
<1>5. SocTypeOK'
  <2>1. disturbances' \in 0..MaxDisturbances
    BY <1>1, Counted
  <2>2. taint' \subseteq UserRegs
    BY <1>1 DEF SocInv, SocTypeOK
  <2> QED BY <1>1, <1>4, <2>1, <2>2 DEF SocInv, SocTypeOK
<1>6. ASSUME NEW t \in Targets(axi), SealedAs(t[1], t[2]) PROVE SealedAs(t[1], t[2])'
  <2>1. t[1] \in UserRegs
    BY <1>2, TargetFacts
  <2>2. soc'[t[1]] = soc[t[1]] /\ soc'[LockOf(t[1])] = soc[LockOf(t[1])]
    BY <1>1, <1>2, <1>3, <1>6, <2>1, SealKept DEF SealedAs
  <2> QED BY <1>1, <1>6, <2>2 DEF SealedAs
<1>7. Sealing'
  <2>1. ASSUME NEW t \in Targets(axi), OnTheWay(t) PROVE OnTheWay(t)'
    <3>1. t[1] \in UserRegs /\ t[1] \in SocRegs /\ LockOf(t[1]) \in SocRegs
      BY <1>2, TargetFacts, TableFacts
    <3>2. CASE SealedAs(t[1], t[2])
      BY <1>6, <3>2 DEF OnTheWay
    <3>3. CASE ~SealedAs(t[1], t[2]) /\ r \in {t[1], LockOf(t[1])}
      <4>1. Comes(todo, LockWrite(t))
        BY <2>1, <3>3 DEF OnTheWay
      <4>2. t[1] \in taint'
        BY <1>1, <3>1, <3>3
      <4> QED BY <1>1, <4>1, <4>2 DEF OnTheWay
    <3>4. CASE ~SealedAs(t[1], t[2]) /\ r \notin {t[1], LockOf(t[1])}
      <4>1. soc'[t[1]] = soc[t[1]] /\ soc'[LockOf(t[1])] = soc[LockOf(t[1])]
        BY <1>4, <3>1, <3>4
      <4>2. t[1] \in taint => t[1] \in taint'
        BY <1>1
      <4> QED BY <1>1, <2>1, <3>4, <4>1, <4>2 DEF OnTheWay, SealedAs
    <3> QED BY <3>2, <3>3, <3>4
  <2> QED BY <1>1, <2>1 DEF SocInv, Sealing
<1>8. Sealed'
  BY <1>1, <1>6 DEF SocInv, Sealed
<1> QED BY <1>5, <1>7, <1>8 DEF SocInv

\* Caliptra's progress touches none of these registers.
LEMMA CaliptraKeeps ==
    ASSUME SocInv, CaliptraStep
    PROVE  SocInv'
<1>1. /\ \/ soc' = [soc EXCEPT ![FW_EXEC_CTRL] = FW_READY]
         \/ soc' = [soc EXCEPT ![FW_FATAL] = 1]
      /\ UNCHANGED <<call, todo, axi, sealed, taint, disturbances>>
  BY DEF CaliptraStep
<1>2. soc \in [SocRegs -> Nat] /\ axi \in Configs
  BY ConfigTypes DEF SocInv, SocTypeOK
<1>3. soc' \in [SocRegs -> Nat]
  BY <1>1, <1>2 DEF FW_READY
<1>4. \A q \in UserRegs \cup LockRegs : soc'[q] = soc[q]
  <2>1. \A q \in UserRegs \cup LockRegs : q \in SocRegs /\ q # FW_EXEC_CTRL /\ q # FW_FATAL
    BY TableFacts
  <2> QED BY <1>1, <1>2, <2>1
<1>5. SocTypeOK'
  BY <1>1, <1>3 DEF SocInv, SocTypeOK
<1>6. ASSUME NEW t \in Targets(axi)
      PROVE  soc'[t[1]] = soc[t[1]] /\ soc'[LockOf(t[1])] = soc[LockOf(t[1])]
  BY <1>2, <1>4, TargetFacts, TableFacts
<1>7. Sealing'
  <2>1. ASSUME NEW t \in Targets(axi), OnTheWay(t) PROVE OnTheWay(t)'
    BY <1>1, <1>6, <2>1 DEF OnTheWay, SealedAs
  <2> QED BY <1>1, <2>1 DEF SocInv, Sealing
<1>8. Sealed'
  BY <1>1, <1>6 DEF SocInv, Sealed, SealedAs
<1> QED BY <1>5, <1>7, <1>8 DEF SocInv

\* A reset: a warm one forgets the call, a cold one everything.
LEMMA ResetKeeps ==
    ASSUME SocInv, NEW cold \in BOOLEAN, SocReset(cold)
    PROVE  SocInv'
<1>1. CASE cold
  <2>1. SocInit'
    BY <1>1 DEF SocReset, SocInit
  <2>2. SocTypeOK'
    <3>1. soc' \in [SocRegs -> Nat] /\ disturbances' \in 0..MaxDisturbances
      BY <2>1, SocAssumption DEF SocInit
    <3>2. call' \in Calls /\ todo' \in Seq(Nat \X Nat) /\ axi' \in AxiConfigs \cup {NoUsers}
      BY <2>1 DEF SocInit, Calls
    <3> QED BY <2>1, <3>1, <3>2 DEF SocTypeOK, SocInit
  <2>3. Sealing' /\ Sealed'
    BY <2>1 DEF SocInit, Sealing, Sealed
  <2> QED BY <2>2, <2>3 DEF SocInv
<1>2. CASE ~cold
  <2>1. /\ call' = "none" /\ todo' = <<>>
        /\ UNCHANGED <<soc, axi, sealed, taint, disturbances>>
    BY <1>2 DEF SocReset
  <2>2. todo' \in Seq(Nat \X Nat)
    BY <2>1
  <2> QED BY <2>1, <2>2, BeginKeeps
<1> QED BY <1>1, <1>2

\* No step loses the invariant.
LEMMA SocNextInv ==
    ASSUME SocInv, SocNext
    PROVE  SocInv'
<1>0. SocRegs \subseteq Nat /\ FUSE_WR_DONE \in Nat
  BY FuseFacts
<1>1. ASSUME NEW i \in WdtIndices, NEW v \in WdtValues, set_cptra_wdt_cfg(i, v) PROVE SocInv'
  <2>1. v \in Nat /\ WDT_CFG(i) \in Nat
    BY SocAssumption DEF WDT_CFG
  <2> QED BY <1>1, <2>1, SetterKeeps DEF set_cptra_wdt_cfg
<1>2. ASSUME NEW i \in UserIndices, NEW v \in SocStrangers,
             set_cptra_mbox_valid_axi_user(i, v) \/ set_cptra_mbox_axi_user_lock(i, v)
      PROVE  SocInv'
  <2>1. v \in Nat /\ MBOX_VALID(i) \in Nat /\ MBOX_LOCK(i) \in Nat
    BY SocAssumption DEF MBOX_VALID, MBOX_LOCK
  <2>2. \/ Begin("write", <<<<MBOX_VALID(i), v>>>>) \/ Begin("write", <<<<MBOX_LOCK(i), v>>>>)
        \/ Begin("halted", <<>>)
    BY <1>2 DEF set_cptra_mbox_valid_axi_user, set_cptra_mbox_axi_user_lock
  <2>3. UNCHANGED <<soc, axi, sealed, taint>> /\ Meddle
    BY <1>2 DEF set_cptra_mbox_valid_axi_user, set_cptra_mbox_axi_user_lock
  <2> QED BY <2>1, <2>2, <2>3, SetterKeeps
<1>3. ASSUME NEW r \in SingleRegs \cap Direct, NEW v \in SocStrangers, SetSingle(r, v)
      PROVE  SocInv'
  <2>1. v \in Nat /\ r \in Nat
    BY SocAssumption
  <2> QED BY <1>3, <2>1, SetterKeeps DEF SetSingle
<1>4. ASSUME fuse_write_done PROVE SocInv'
  BY <1>0, <1>4, SetterKeeps DEF fuse_write_done
<1>5. ASSUME wait_for_firmware_ready PROVE SocInv'
  BY <1>0, <1>5, SetterKeeps DEF wait_for_firmware_ready
<1>6. ASSUME populate_fuses PROVE SocInv'
  <2>1. /\ todo' = FuseWrites /\ call' = "populate_fuses"
        /\ UNCHANGED <<soc, axi, sealed, taint, disturbances>>
    BY <1>6 DEF populate_fuses, Begin
  <2>2. todo' \in Seq(Nat \X Nat)
    BY <2>1, FuseFacts
  <2> QED BY <2>1, <2>2, BeginKeeps
<1>7. ASSUME SocCall PROVE SocInv'
  BY <1>1, <1>2, <1>3, <1>4, <1>5, <1>6, <1>7, AxiBegins DEF SocCall
<1>8. ASSUME SocStep PROVE SocInv'
  BY <1>8, WriteKeeps, WrittenKeeps, ReadSvnKeeps, PollKeeps DEF SocStep
<1>9. ASSUME NEW r \in UserRegs \cap Contested,
             Disturb(LockOf(r), 1) \/ \E v \in SocStrangers : Disturb(r, v)
      PROVE  SocInv'
  <2>1. SocStrangers \subseteq Nat /\ LockOf(r) \in LockRegs
    BY SocAssumption, TableFacts
  <2> QED BY <1>9, <2>1, DisturbKeeps
<1> QED BY <1>7, <1>8, <1>9, CaliptraKeeps, ResetKeeps DEF SocNext

\* A step of something else.
LEMMA SocStutters ==
    ASSUME SocInv, UNCHANGED socVars
    PROVE  SocInv'
<1>1. UNCHANGED <<soc, call, todo, axi, sealed, taint, disturbances>>
  BY DEF socVars
<1>2. SocTypeOK'
  BY <1>1 DEF SocInv, SocTypeOK
<1>3. Sealing' /\ Sealed'
  BY <1>1 DEF SocInv, Sealing, Sealed, OnTheWay, SealedAs
<1> QED BY <1>2, <1>3 DEF SocInv

\* The invariant holds throughout.
LEMMA SocInvariant == SocSpec => []SocInv
<1>1. SocInit => SocInv
  BY SocInitInv
<1>2. SocInv /\ [SocNext]_socVars => SocInv'
  BY SocNextInv, SocStutters
<1> QED BY <1>1, <1>2, PTL DEF SocSpec

\* Whatever users set_axi_users is given, whoever writes between two of its
\* writes or after it, whatever index a watchdog setting is given, in whatever
\* order the setters are called and whenever the MCU is reset: once it has
\* returned, the mailbox, fuse and TRNG registers it was to program are locked,
\* each with its user in it unless that register was locked or taken by another
\* agent before the call had locked it.
THEOREM UsersAreSealed == SocSpec => []UsersSealed
<1>1. SocInv => UsersSealed
  BY SocInvImplies
<1> QED BY <1>1, SocInvariant, PTL

----------------------------------------------------------------------------
\* The verification of the debug unlock hashes.

\* How many words have been compared, and whether one of the first n differs.
Position   == hashIdx * WordsPerHash + wordIdx
Differs(n) == \E r \in 0..(n - 1) : read_prod_debug_unlock_pk_hash(r) # OtpWord(r)

\* The verification is somewhere in its loops, or has left them.
Looping ==
    /\ hashPc # "idle" => hashRet = "none"
    /\ hashRet = "OK" => PK_HASH_REG_COUNT = ExpectedLen
    /\ hashPc = "length" => hashIdx = 0 /\ wordIdx = 0 /\ ~mismatch
    /\ hashPc \in {"otp", "reg"} =>
          /\ PK_HASH_REG_COUNT = ExpectedLen
          /\ \/ hashIdx < NumHashes /\ wordIdx < WordsPerHash
             \/ hashPc = "otp" /\ hashIdx = NumHashes /\ wordIdx = 0
    /\ hashPc = "reg" => expected = OtpHash[HashBase(hashIdx) + 4 * wordIdx]

\* While the registers are frozen, a mismatch has been noted exactly when there
\* was one among the words compared so far.
Accumulates ==
    /\ hashFrozen => hashSticky
    /\ hashFrozen /\ hashPc \in {"otp", "reg"} => (mismatch <=> Differs(Position))

\* The verdict is right where the lengths agree.
Right == PK_HASH_REG_COUNT = ExpectedLen => HashVerdictRight

HashInv == HashTypeOK /\ Looping /\ Accumulates /\ Right

\* Rows and columns.
LEMMA Rows ==
    ASSUME NEW h \in Nat, NEW W \in Nat \ {0}, NEW w \in 0..(W - 1)
    PROVE  /\ (h * W + w) \div W = h /\ (h * W + w) % W = w
           /\ h * W \in Nat /\ (h + 1) * W = h * W + W
           /\ \A n \in Nat : h < n => h * W + W <= n * W
OBVIOUS

\* The word a position stands for.
LEMMA PositionWord ==
    ASSUME HashTypeOK, hashIdx < NumHashes, wordIdx < WordsPerHash
    PROVE  /\ Position \in Compared
           /\ OtpWord(Position) = OtpHash[HashBase(hashIdx) + 4 * wordIdx]
<1>1. /\ NumHashes \in Nat \ {0} /\ WordsPerHash \in Nat \ {0}
      /\ hashIdx \in Nat /\ wordIdx \in 0..(WordsPerHash - 1)
  BY HashAssumption DEF HashTypeOK
<1>2. /\ Position \div WordsPerHash = hashIdx /\ Position % WordsPerHash = wordIdx
      /\ hashIdx * WordsPerHash \in Nat
      /\ hashIdx * WordsPerHash + WordsPerHash <= NumHashes * WordsPerHash
      /\ NumHashes * WordsPerHash \in Nat
  BY <1>1, Rows DEF Position
<1>3. Position \in Compared
  BY <1>1, <1>2 DEF Position, Compared
<1> QED BY <1>2, <1>3 DEF OtpWord

\* The initial state: no verification yet.
LEMMA HashInitInv == HashInit => HashInv
<1> SUFFICES ASSUME HashInit PROVE HashInv
  OBVIOUS
<1>1. HashTypeOK
  <2>1. {hashSticky, mismatch, hashFrozen, otpFailed} \subseteq BOOLEAN
    BY Zenon DEF HashInit
  <2> QED BY <2>1, HashAssumption DEF HashInit, HashTypeOK
<1>2. Looping /\ Accumulates /\ Right
  BY DEF HashInit, Looping, Accumulates, Right, HashVerdictRight
<1> QED BY <1>1, <1>2 DEF HashInv

HashFlags == {hashSticky, mismatch, hashFrozen, otpFailed} \subseteq BOOLEAN

\* A verification begins.
LEMMA VerifyKeeps ==
    ASSUME HashInv, verify_prod_debug_unlock_pk_hash
    PROVE  HashInv'
<1>1. /\ hashPc' = "length" /\ hashIdx' = 0 /\ wordIdx' = 0 /\ hashRet' = "none"
      /\ UNCHANGED <<hashReg, expected>>
  BY DEF verify_prod_debug_unlock_pk_hash
<1>2. mismatch' = FALSE /\ hashFrozen' = hashSticky /\ hashSticky' = hashSticky
  BY DEF verify_prod_debug_unlock_pk_hash
<1>3. HashTypeOK'
  <2>1. HashFlags'
    BY Zenon DEF verify_prod_debug_unlock_pk_hash, HashInv, HashTypeOK, HashFlags
  <2> QED BY <1>1, <2>1, HashAssumption DEF HashInv, HashTypeOK, HashFlags
<1>4. Looping' /\ Accumulates' /\ Right'
  BY <1>1, <1>2 DEF Looping, Accumulates, Right, HashVerdictRight
<1> QED BY <1>3, <1>4 DEF HashInv

\* The length is wrong, or the loops begin: nothing has been compared yet.
LEMMA LengthKeeps ==
    ASSUME HashInv, CheckLength
    PROVE  HashInv'
<1>1. /\ hashPc = "length"
      /\ \/ /\ PK_HASH_REG_COUNT # ExpectedLen
            /\ hashPc' = "idle" /\ hashRet' = "OTP_READ_ERROR"
         \/ /\ PK_HASH_REG_COUNT = ExpectedLen
            /\ hashPc' = "otp" /\ hashRet' = hashRet
      /\ UNCHANGED <<hashReg, hashIdx, wordIdx, expected>>
  BY DEF CheckLength, HashReturns, prod_debug_unlock_pk_hash_len
<1>2. UNCHANGED <<mismatch, hashFrozen, hashSticky, otpFailed>>
  BY DEF CheckLength
<1>3. /\ hashIdx = 0 /\ wordIdx = 0 /\ hashRet = "none"
      /\ 0 < NumHashes /\ 0 < WordsPerHash
  BY <1>1, HashAssumption DEF HashInv, Looping
<1>4. HashTypeOK'
  <2>1. HashFlags'
    BY <1>2, Zenon DEF HashInv, HashTypeOK, HashFlags
  <2> QED BY <1>1, <2>1 DEF HashInv, HashTypeOK, HashFlags
<1>5. Looping'
  BY <1>1, <1>3 DEF Looping
<1>6. Accumulates'
  <2>1. Position' = 0
    BY <1>1, <1>3, HashAssumption DEF Position
  <2>2. ~Differs(0)'
    BY DEF Differs
  <2>3. ~mismatch'
    BY <1>1, <1>2 DEF HashInv, Looping
  <2>4. hashFrozen' => hashSticky'
    BY <1>2 DEF HashInv, Accumulates
  <2> QED BY <2>1, <2>2, <2>3, <2>4 DEF Accumulates, Differs
<1>7. Right'
  <2>1. hashRet' # "OK" /\ (hashRet' = "OTP_READ_ERROR" => PK_HASH_REG_COUNT # ExpectedLen)
    BY <1>1, <1>3
  <2> QED BY <2>1 DEF Right, HashVerdictRight
<1> QED BY <1>4, <1>5, <1>6, <1>7 DEF HashInv

\* A word of the OTP is read, or the read fails.
LEMMA ReadOtpKeeps ==
    ASSUME HashInv, ReadOtpWord
    PROVE  HashInv'
<1>1. /\ hashPc = "otp" /\ hashIdx < NumHashes
      /\ UNCHANGED <<hashReg, hashIdx, wordIdx>>
  BY DEF ReadOtpWord
<1>2. \/ /\ expected' = OtpHash[HashBase(hashIdx) + 4 * wordIdx]
         /\ hashPc' = "reg" /\ hashRet' = hashRet
      \/ hashPc' = "idle" /\ hashRet' = "OTP_READ_ERROR" /\ expected' = expected
  BY DEF ReadOtpWord, HashReturns
<1>3. UNCHANGED <<mismatch, hashFrozen, hashSticky>>
  BY DEF ReadOtpWord
<1>4. hashPc' = "idle" => otpFailed'
  BY DEF ReadOtpWord
<1>5. /\ hashIdx \in 0..(NumHashes - 1) /\ wordIdx \in 0..(WordsPerHash - 1)
      /\ PK_HASH_REG_COUNT = ExpectedLen /\ hashRet = "none"
  <2>1. wordIdx < WordsPerHash /\ PK_HASH_REG_COUNT = ExpectedLen /\ hashRet = "none"
    BY <1>1, HashAssumption DEF HashInv, Looping, HashTypeOK
  <2>2. hashIdx \in 0..NumHashes /\ wordIdx \in 0..(WordsPerHash - 1)
    BY DEF HashInv, HashTypeOK
  <2> QED BY <1>1, <2>1, <2>2, HashAssumption
<1>6. HashTypeOK'
  <2>1. HashFlags'
    <3>1. otpFailed' \in BOOLEAN
      BY Zenon DEF ReadOtpWord, HashInv, HashTypeOK
    <3>2. mismatch' \in BOOLEAN /\ hashFrozen' \in BOOLEAN /\ hashSticky' \in BOOLEAN
      BY <1>3, Zenon DEF HashInv, HashTypeOK
    <3> QED BY <3>1, <3>2, Zenon DEF HashFlags
  <2>2. HashBase(hashIdx) + 4 * wordIdx \in HashAddresses
    BY <1>5 DEF HashAddresses
  <2>3. expected' \in HashWords
    BY <1>2, <2>2, HashAssumption DEF HashInv, HashTypeOK
  <2>4. /\ hashPc' \in {"idle", "length", "otp", "reg"}
        /\ hashRet' \in {"none", "OK", "OTP_READ_ERROR"}
    BY <1>2, <1>5
  <2> QED BY <1>1, <2>1, <2>3, <2>4 DEF HashInv, HashTypeOK, HashFlags
<1>7. Looping'
  <2>1. hashIdx' < NumHashes /\ wordIdx' < WordsPerHash
    <3>1. NumHashes \in Nat /\ WordsPerHash \in Nat
      BY HashAssumption
    <3> QED BY <1>1, <1>5, <3>1
  <2>2. hashPc' = "reg" => expected' = OtpHash[HashBase(hashIdx') + 4 * wordIdx']
    BY <1>1, <1>2
  <2>3. hashPc' \in {"idle", "reg"} /\ (hashPc' # "idle" => hashRet' = "none")
    BY <1>2, <1>5
  <2> QED BY <1>5, <2>1, <2>2, <2>3 DEF Looping, HashBase
<1>8. Accumulates'
  <2>1. Position' = Position
    BY <1>1 DEF Position
  <2>2. Differs(Position)' <=> Differs(Position)
    BY <1>1, <2>1 DEF Differs, read_prod_debug_unlock_pk_hash
  <2>3. hashFrozen => hashSticky /\ (mismatch <=> Differs(Position))
    BY <1>1 DEF HashInv, Accumulates
  <2> QED BY <1>3, <2>2, <2>3 DEF Accumulates
<1>9. Right'
  <2>1. hashRet' # "OK" /\ (hashRet' = "OTP_READ_ERROR" => otpFailed')
    BY <1>2, <1>4, <1>5
  <2> QED BY <2>1 DEF Right, HashVerdictRight
<1> QED BY <1>6, <1>7, <1>8, <1>9 DEF HashInv

\* A register is compared: the position moves on by one, and the mismatch is
\* noted.
LEMMA CompareKeeps ==
    ASSUME HashInv, CompareWord
    PROVE  HashInv'
<1>1. /\ hashPc = "reg" /\ hashPc' = "otp"
      /\ UNCHANGED <<hashReg, expected, hashRet>>
  BY DEF CompareWord
<1>2. mismatch' = (mismatch \/ expected # read_prod_debug_unlock_pk_hash(Position))
  BY DEF CompareWord, Position
<1>3. UNCHANGED <<hashFrozen, hashSticky, otpFailed>>
  BY DEF CompareWord
<1>4. \/ wordIdx + 1 < WordsPerHash /\ wordIdx' = wordIdx + 1 /\ hashIdx' = hashIdx
      \/ ~(wordIdx + 1 < WordsPerHash) /\ wordIdx' = 0 /\ hashIdx' = hashIdx + 1
  BY DEF CompareWord, NextHashWord
<1>5. /\ hashIdx < NumHashes /\ wordIdx < WordsPerHash
      /\ PK_HASH_REG_COUNT = ExpectedLen /\ hashRet = "none"
      /\ expected = OtpHash[HashBase(hashIdx) + 4 * wordIdx]
  BY <1>1 DEF HashInv, Looping
<1>6. /\ hashIdx \in 0..(NumHashes - 1) /\ wordIdx \in 0..(WordsPerHash - 1)
      /\ NumHashes \in Nat \ {0} /\ WordsPerHash \in Nat \ {0}
  <2>1. hashIdx \in 0..NumHashes /\ wordIdx \in 0..(WordsPerHash - 1)
    BY DEF HashInv, HashTypeOK
  <2> QED BY <1>5, <2>1, HashAssumption
<1>7. Position \in Nat /\ Position' = Position + 1
  <2>1. /\ hashIdx * WordsPerHash \in Nat
        /\ (hashIdx + 1) * WordsPerHash = hashIdx * WordsPerHash + WordsPerHash
    BY <1>6, Rows
  <2>2. CASE wordIdx + 1 < WordsPerHash
    BY <1>4, <1>6, <2>1, <2>2 DEF Position
  <2>3. CASE ~(wordIdx + 1 < WordsPerHash)
    <3>1. wordIdx + 1 = WordsPerHash /\ wordIdx' = 0 /\ hashIdx' = hashIdx + 1
      BY <1>4, <1>6, <2>3
    <3>2. Position' = hashIdx * WordsPerHash + WordsPerHash
      BY <1>6, <2>1, <3>1 DEF Position
    <3> QED BY <1>6, <2>1, <3>1, <3>2 DEF Position
  <2> QED BY <2>2, <2>3
<1>8. expected = OtpWord(Position)
  BY <1>5, PositionWord DEF HashInv
<1>9. HashTypeOK'
  <2>1. HashFlags'
    <3>1. mismatch' \in BOOLEAN
      BY <1>2
    <3>2. otpFailed' \in BOOLEAN /\ hashFrozen' \in BOOLEAN /\ hashSticky' \in BOOLEAN
      BY <1>3, Zenon DEF HashInv, HashTypeOK
    <3> QED BY <3>1, <3>2, Zenon DEF HashFlags
  <2>2. hashIdx' \in 0..NumHashes /\ wordIdx' \in 0..(WordsPerHash - 1)
    BY <1>4, <1>6
  <2> QED BY <1>1, <2>1, <2>2 DEF HashInv, HashTypeOK, HashFlags
<1>10. Looping'
  <2>1. \/ hashIdx' < NumHashes /\ wordIdx' < WordsPerHash
        \/ hashIdx' = NumHashes /\ wordIdx' = 0
    BY <1>4, <1>6
  <2> QED BY <1>1, <1>5, <2>1 DEF Looping
<1>11. Accumulates'
  <2>1. ASSUME NEW n \in Nat
        PROVE  Differs(n + 1)
                 <=> Differs(n) \/ read_prod_debug_unlock_pk_hash(n) # OtpWord(n)
    <3>1. 0..((n + 1) - 1) = 0..(n - 1) \cup {n}
      OBVIOUS
    <3> QED BY <3>1 DEF Differs
  <2>2. Differs(Position + 1)
          <=> Differs(Position) \/ read_prod_debug_unlock_pk_hash(Position) # OtpWord(Position)
    BY <1>7, <2>1
  <2>3. Differs(Position)' <=> Differs(Position + 1)
    BY <1>1, <1>7 DEF Differs, read_prod_debug_unlock_pk_hash
  <2>4. hashFrozen => hashSticky /\ (mismatch <=> Differs(Position))
    BY <1>1 DEF HashInv, Accumulates
  <2> QED BY <1>2, <1>3, <1>8, <2>2, <2>3, <2>4 DEF Accumulates
<1>12. Right'
  BY <1>1, <1>5 DEF Right, HashVerdictRight
<1> QED BY <1>9, <1>10, <1>11, <1>12 DEF HashInv

\* The verdict is what has been noted of all the words.
LEMMA VerdictKeeps ==
    ASSUME HashInv, Verdict
    PROVE  HashInv'
<1>1. /\ hashPc = "otp" /\ hashIdx = NumHashes /\ hashPc' = "idle"
      /\ UNCHANGED <<hashReg, hashIdx, wordIdx, expected>>
  BY DEF Verdict, HashReturns
<1>2. hashRet' = IF mismatch THEN "OTP_READ_ERROR" ELSE "OK"
  BY DEF Verdict, HashReturns
<1>3. UNCHANGED <<mismatch, hashFrozen, hashSticky, otpFailed>>
  BY DEF Verdict
<1>4. PK_HASH_REG_COUNT = ExpectedLen /\ wordIdx = 0
  BY <1>1, HashAssumption DEF HashInv, Looping
<1>5. HashTypeOK'
  <2>1. HashFlags'
    BY <1>3, Zenon DEF HashInv, HashTypeOK, HashFlags
  <2>2. hashRet' \in {"none", "OK", "OTP_READ_ERROR"}
    BY <1>2
  <2> QED BY <1>1, <2>1, <2>2 DEF HashInv, HashTypeOK, HashFlags
<1>6. Looping'
  BY <1>1, <1>4 DEF Looping
<1>7. Accumulates'
  BY <1>1, <1>3 DEF HashInv, Accumulates
<1>8. NumHashes * WordsPerHash \in Nat
  BY HashAssumption
<1>9. Compared = HashRegs /\ 0..(Position - 1) = Compared
  BY <1>1, <1>4, <1>8, HashAssumption DEF Compared, HashRegs, Position
<1>10. hashFrozen => (mismatch <=> Differs(Position))
  BY <1>1 DEF HashInv, Accumulates
<1>11. hashFrozen => (mismatch <=> \E r \in Compared : read_prod_debug_unlock_pk_hash(r) # OtpWord(r))
  BY <1>9, <1>10 DEF Differs
<1>12. \A r \in Compared : /\ r \in HashRegs
                           /\ read_prod_debug_unlock_pk_hash(r) = hashReg[r]
  BY <1>9 DEF read_prod_debug_unlock_pk_hash
<1>13. hashFrozen =>
         /\ hashRet' = "OK" => \A r \in Compared : r \in HashRegs /\ hashReg[r] = OtpWord(r)
         /\ hashRet' = "OTP_READ_ERROR" =>
               \E r \in Compared : read_prod_debug_unlock_pk_hash(r) # OtpWord(r)
  BY <1>2, <1>11, <1>12
<1>14. Right'
  BY <1>1, <1>3, <1>13 DEF Right, HashVerdictRight, read_prod_debug_unlock_pk_hash
<1> QED BY <1>5, <1>6, <1>7, <1>14 DEF HashInv

\* Other agents: until the registers are frozen nothing is promised of them,
\* and afterwards they keep their values.
LEMMA AgentsKeep ==
    ASSUME HashInv,
           FreezeHash \/ \E r \in HashRegs, w \in HashWords : WriteHashReg(r, w)
    PROVE  HashInv'
<1>1. UNCHANGED <<hashPc, hashIdx, wordIdx, expected, hashRet>>
  BY DEF FreezeHash, WriteHashReg
<1>2. UNCHANGED <<mismatch, hashFrozen, otpFailed>>
  BY DEF FreezeHash, WriteHashReg
<1>3. (hashSticky => hashReg' = hashReg) /\ hashReg' \in [HashRegs -> HashWords]
  BY DEF FreezeHash, WriteHashReg, HashInv, HashTypeOK
<1>4. (hashSticky => hashSticky') /\ hashSticky' \in BOOLEAN
  <2>1. hashSticky \in BOOLEAN
    BY Zenon DEF HashInv, HashTypeOK
  <2> QED BY <2>1, Zenon DEF FreezeHash, WriteHashReg
<1>5. hashFrozen => hashSticky
  BY DEF HashInv, Accumulates
<1>6. HashTypeOK'
  <2>1. HashFlags'
    BY <1>2, <1>4, Zenon DEF HashInv, HashTypeOK, HashFlags
  <2> QED BY <1>1, <1>3, <2>1 DEF HashInv, HashTypeOK, HashFlags
<1>7. Looping'
  BY <1>1, <1>2 DEF HashInv, Looping
<1>8. Accumulates'
  <2>1. hashFrozen => (Differs(Position)' <=> Differs(Position))
    BY <1>1, <1>3, <1>5 DEF Differs, Position, read_prod_debug_unlock_pk_hash
  <2>2. hashFrozen /\ hashPc \in {"otp", "reg"} => (mismatch <=> Differs(Position))
    BY DEF HashInv, Accumulates
  <2> QED BY <1>1, <1>2, <1>4, <1>5, <2>1, <2>2 DEF Accumulates
<1>9. Right'
  <2>1. CASE hashFrozen
    <3>1. hashReg' = hashReg
      BY <1>3, <1>5, <2>1
    <3> QED BY <1>1, <1>2, <3>1 DEF HashInv, Right, HashVerdictRight, read_prod_debug_unlock_pk_hash
  <2>2. CASE ~hashFrozen
    BY <1>2, <2>2 DEF Right, HashVerdictRight
  <2> QED BY <2>1, <2>2
<1> QED BY <1>6, <1>7, <1>8, <1>9 DEF HashInv

\* A step of something else.
LEMMA HashStutters ==
    ASSUME HashInv, UNCHANGED hashVars
    PROVE  HashInv'
<1>1. UNCHANGED <<hashReg, hashPc, hashIdx, wordIdx, expected, hashRet>>
  BY DEF hashVars
<1>2. UNCHANGED <<hashSticky, mismatch, hashFrozen, otpFailed>>
  BY DEF hashVars
<1>3. HashTypeOK'
  BY <1>1, <1>2 DEF HashInv, HashTypeOK
<1>4. Looping'
  BY <1>1, <1>2 DEF HashInv, Looping
<1>5. Accumulates'
  BY <1>1, <1>2 DEF HashInv, Accumulates, Differs, Position, read_prod_debug_unlock_pk_hash
<1>6. Right'
  BY <1>1, <1>2 DEF HashInv, Right, HashVerdictRight, read_prod_debug_unlock_pk_hash
<1> QED BY <1>3, <1>4, <1>5, <1>6 DEF HashInv

\* No step loses the invariant.
LEMMA HashNextInv ==
    ASSUME HashInv, HashNext
    PROVE  HashInv'
BY VerifyKeeps, LengthKeeps, ReadOtpKeeps, CompareKeeps, VerdictKeeps, AgentsKeep DEF HashNext

\* The invariant holds throughout.
LEMMA HashInvariant == HashSpec => []HashInv
<1>1. HashInit => HashInv
  BY HashInitInv
<1>2. HashInv /\ [HashNext]_hashVars => HashInv'
  BY HashNextInv, HashStutters
<1> QED BY <1>1, <1>2, PTL DEF HashSpec

\* With lengths that differ, as the 12 registers of Mci and the 96 words of
\* verify_prod_debug_unlock_pk_hash do, no verification ever succeeds, and none
\* reads a word of the OTP or a register.
THEOREM HashNeverPasses ==
    PK_HASH_REG_COUNT # ExpectedLen
        => (HashSpec => [](hashRet # "OK" /\ hashPc \notin {"otp", "reg"}))
<1> SUFFICES ASSUME PK_HASH_REG_COUNT # ExpectedLen
             PROVE  HashSpec => [](hashRet # "OK" /\ hashPc \notin {"otp", "reg"})
  OBVIOUS
<1>1. HashInv => hashRet # "OK" /\ hashPc \notin {"otp", "reg"}
  BY DEF HashInv, Looping
<1> QED BY <1>1, HashInvariant, PTL

\* Were the lengths equal, for any number of hashes and words, the verdict of a
\* verification begun on frozen registers would be right both ways, whichever
\* OTP reads fail.
THEOREM HashVerdictIsRight ==
    PK_HASH_REG_COUNT = ExpectedLen => (HashSpec => []HashVerdictRight)
<1> SUFFICES ASSUME PK_HASH_REG_COUNT = ExpectedLen PROVE HashSpec => []HashVerdictRight
  OBVIOUS
<1>1. HashInv => HashVerdictRight
  BY DEF HashInv, Right
<1> QED BY <1>1, HashInvariant, PTL

----------------------------------------------------------------------------
\* The two together.

\* Types, of every state either of the two tasks reaches.
THEOREM SetupTypes == SetupSpec => []SetupTypeOK
<1>1. SetupInit => SocInv /\ HashInv
  BY SocInitInv, HashInitInv DEF SetupInit
<1>2. SocInv /\ HashInv /\ [SetupNext]_<<task, socVars, hashVars>> => SocInv' /\ HashInv'
  <2> SUFFICES ASSUME SocInv, HashInv, [SetupNext]_<<task, socVars, hashVars>>
               PROVE  SocInv' /\ HashInv'
    OBVIOUS
  <2>1. CASE SocNext /\ UNCHANGED hashVars
    BY <2>1, SocNextInv, HashStutters
  <2>2. CASE HashNext /\ UNCHANGED socVars
    BY <2>2, HashNextInv, SocStutters
  <2>3. CASE UNCHANGED <<task, socVars, hashVars>>
    BY <2>3, SocStutters, HashStutters
  <2> QED BY <2>1, <2>2, <2>3 DEF SetupNext
<1>3. SocInv /\ HashInv => SetupTypeOK
  BY DEF SocInv, HashInv, SetupTypeOK
<1> QED BY <1>1, <1>2, <1>3, PTL DEF SetupSpec
=============================================================================
