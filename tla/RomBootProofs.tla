---------------------------- MODULE RomBootProofs ----------------------------
(***************************************************************************)
(* Proofs about the boot flows, for any timeouts and any number of resets.  *)
(* What the status register tells is true because of the order of the flow: *)
(* whatever is left of it, a step that reports something comes after the    *)
(* step that does it, unless that has been done already (InOrder).  The     *)
(* devices keep what a flow has done to them until a power cycle.           *)
(***************************************************************************)
EXTENDS RomBoot, SequenceTheorems, TLAPS

\* A step of a flow has had its effect, in this boot or an earlier one.
Achieved(step) ==
    CASE step = Call("i3c_init") -> dev.i3cEnabled
      [] step = Call("otp_init") -> "otp_idle" \in seen
      [] step = Call("caliptra_boot_go") -> dev.caliptra # "held"
      [] step = Call("wait_caliptra_ready") -> "mbox_not_busy" \in seen
      [] OTHER -> step[2] \in milestones

\* What each report says has been done.
Reports ==
    {<<Call("caliptra_boot_go"), Ms("CPTRA_BOOT_GO_ASSERTED")>>,
     <<Ms("CPTRA_BOOT_GO_ASSERTED"), Ms("CPTRA_FUSES_WRITTEN")>>,
     <<Call("i3c_init"), Ck("McuRegistersInitialized")>>,
     <<Call("otp_init"), Ck("McuRegistersInitialized")>>}
    \cup {<<step, Ms("COLD_BOOT_FLOW_COMPLETE")>> :
             step \in {Call("i3c_init"), Call("otp_init"), Call("wait_caliptra_ready"),
                       Ms("ROM_STARTED"), Ms("CPTRA_FUSES_WRITTEN")}}

InOrder(f) ==
    \A p \in Reports : \A i \in 1..Len(f) :
        f[i] = p[2] => Achieved(p[1]) \/ \E j \in 1..(i - 1) : f[j] = p[1]

\* A flow that has failed is over.
FailedIsOver == failed => flow = <<>> /\ state # "reset"

BootInv == TypeOK /\ InOrder(flow) /\ ProgressTruthful /\ FailedIsOver

----------------------------------------------------------------------------
\* The flows are sequences of steps.
Steps == {Ck(c) : c \in Checkpoints} \cup {Ms(m) : m \in Milestones}
            \cup {Call(f) : f \in FlowCalls}

ColdBootHead ==
    <<Ck("ColdBootFlowStarted"), Ms("ROM_STARTED"),
      Call("stub"), Ck("McuMemoryMapInitialized"),
      Call("stub"), Ck("StrapsLoaded"),
      Call("i3c_init"), Call("otp_init"), Ck("McuRegistersInitialized"),
      Call("caliptra_boot_go"), Ms("CPTRA_BOOT_GO_ASSERTED"), Ck("CaliptraBootGoAsserted"),
      Call("stub"), Ms("CPTRA_FUSES_WRITTEN"), Ck("FusesPopulatedToCaliptra"),
      Call("wait_caliptra_ready"), Ck("CaliptraReadyForMailbox")>>

\* Every step is of one of the three kinds.
LEMMA StepKinds ==
    /\ \A c \in Checkpoints : Ck(c) \in Steps
    /\ \A m \in Milestones : Ms(m) \in Steps
    /\ \A f \in FlowCalls : Call(f) \in Steps
BY DEF Steps

\* Only steps of their own kind name a checkpoint or a milestone.
LEMMA StepNames ==
    ASSUME NEW s \in Steps
    PROVE  /\ s[1] = "milestone" => s[2] \in Milestones /\ s = Ms(s[2])
           /\ s[1] = "checkpoint" => s[2] \in Checkpoints /\ s = Ck(s[2])
           /\ s[1] = "call" => s = Call(s[2])
BY DEF Steps, Ck, Ms, Call

\* device_ownership_transfer, with the owner that determine_owner answers.
LEMMA OwnershipSteps == DeviceOwnershipTransfer \in Seq(Steps)
<1> DEFINE a == <<Ck("DeviceOwnershipTransferStarted"), Call("stub"),
                  Ck("DeviceOwnershipTransferFlashRead"), Call("stub"),
                  Ck("DeviceOwnershipDetermineOwner")>>
           b == <<Ck("DeviceOwnershipTransferComplete")>>
<1>1. a \in Seq(Steps) /\ b \in Seq(Steps)
  BY StepKinds DEF Checkpoints, McuRomBootStatus, FlowCalls
<1>2. DeviceOwnershipTransfer = (a \o <<>>) \o b
  BY DEF DeviceOwnershipTransfer, determine_owner
<1> HIDE DEF a, b
<1> QED BY <1>1, <1>2

\* A concatenation begins like its first part.
LEMMA ConcatHead ==
    ASSUME NEW S, NEW u \in Seq(S), NEW v \in Seq(S)
    PROVE  /\ u \o v \in Seq(S) /\ Len(u \o v) = Len(u) + Len(v)
           /\ \A k \in 1..Len(u) : (u \o v)[k] = u[k]
<1>1. \A k \in 1..(Len(u) + Len(v)) :
        (u \o v)[k] = IF k <= Len(u) THEN u[k] ELSE v[k - Len(u)]
  BY ConcatProperties
<1> QED BY <1>1

\* The cold boot flow begins with ColdBootHead.
LEMMA ColdBootSteps ==
    /\ ColdBoot \in Seq(Steps) /\ Len(ColdBoot) > 17
    /\ \A k \in 1..17 : ColdBoot[k] = ColdBootHead[k]
<1> DEFINE b == <<Ck("DeviceOwnershipTransferComplete"), Call("stub"),
                  Ms("COLD_BOOT_FLOW_COMPLETE"), Ck("ColdBootFlowComplete")>>
           d == ColdBootHead \o DeviceOwnershipTransfer
<1>1. ColdBootHead \in Seq(Steps) /\ Len(ColdBootHead) = 17
  BY StepKinds DEF ColdBootHead, Checkpoints, McuRomBootStatus, Milestones, BootMilestones, FlowCalls
<1>2. b \in Seq(Steps) /\ Len(b) = 4
  BY StepKinds DEF Checkpoints, McuRomBootStatus, Milestones, BootMilestones, FlowCalls
<1>3. ColdBoot = d \o b
  BY DEF ColdBoot, ColdBootHead
<1>4. d \in Seq(Steps) /\ Len(d) = Len(ColdBootHead) + Len(DeviceOwnershipTransfer)
  BY <1>1, OwnershipSteps, ConcatHead, Zenon
<1>5. Len(DeviceOwnershipTransfer) \in Nat
  BY OwnershipSteps
<1>6. d \o b \in Seq(Steps) /\ Len(d \o b) = Len(d) + Len(b)
  <2> HIDE DEF b, d
  <2> QED BY <1>2, <1>4, ConcatHead, Zenon
<1>7. ASSUME NEW k \in 1..17 PROVE ColdBoot[k] = ColdBootHead[k]
  <2>1. k \in 1..Len(ColdBootHead) /\ k \in 1..Len(d)
    <3> HIDE DEF b, d
    <3> QED BY <1>1, <1>4, <1>5
  <2>2. d[k] = ColdBootHead[k]
    BY <1>1, <2>1, OwnershipSteps, ConcatHead
  <2>3. (d \o b)[k] = d[k]
    <3> HIDE DEF b, d
    <3> QED BY <1>2, <1>4, <2>1, ConcatHead
  <2> QED BY <1>3, <2>2, <2>3
<1> HIDE DEF b, d
<1>8. ColdBoot \in Seq(Steps) /\ Len(ColdBoot) = Len(d) + Len(b)
  BY <1>3, <1>6, Zenon
<1>9. Len(ColdBoot) > 17
  BY <1>1, <1>2, <1>4, <1>5, <1>8
<1> QED BY <1>7, <1>8, <1>9, Zenon

\* The four flows are sequences of steps.
LEMMA FlowSteps == \A f \in Flows : f \in Seq(Steps) /\ f # <<>>
<1>1. WarmBoot \in Seq(Steps) /\ WarmBoot # <<>>
  BY StepKinds DEF WarmBoot, Checkpoints, McuRomBootStatus, Milestones, BootMilestones, FlowCalls
<1>2. FwBoot \in Seq(Steps) /\ FwBoot # <<>>
  BY StepKinds DEF FwBoot, Checkpoints, McuRomBootStatus, Milestones, BootMilestones, FlowCalls
<1>3. FwHitlessUpdate \in Seq(Steps) /\ FwHitlessUpdate # <<>>
  BY StepKinds DEF FwHitlessUpdate, Checkpoints, McuRomBootStatus, FlowCalls
<1>4. ColdBoot # <<>>
  BY ColdBootSteps
<1> QED BY <1>1, <1>2, <1>3, <1>4, ColdBootSteps DEF Flows

----------------------------------------------------------------------------
\* The order of the flows.

\* What Achieved says of each step.
LEMMA AchievedMeans ==
    /\ Achieved(Call("i3c_init")) <=> dev.i3cEnabled
    /\ Achieved(Call("otp_init")) <=> "otp_idle" \in seen
    /\ Achieved(Call("caliptra_boot_go")) <=> dev.caliptra # "held"
    /\ Achieved(Call("wait_caliptra_ready")) <=> "mbox_not_busy" \in seen
    /\ \A m \in Milestones : Achieved(Ms(m)) <=> m \in milestones
BY DEF Achieved, Call, Ms

\* In the cold boot flow what is reported comes after what does it.
LEMMA ColdBootInOrder ==
    ASSUME NEW p \in Reports
    PROVE  \E j \in 1..16 : ColdBoot[j] = p[1] /\ \A k \in 1..j : ColdBoot[k] # p[2]
<1>1. /\ ColdBoot[1] = Ck("ColdBootFlowStarted") /\ ColdBoot[2] = Ms("ROM_STARTED")
      /\ ColdBoot[3] = Call("stub") /\ ColdBoot[4] = Ck("McuMemoryMapInitialized")
      /\ ColdBoot[5] = Call("stub") /\ ColdBoot[6] = Ck("StrapsLoaded")
      /\ ColdBoot[7] = Call("i3c_init") /\ ColdBoot[8] = Call("otp_init")
      /\ ColdBoot[9] = Ck("McuRegistersInitialized")
      /\ ColdBoot[10] = Call("caliptra_boot_go")
      /\ ColdBoot[11] = Ms("CPTRA_BOOT_GO_ASSERTED")
      /\ ColdBoot[12] = Ck("CaliptraBootGoAsserted")
      /\ ColdBoot[13] = Call("stub") /\ ColdBoot[14] = Ms("CPTRA_FUSES_WRITTEN")
      /\ ColdBoot[15] = Ck("FusesPopulatedToCaliptra")
      /\ ColdBoot[16] = Call("wait_caliptra_ready")
  BY ColdBootSteps DEF ColdBootHead
<1>2. CASE p = <<Call("caliptra_boot_go"), Ms("CPTRA_BOOT_GO_ASSERTED")>>
  <2>1. ColdBoot[10] = p[1] /\ \A k \in 1..10 : ColdBoot[k] # p[2]
    BY <1>1, <1>2 DEF Ck, Ms, Call
  <2> QED BY <2>1
<1>3. CASE p = <<Ms("CPTRA_BOOT_GO_ASSERTED"), Ms("CPTRA_FUSES_WRITTEN")>>
  <2>1. ColdBoot[11] = p[1] /\ \A k \in 1..11 : ColdBoot[k] # p[2]
    BY <1>1, <1>3 DEF Ck, Ms, Call
  <2> QED BY <2>1
<1>4. CASE p[2] = Ck("McuRegistersInitialized") /\ p[1] = Call("i3c_init")
  <2>1. ColdBoot[7] = p[1] /\ \A k \in 1..7 : ColdBoot[k] # p[2]
    BY <1>1, <1>4 DEF Ck, Ms, Call
  <2> QED BY <2>1
<1>5. CASE p[2] = Ck("McuRegistersInitialized") /\ p[1] = Call("otp_init")
  <2>1. ColdBoot[8] = p[1] /\ \A k \in 1..8 : ColdBoot[k] # p[2]
    BY <1>1, <1>5 DEF Ck, Ms, Call
  <2> QED BY <2>1
<1>6. CASE p[2] = Ms("COLD_BOOT_FLOW_COMPLETE")
  <2>1. \A k \in 1..16 : ColdBoot[k] # p[2]
    BY <1>1, <1>6 DEF Ck, Ms, Call
  <2>2. p[1] \in {Call("i3c_init"), Call("otp_init"), Call("wait_caliptra_ready"),
                  Ms("ROM_STARTED"), Ms("CPTRA_FUSES_WRITTEN")}
    BY <1>6 DEF Reports, Ck, Ms, Call
  <2>3. \E j \in 1..16 : ColdBoot[j] = p[1]
    BY <1>1, <2>2
  <2> QED BY <2>1, <2>3
<1> QED BY <1>2, <1>3, <1>4, <1>5, <1>6 DEF Reports

\* Every flow is in order when it begins.
LEMMA FlowsInOrder == \A f \in Flows : InOrder(f)
<1>1. InOrder(ColdBoot)
  <2> SUFFICES ASSUME NEW p \in Reports, NEW i \in 1..Len(ColdBoot), ColdBoot[i] = p[2]
               PROVE  \E j \in 1..(i - 1) : ColdBoot[j] = p[1]
    BY DEF InOrder
  <2>1. PICK j \in 1..16 : ColdBoot[j] = p[1] /\ \A k \in 1..j : ColdBoot[k] # p[2]
    BY ColdBootInOrder
  <2>2. j \in 1..(i - 1)
    BY <2>1, ColdBootSteps
  <2> QED BY <2>1, <2>2
<1>2. \A p \in Reports : p[2] \in {Ms("CPTRA_BOOT_GO_ASSERTED"), Ms("CPTRA_FUSES_WRITTEN"),
          Ck("McuRegistersInitialized"), Ms("COLD_BOOT_FLOW_COMPLETE")}
  BY DEF Reports
<1>3. InOrder(WarmBoot)
  BY <1>2 DEF InOrder, WarmBoot, Ck, Ms, Call
<1>4. InOrder(FwBoot)
  BY <1>2 DEF InOrder, FwBoot, Ck, Ms, Call
<1>5. InOrder(FwHitlessUpdate)
  BY <1>2 DEF InOrder, FwHitlessUpdate, Ck, Ms, Call
<1> QED BY <1>1, <1>3, <1>4, <1>5 DEF Flows

\* What is left after a step is in order if the step has had its effect.
LEMMA TailInOrder ==
    ASSUME flow \in Seq(Steps), flow # <<>>, InOrder(flow), flow' = Tail(flow),
           \A p \in Reports : Achieved(p[1]) \/ p[1] = flow[1] => Achieved(p[1])'
    PROVE  InOrder(flow)'
<1>1. /\ Len(flow) \in Nat /\ Len(flow') = Len(flow) - 1
      /\ \A i \in 1..Len(flow') : flow'[i] = flow[i + 1]
  BY HeadTailProperties
<1> SUFFICES ASSUME NEW p \in Reports, NEW i \in 1..Len(flow'), flow'[i] = p[2]
             PROVE  Achieved(p[1])' \/ \E j \in 1..(i - 1) : flow'[j] = p[1]
  BY DEF InOrder
<1>2. i + 1 \in 1..Len(flow) /\ flow[i + 1] = p[2]
  BY <1>1
<1>3. CASE Achieved(p[1])
  BY <1>3
<1>4. CASE \E j \in 1..i : flow[j] = p[1]
  <2>1. PICK j \in 1..i : flow[j] = p[1]
    BY <1>4
  <2>2. CASE j = 1
    BY <2>1, <2>2
  <2>3. CASE j # 1
    <3>1. j - 1 \in 1..(i - 1) /\ j - 1 \in 1..Len(flow') /\ (j - 1) + 1 = j
      BY <1>1, <2>3
    <3>2. flow'[j - 1] = p[1]
      BY <1>1, <2>1, <3>1
    <3> QED BY <3>1, <3>2
  <2> QED BY <2>2, <2>3
<1>5. Achieved(p[1]) \/ \E j \in 1..((i + 1) - 1) : flow[j] = p[1]
  BY <1>2 DEF InOrder
<1>6. (i + 1) - 1 = i
  BY <1>1
<1> QED BY <1>3, <1>4, <1>5, <1>6

----------------------------------------------------------------------------
\* What is left of a flow.

Left(x) == \E f \in Flows : \E i \in 1..(Len(f) + 1) : x = SubSeq(f, i, Len(f))

\* What is left is a sequence of steps, and so is what is left after one more.
LEMMA LeftSteps ==
    ASSUME NEW x, Left(x)
    PROVE  /\ x \in Seq(Steps)
           /\ x # <<>> => Left(Tail(x))
<1>1. PICK f \in Flows : \E i \in 1..(Len(f) + 1) : x = SubSeq(f, i, Len(f))
  BY DEF Left
<1>2. PICK i \in 1..(Len(f) + 1) : x = SubSeq(f, i, Len(f))
  BY <1>1
<1>3. f \in Seq(Steps) /\ Len(f) \in Nat /\ \A k \in 1..Len(f) : f[k] \in Steps
  BY FlowSteps
<1>4. CASE i = Len(f) + 1
  <2>1. x = <<>>
    BY <1>2, <1>3, <1>4, SubSeqEmpty
  <2> QED BY <2>1
<1>5. CASE i \in 1..Len(f)
  <2>1. x \in Seq(Steps)
    <3>1. \A k \in i..Len(f) : f[k] \in Steps
      BY <1>3, <1>5
    <3> QED BY <1>2, <1>3, <1>5, <3>1, SubSeqProperties
  <2>2. Tail(x) = SubSeq(f, i + 1, Len(f))
    <3>1. Len(f) \in i..Len(f)
      BY <1>3, <1>5
    <3> QED BY <1>2, <1>3, <1>5, <3>1, HeadTailOfSubSeq
  <2>3. i + 1 \in 1..(Len(f) + 1)
    BY <1>3, <1>5
  <2> QED BY <2>1, <2>2, <2>3 DEF Left
<1> QED BY <1>3, <1>4, <1>5

\* Nothing is left of a flow that is over, all of one that begins.
LEMMA LeftEnds == Left(<<>>) /\ \A f \in Flows : Left(f)
<1>1. ASSUME NEW f \in Flows PROVE Left(f) /\ Left(<<>>)
  <2>1. f \in Seq(Steps) /\ Len(f) \in Nat
    BY FlowSteps
  <2>2. SubSeq(f, 1, Len(f)) = f
    BY <2>1, SubSeqFull
  <2>3. SubSeq(f, Len(f) + 1, Len(f)) = <<>>
    BY <2>1, SubSeqEmpty
  <2>4. 1 \in 1..(Len(f) + 1) /\ Len(f) + 1 \in 1..(Len(f) + 1)
    BY <2>1
  <2> QED BY <2>2, <2>3, <2>4 DEF Left
<1> QED BY <1>1 DEF Flows

\* AchievedMeans, after a step.
LEMMA AchievedMeansNext ==
    /\ Achieved(Call("i3c_init"))' <=> dev'.i3cEnabled
    /\ Achieved(Call("otp_init"))' <=> "otp_idle" \in seen'
    /\ Achieved(Call("caliptra_boot_go"))' <=> dev'.caliptra # "held"
    /\ Achieved(Call("wait_caliptra_ready"))' <=> "mbox_not_busy" \in seen'
    /\ \A m \in Milestones : Achieved(Ms(m))' <=> m \in milestones'
BY DEF Achieved, Call, Ms

\* The steps that do something.
Doers == {Call("i3c_init"), Call("otp_init"), Call("caliptra_boot_go"),
          Call("wait_caliptra_ready"), Ms("ROM_STARTED"), Ms("CPTRA_BOOT_GO_ASSERTED"),
          Ms("CPTRA_FUSES_WRITTEN")}

\* Until a power cycle nothing that has been achieved is undone.
Grows ==
    /\ dev.i3cEnabled => dev'.i3cEnabled
    /\ dev.caliptra # "held" => dev'.caliptra # "held"
    /\ seen \subseteq seen' /\ milestones \subseteq milestones'

\* What has been done stays done.
LEMMA StaysAchieved ==
    ASSUME Grows PROVE \A p \in Reports : p[1] \in Doers /\ (Achieved(p[1]) => Achieved(p[1])')
<1>1. \A p \in Reports : p[1] \in Doers
  BY DEF Reports, Doers
<1>2. \A s \in Doers : Achieved(s) => Achieved(s)'
  BY AchievedMeans, AchievedMeansNext DEF Grows, Doers, Milestones, BootMilestones
<1> QED BY <1>1, <1>2

\* A flow that stands still, or is over, stays in order.
LEMMA StillInOrder ==
    ASSUME InOrder(flow), Grows, flow' = flow \/ flow' = <<>> PROVE InOrder(flow)'
<1>1. CASE flow' = <<>>
  BY <1>1 DEF InOrder
<1>2. CASE flow' = flow
  BY <1>2, StaysAchieved DEF InOrder
<1> QED BY <1>1, <1>2

\* A report at the head of what is left is true.
LEMMA HeadTrue ==
    ASSUME flow \in Seq(Steps), flow # <<>>, InOrder(flow), NEW p \in Reports, flow[1] = p[2]
    PROVE  Achieved(p[1])
<1>1. 1 \in 1..Len(flow)
  BY EmptySeq
<1>2. \A j \in 1..(1 - 1) : FALSE
  OBVIOUS
<1> QED BY <1>1, <1>2 DEF InOrder

----------------------------------------------------------------------------
\* The flow status register: what each setter does to the two halves.

\* Codes take the low half of a word, and shifting is undone by shifting back.
LEMMA Halves ==
    /\ \A n : Bits(n) \subseteq Half
    /\ \A v \in SUBSET Half : Shr16(Shl16(v)) = v /\ Shl16(v) \subseteq Word
                                /\ Shl16(v) \cap Half = {} /\ Shr16(v) = {}
    /\ \A v \in SUBSET Word : Shr16(v) \subseteq Half /\ v \cap Half \subseteq Half
    /\ \A v, w : Shr16(v \cup w) = Shr16(v) \cup Shr16(w)
    /\ Half \subseteq Word
<1>1. \A n : Bits(n) \subseteq Half
  BY Zenon DEF Bits
<1>2. \A v, w : Shr16(v \cup w) = Shr16(v) \cup Shr16(w)
  BY DEF Shr16
<1>3. ASSUME NEW v \in SUBSET Half
      PROVE  Shr16(Shl16(v)) = v /\ Shl16(v) \subseteq Word /\ Shl16(v) \cap Half = {}
  <2>1. \A b \in v : b \in 0..15
    BY DEF Half
  <2>2. \A x : x \in Shl16(v) <=> \E b \in v : x = b + 16
    BY DEF Shl16
  <2>3. Shl16(v) \subseteq Word /\ Shl16(v) \cap Half = {}
    BY <2>1, <2>2 DEF Half, Word
  <2>4. ASSUME NEW b \in Half PROVE b + 16 \in Shl16(v) <=> b \in v
    BY <2>1, <2>2 DEF Half
  <2>5. Shr16(Shl16(v)) = v
    BY <2>4 DEF Shr16
  <2> QED BY <2>3, <2>5
<1>4. ASSUME NEW v \in SUBSET Half PROVE Shr16(v) = {}
  BY DEF Shr16, Half
<1>5. \A v \in SUBSET Word : Shr16(v) \subseteq Half /\ v \cap Half \subseteq Half
  BY DEF Shr16
<1>6. Half \subseteq Word
  BY DEF Half, Word
<1> QED BY <1>1, <1>2, <1>3, <1>4, <1>5, <1>6

\* set_flow_checkpoint replaces the checkpoint and keeps the milestones.
LEMMA CheckpointSet ==
    ASSUME flowStatus \subseteq Word, NEW c \in Checkpoints, set_flow_checkpoint(c)
    PROVE  /\ flowStatus' \subseteq Word /\ flow_milestone' = flow_milestone
           /\ milestones' = milestones
           /\ \A d \in Checkpoints : Reported(d)' => d = c
<1> DEFINE ck == Bits(McuRomBootStatus[c])
           hi == Shl16(flow_milestone)
<1>1. flow_milestone \in SUBSET Half /\ ck \in SUBSET Half
  BY Halves DEF flow_milestone
<1>2. flowStatus' = hi \cup ck
  BY DEF set_flow_checkpoint, set_flow_status
<1>3. /\ Shr16(hi) = flow_milestone /\ hi \subseteq Word /\ hi \cap Half = {}
      /\ Shr16(ck) = {} /\ ck \subseteq Word
  BY <1>1, Halves
<1> HIDE DEF ck, hi
<1>4. flow_milestone' = flow_milestone
  <2>1. Shr16(flowStatus') = Shr16(hi) \cup Shr16(ck)
    BY <1>2, Halves
  <2> QED BY <1>3, <2>1 DEF flow_milestone
<1>5. flow_checkpoint' = ck
  BY <1>1, <1>2, <1>3 DEF flow_checkpoint
<1>6. \A d \in Checkpoints : Reported(d)' => d = c
  BY <1>5, StatusCodes DEF Reported, ck
<1>7. milestones' = milestones
  BY <1>4 DEF milestones
<1> QED BY <1>2, <1>3, <1>4, <1>6, <1>7

\* set_flow_milestone adds one and keeps the others and the checkpoint.
LEMMA MilestoneSet ==
    ASSUME flowStatus \subseteq Word, NEW m \in Milestones, set_flow_milestone(m)
    PROVE  /\ flowStatus' \subseteq Word /\ flow_milestone \subseteq flow_milestone'
           /\ milestones' = milestones \cup {m}
           /\ \A d \in Checkpoints : Reported(d)' <=> Reported(d)
<1> DEFINE ms == Bits(BootMilestones[m])
           hi == Shl16(ms)
<1>1. ms \in SUBSET Half
  BY Halves
<1>2. flowStatus' = hi \cup flowStatus
  BY DEF set_flow_milestone, set_flow_status
<1>3. Shr16(hi) = ms /\ hi \subseteq Word /\ hi \cap Half = {}
  BY <1>1, Halves
<1>4. \A k \in Milestones : \E b \in Half : Bits(BootMilestones[k]) = {b}
  BY StatusCodes
<1>5. \A k \in Milestones : Bits(BootMilestones[k]) = ms => k = m
  BY StatusCodes
<1> HIDE DEF ms, hi
<1>6. flow_milestone' = ms \cup flow_milestone
  <2>1. Shr16(flowStatus') = Shr16(hi) \cup Shr16(flowStatus)
    BY <1>2, Halves
  <2> QED BY <1>3, <2>1 DEF flow_milestone
<1>7. flow_checkpoint' = flow_checkpoint
  BY <1>2, <1>3 DEF flow_checkpoint
<1>8. \A d \in Checkpoints : Reported(d)' <=> Reported(d)
  BY <1>7 DEF Reported
<1>9. ASSUME NEW k \in Milestones PROVE k \in milestones' <=> k \in milestones \/ k = m
  <2>1. PICK b \in Half : Bits(BootMilestones[k]) = {b}
    BY <1>4
  <2>2. PICK d \in Half : ms = {d}
    BY <1>4 DEF ms
  <2>3. k \in milestones' <=> b \in flow_milestone'
    BY <2>1 DEF milestones
  <2>4. k \in milestones <=> b \in flow_milestone
    BY <2>1 DEF milestones
  <2>5. b = d <=> k = m
    BY <1>5, <2>1, <2>2 DEF ms
  <2> QED BY <1>6, <2>2, <2>3, <2>4, <2>5
<1>10. milestones \subseteq Milestones /\ milestones' \subseteq Milestones
  BY DEF milestones
<1>11. milestones' = milestones \cup {m}
  BY <1>9, <1>10
<1> QED BY <1>2, <1>3, <1>6, <1>8, <1>11

\* A register that nobody writes says the same as before.
LEMMA StatusKept ==
    ASSUME flowStatus' = flowStatus
    PROVE  /\ milestones' = milestones
           /\ \A c : Reported(c)' <=> Reported(c)
BY DEF milestones, Reported, flow_milestone, flow_checkpoint

\* A register that holds 0 says nothing.
LEMMA EmptyStatus ==
    ASSUME flowStatus = {}
    PROVE  milestones = {} /\ ~Reported("McuRegistersInitialized")
<1>1. flow_milestone = {} /\ flow_checkpoint = {}
  BY DEF flow_milestone, flow_checkpoint, Shr16
<1>2. \A m \in Milestones : Bits(BootMilestones[m]) # {}
  BY StatusCodes
<1>3. "McuRegistersInitialized" \in Checkpoints
  BY DEF Checkpoints, McuRomBootStatus
<1>4. Bits(McuRomBootStatus["McuRegistersInitialized"]) # {}
  BY <1>3, StatusCodes
<1> QED BY <1>1, <1>2, <1>4 DEF milestones, Reported

\* The same after a step.
LEMMA EmptyStatusNext ==
    flowStatus' = {} => milestones' = {} /\ ~Reported("McuRegistersInitialized")'
<1> SUFFICES ASSUME flowStatus' = {}
             PROVE  milestones' = {} /\ ~Reported("McuRegistersInitialized")'
  OBVIOUS
<1>1. flow_milestone' = {} /\ flow_checkpoint' = {}
  BY DEF flow_milestone, flow_checkpoint, Shr16
<1>2. \A m \in Milestones : Bits(BootMilestones[m]) # {}
  BY StatusCodes
<1>3. "McuRegistersInitialized" \in Checkpoints
  BY DEF Checkpoints, McuRomBootStatus
<1>4. Bits(McuRomBootStatus["McuRegistersInitialized"]) # {}
  BY <1>3, StatusCodes
<1> QED BY <1>1, <1>2, <1>4 DEF milestones, Reported

----------------------------------------------------------------------------
\* The steps.

\* Power-on.
LEMMA InitBoot == Init => BootInv
<1> SUFFICES ASSUME Init PROVE BootInv
  OBVIOUS
<1>1. TypeOK
  <2>1. Left(flow)
    BY LeftEnds DEF Init
  <2>2. dev \in Devices
    BY DEF Init, PowerOnDevices, Devices, Codes
  <2>3. \E f \in Flows : \E i \in 1..(Len(f) + 1) : flow = SubSeq(f, i, Len(f))
    BY <2>1 DEF Left
  <2>4. /\ reason \subseteq ResetBits /\ flowStatus \subseteq Word
        /\ state \in {"reset", "running", "spin", "fatal"}
        /\ handler \in BOOLEAN /\ code \in Codes /\ failed \in BOOLEAN
        /\ seen \subseteq {"otp_idle", "mbox_not_busy"}
    BY DEF Init, Codes
  <2>5. tmo \in 0..OTP_TIMEOUT /\ resets \in 0..MaxResets
    BY BootAssumption DEF Init
  <2> QED BY <2>2, <2>3, <2>4, <2>5 DEF TypeOK
<1>2. InOrder(flow)
  BY DEF Init, InOrder
<1>3. ProgressTruthful /\ FailedIsOver
  BY EmptyStatus DEF Init, ProgressTruthful, FailedIsOver
<1> QED BY <1>1, <1>2, <1>3 DEF BootInv

\* WriteMci changes the two registers it is for.
LEMMA WriteMciFacts ==
    ASSUME dev \in Devices, NEW c \in Codes,
           NEW off \in {REG_FW_ERROR_FATAL, REG_WDT_TIMER2_TIMEOUT_PERIOD_0}
    PROVE  /\ WriteMci(off, c) \in Devices
           /\ WriteMci(off, c).i3cEnabled = dev.i3cEnabled
           /\ WriteMci(off, c).caliptra = dev.caliptra
<1>1. CASE off = REG_FW_ERROR_FATAL
  <2>1. WriteMci(off, c) = [dev EXCEPT !.fatal = c]
    BY <1>1 DEF WriteMci, REG_FW_ERROR_FATAL, REG_WDT_TIMER2_TIMEOUT_PERIOD_0
  <2> QED BY <2>1 DEF Devices
<1>2. CASE off = REG_WDT_TIMER2_TIMEOUT_PERIOD_0
  <2>1. WriteMci(off, c) = [dev EXCEPT !.wdt2 = c]
    BY <1>2 DEF WriteMci, REG_FW_ERROR_FATAL, REG_WDT_TIMER2_TIMEOUT_PERIOD_0
  <2> QED BY <2>1 DEF Devices
<1> QED BY <1>1, <1>2

\* A fatal error stops the ROM and leaves the devices of the flows alone.
LEMMA FatalFacts ==
    ASSUME dev \in Devices, NEW c \in Codes, fatal_error_raw(c)
    PROVE  /\ code' = c /\ state' = "fatal" /\ dev' \in Devices
           /\ dev'.i3cEnabled = dev.i3cEnabled /\ dev'.caliptra = dev.caliptra
BY WriteMciFacts DEF fatal_error_raw, RomFatalErrorHandler, HANDLER_FATAL_OFFSET,
                     REG_WDT_TIMER2_TIMEOUT_PERIOD_0, REG_FW_ERROR_FATAL

\* Steps that leave the status and what has been seen alone.
LEMMA QuietBoot ==
    ASSUME BootInv, UNCHANGED <<reason, flowStatus, seen, resets>>, dev' \in Devices,
           dev.i3cEnabled => dev'.i3cEnabled, dev.caliptra # "held" => dev'.caliptra # "held",
           state' \in {"reset", "running", "spin", "fatal"}, code' \in Codes,
           handler' \in BOOLEAN,
           tmo' \in 0..OTP_TIMEOUT \/ tmo' \in 0..READY_TIMEOUT,
           \/ flow' = flow /\ failed' = failed /\ (state' = "reset" => state = "reset")
           \/ flow' = <<>> /\ failed' = TRUE /\ state' # "reset"
    PROVE  BootInv'
<1>1. Grows /\ flowStatus' = flowStatus
  BY StatusKept DEF Grows
<1>2. Left(flow) /\ Left(flow')
  BY LeftEnds DEF BootInv, TypeOK, Left
<1>3. TypeOK'
  BY <1>1, <1>2 DEF BootInv, TypeOK, Left
<1>4. InOrder(flow)'
  BY <1>1, StillInOrder DEF BootInv
<1>5. ProgressTruthful'
  BY <1>1, StatusKept DEF BootInv, ProgressTruthful
<1>6. FailedIsOver'
  BY DEF BootInv, FailedIsOver
<1> QED BY <1>3, <1>4, <1>5, <1>6 DEF BootInv

\* The flow goes on after a step that has had its effect.
LEMMA StepBoot ==
    ASSUME BootInv, Grows, flow # <<>>, flow' = Tail(flow), UNCHANGED <<reason, resets, failed>>,
           \A s \in Doers : s = flow[1] => Achieved(s)',
           dev' \in Devices, flowStatus' \subseteq Word,
           state' = state, code' = code, handler' = handler,
           seen' \subseteq {"otp_idle", "mbox_not_busy"},
           tmo' \in 0..OTP_TIMEOUT \/ tmo' \in 0..READY_TIMEOUT
    PROVE  TypeOK' /\ InOrder(flow)' /\ FailedIsOver'
<1>1. Left(flow)
  BY DEF BootInv, TypeOK, Left
<1>2. flow \in Seq(Steps) /\ Left(flow')
  BY <1>1, LeftSteps
<1>3. TypeOK'
  BY <1>2 DEF BootInv, TypeOK, Left
<1>4. InOrder(flow)'
  BY <1>2, StaysAchieved, TailInOrder DEF BootInv
<1>5. FailedIsOver'
  BY DEF BootInv, FailedIsOver
<1> QED BY <1>3, <1>4, <1>5

\* A running flow stands at a step.
LEMMA AtStep ==
    ASSUME BootInv, NEW kind, At(kind)
    PROVE  /\ flow \in Seq(Steps) /\ flow # <<>> /\ flow[1] \in Steps /\ flow[1][1] = kind
           /\ state = "running" /\ InOrder(flow)
<1>1. Left(flow) /\ flow # <<>>
  BY DEF BootInv, TypeOK, Left, At
<1>2. flow \in Seq(Steps)
  BY <1>1, LeftSteps
<1>3. flow[1] \in Steps
  BY <1>1, <1>2
<1> QED BY <1>1, <1>2, <1>3 DEF At, BootInv

\* A checkpoint at the head of the flow is reported.
LEMMA CheckpointBoot ==
    ASSUME BootInv, WriteStatus, At("checkpoint"), set_flow_checkpoint(flow[1][2])
    PROVE  BootInv'
<1>1. /\ flow \in Seq(Steps) /\ flow # <<>> /\ flow[1] \in Steps
      /\ flow[1][1] = "checkpoint" /\ InOrder(flow)
  BY AtStep
<1>2. flow[1][2] \in Checkpoints /\ flow[1] = Ck(flow[1][2])
  BY <1>1, StepNames
<1>3. /\ flowStatus' \subseteq Word /\ milestones' = milestones /\ flow' = Tail(flow)
      /\ \A c \in Checkpoints : Reported(c)' => c = flow[1][2]
      /\ UNCHANGED <<reason, dev, state, tmo, handler, code, failed, seen, resets>>
  BY <1>2, CheckpointSet DEF WriteStatus, ghosts, BootInv, TypeOK
<1>4. flow[1] \notin Doers
  BY <1>1, <1>2 DEF Doers, Ck, Call, Ms
<1>5. TypeOK' /\ InOrder(flow)' /\ FailedIsOver'
  <2>1. Grows
    BY <1>3 DEF Grows
  <2> QED BY <1>1, <1>2, <1>3, <1>4, <2>1, StepBoot DEF BootInv, TypeOK
<1>6. Reported("McuRegistersInitialized")' => dev.i3cEnabled /\ "otp_idle" \in seen
  <2> SUFFICES ASSUME flow[1] = Ck("McuRegistersInitialized")
               PROVE  dev.i3cEnabled /\ "otp_idle" \in seen
    BY <1>2, <1>3 DEF Checkpoints, McuRomBootStatus
  <2>1. \A c \in {"i3c_init", "otp_init"} :
          <<Call(c), Ck("McuRegistersInitialized")>> \in Reports
    BY DEF Reports
  <2>2. Achieved(Call("i3c_init")) /\ Achieved(Call("otp_init"))
    BY <1>1, <2>1, HeadTrue
  <2> QED BY <2>2, AchievedMeans
<1>7. ProgressTruthful'
  BY <1>3, <1>6 DEF BootInv, ProgressTruthful
<1> QED BY <1>5, <1>7 DEF BootInv

\* A milestone at the head of the flow is reported.
LEMMA MilestoneBoot ==
    ASSUME BootInv, WriteStatus, At("milestone"), set_flow_milestone(flow[1][2])
    PROVE  BootInv'
<1>1. /\ flow \in Seq(Steps) /\ flow # <<>> /\ flow[1] \in Steps
      /\ flow[1][1] = "milestone" /\ InOrder(flow)
  BY AtStep
<1>2. PICK m \in Milestones : flow[1][2] = m /\ flow[1] = Ms(m)
  BY <1>1, StepNames
<1>3. /\ flowStatus' \subseteq Word /\ milestones' = milestones \cup {m} /\ flow' = Tail(flow)
      /\ \A c \in Checkpoints : Reported(c)' <=> Reported(c)
      /\ UNCHANGED <<reason, dev, state, tmo, handler, code, failed, seen, resets>>
  BY <1>2, MilestoneSet DEF WriteStatus, ghosts, BootInv, TypeOK
<1>4. TypeOK' /\ InOrder(flow)' /\ FailedIsOver'
  <2>1. Grows
    BY <1>3 DEF Grows
  <2>2. Achieved(Ms(m))'
    BY <1>2, <1>3, AchievedMeansNext
  <2> QED BY <1>1, <1>2, <1>3, <2>1, <2>2, StepBoot DEF BootInv, TypeOK
<1>5. m = "CPTRA_BOOT_GO_ASSERTED" => dev.caliptra # "held"
  <2>1. <<Call("caliptra_boot_go"), Ms("CPTRA_BOOT_GO_ASSERTED")>> \in Reports
    BY DEF Reports
  <2> QED BY <1>1, <1>2, <2>1, HeadTrue, AchievedMeans
<1>6. m = "CPTRA_FUSES_WRITTEN" => "CPTRA_BOOT_GO_ASSERTED" \in milestones
  <2>1. <<Ms("CPTRA_BOOT_GO_ASSERTED"), Ms("CPTRA_FUSES_WRITTEN")>> \in Reports
    BY DEF Reports
  <2> QED BY <1>1, <1>2, <2>1, HeadTrue, AchievedMeans DEF Milestones, BootMilestones
<1>7. m = "COLD_BOOT_FLOW_COMPLETE" =>
        /\ dev.i3cEnabled /\ seen = {"otp_idle", "mbox_not_busy"}
        /\ {"ROM_STARTED", "CPTRA_FUSES_WRITTEN"} \subseteq milestones
  <2> SUFFICES ASSUME flow[1] = Ms("COLD_BOOT_FLOW_COMPLETE")
               PROVE  /\ dev.i3cEnabled /\ seen = {"otp_idle", "mbox_not_busy"}
                      /\ {"ROM_STARTED", "CPTRA_FUSES_WRITTEN"} \subseteq milestones
    BY <1>2
  <2>1. \A s \in {Call("i3c_init"), Call("otp_init"), Call("wait_caliptra_ready"),
                  Ms("ROM_STARTED"), Ms("CPTRA_FUSES_WRITTEN")} :
          <<s, Ms("COLD_BOOT_FLOW_COMPLETE")>> \in Reports
    BY DEF Reports
  <2>2. \A s \in {Call("i3c_init"), Call("otp_init"), Call("wait_caliptra_ready"),
                  Ms("ROM_STARTED"), Ms("CPTRA_FUSES_WRITTEN")} : Achieved(s)
    BY <1>1, <2>1, HeadTrue
  <2>3. seen \subseteq {"otp_idle", "mbox_not_busy"}
    BY DEF BootInv, TypeOK
  <2> QED BY <2>2, <2>3, AchievedMeans DEF Milestones, BootMilestones
<1>8. ProgressTruthful'
  BY <1>3, <1>5, <1>6, <1>7 DEF BootInv, ProgressTruthful, Checkpoints, McuRomBootStatus
<1> QED BY <1>4, <1>8 DEF BootInv

\* A call of a running flow.
LEMMA AtTheCall ==
    ASSUME BootInv, NEW f, AtCall(f)
    PROVE  flow \in Seq(Steps) /\ flow # <<>> /\ flow[1] = Call(f) /\ state = "running"
BY AtStep, StepNames DEF AtCall

\* A call that succeeds has had its effect when the flow goes on.
LEMMA CallBoot == ASSUME BootInv, CallSucceeds PROVE BootInv'
<1>1. /\ flow' = Tail(flow) /\ milestones' = milestones
      /\ \A c \in Checkpoints : Reported(c)' <=> Reported(c)
      /\ UNCHANGED <<reason, flowStatus, state, tmo, handler, code, failed, seen, resets>>
  BY StatusKept DEF CallSucceeds, ghosts
<1>2. dev \in Devices
  BY DEF BootInv, TypeOK
<1>3. ASSUME NEW f, AtCall(f), dev' \in Devices,
             dev.i3cEnabled => dev'.i3cEnabled, dev.caliptra # "held" => dev'.caliptra # "held",
             Call(f) \in Doers => Achieved(Call(f))'
      PROVE  BootInv'
  <2>1. Grows
    BY <1>1, <1>3 DEF Grows
  <2>2. \A s \in Doers : s = flow[1] => Achieved(s)'
    BY <1>3, AtTheCall
  <2>3. TypeOK' /\ InOrder(flow)' /\ FailedIsOver'
    BY <1>1, <1>3, <2>1, <2>2, StepBoot, AtTheCall DEF BootInv, TypeOK
  <2>4. ProgressTruthful'
    BY <1>1, <1>3 DEF BootInv, ProgressTruthful, Checkpoints, McuRomBootStatus
  <2> QED BY <2>3, <2>4 DEF BootInv
<1>4. CASE AtCall("stub") /\ UNCHANGED dev
  <2>1. Call("stub") \notin Doers
    BY DEF Doers, Call, Ms
  <2> QED BY <1>2, <1>3, <1>4, <2>1
<1>5. CASE AtCall("i3c_init") /\ dev' = [dev EXCEPT !.i3cEnabled = TRUE]
  <2>1. dev' \in Devices /\ dev'.i3cEnabled /\ dev'.caliptra = dev.caliptra
    BY <1>2, <1>5 DEF Devices
  <2> QED BY <1>3, <1>5, <2>1, AchievedMeansNext
<1>6. CASE AtCall("caliptra_boot_go") /\ caliptra_boot_go
  <2>1. /\ dev' \in Devices /\ dev'.i3cEnabled = dev.i3cEnabled
        /\ dev'.caliptra # "held"
    BY <1>2, <1>6 DEF caliptra_boot_go, Devices
  <2> QED BY <1>3, <1>6, <2>1, AchievedMeansNext
<1> QED BY <1>4, <1>5, <1>6 DEF CallSucceeds

\* A wait whose condition is met.
LEMMA WaitMetBoot ==
    ASSUME BootInv, NEW f, NEW mark \in {"otp_idle", "mbox_not_busy"}, WaitMet(f, mark),
           \/ f = "otp_init" /\ mark = "otp_idle"
           \/ f = "wait_caliptra_ready" /\ mark = "mbox_not_busy"
    PROVE  BootInv'
<1>1. /\ flow' = Tail(flow) /\ milestones' = milestones
      /\ \A c \in Checkpoints : Reported(c)' <=> Reported(c)
      /\ UNCHANGED <<reason, flowStatus, dev, state, handler, code, failed, resets>>
      /\ tmo' = 0 /\ seen' = seen \cup {mark} /\ AtCall(f)
  BY StatusKept DEF WaitMet
<1>2. Grows
  BY <1>1 DEF Grows
<1>3. \A s \in Doers : s = flow[1] => Achieved(s)'
  BY <1>1, AtTheCall, AchievedMeansNext
<1>4. tmo' \in 0..OTP_TIMEOUT
  BY <1>1, BootAssumption
<1>5. TypeOK' /\ InOrder(flow)' /\ FailedIsOver'
  BY <1>1, <1>2, <1>3, <1>4, StepBoot, AtTheCall DEF BootInv, TypeOK
<1>6. ProgressTruthful'
  <2>1. seen \subseteq {"otp_idle", "mbox_not_busy"}
    BY DEF BootInv, TypeOK
  <2> QED BY <1>1, <2>1 DEF BootInv, ProgressTruthful, Checkpoints, McuRomBootStatus
<1> QED BY <1>5, <1>6 DEF BootInv

\* A wait whose condition is not met: another turn, or the end of the flow.
LEMMA WaitNotMetBoot ==
    ASSUME BootInv, NEW f, NEW limit \in {OTP_TIMEOUT, READY_TIMEOUT}, WaitNotMet(f, limit)
    PROVE  BootInv'
<1>1. tmo' \in 0..OTP_TIMEOUT \/ tmo' \in 0..READY_TIMEOUT
  BY BootAssumption DEF WaitNotMet, BootInv, TypeOK
<1>2. /\ UNCHANGED <<reason, flowStatus, dev, state, handler, code, seen, resets>>
      /\ state = "running"
      /\ \/ flow' = <<>> /\ failed' = TRUE
         \/ flow' = flow /\ failed' = failed
  BY DEF WaitNotMet, AtCall, At
<1> QED BY <1>1, <1>2, QuietBoot DEF BootInv, TypeOK

\* The flow rom_start chooses.
LEMMA FlowChosen == \A r : FlowFor(r) \in Flows \cup {<<>>}
BY DEF FlowFor, Flows

\* rom_start begins a flow, or dies of an ambiguous reset reason.
LEMMA StartBoot == ASSUME BootInv, rom_start PROVE BootInv'
<1>1. /\ state = "reset" /\ failed = FALSE
      /\ UNCHANGED <<reason, tmo, handler, failed, seen, resets>>
      /\ set_flow_milestone("ROM_STARTED") /\ flowStatus \subseteq Word
  BY DEF rom_start, ghosts, BootInv, FailedIsOver, TypeOK
<1>7. /\ flowStatus' \subseteq Word /\ milestones' = milestones \cup {"ROM_STARTED"}
      /\ Reported("McuRegistersInitialized")' <=> Reported("McuRegistersInitialized")
  BY <1>1, MilestoneSet DEF Milestones, BootMilestones, Checkpoints, McuRomBootStatus
<1>2. flow' \in Flows \cup {<<>>}
  BY FlowChosen DEF rom_start
<1>3. /\ code' \in Codes /\ dev' \in Devices /\ state' \in {"running", "fatal"}
      /\ dev'.i3cEnabled = dev.i3cEnabled /\ dev'.caliptra = dev.caliptra
  <2>1. "BOOT_INVALID_RESET_REASON" \in Codes /\ dev \in Devices /\ code \in Codes
    BY DEF Codes, BootInv, TypeOK
  <2> QED BY <2>1, FatalFacts DEF rom_start
<1>4. TypeOK'
  <2>1. Left(flow')
    BY <1>2, LeftEnds
  <2> QED BY <1>1, <1>3, <1>7, <2>1 DEF BootInv, TypeOK, Left
<1>5. InOrder(flow)'
  <2>1. Grows
    BY <1>1, <1>3, <1>7 DEF Grows
  <2>2. CASE flow' = <<>>
    BY <2>1, <2>2, StillInOrder DEF BootInv
  <2>3. CASE flow' \in Flows
    <3>1. \A p \in Reports : \A i \in 1..Len(flow') :
            flow'[i] = p[2] => Achieved(p[1]) \/ \E j \in 1..(i - 1) : flow'[j] = p[1]
      BY <2>3, FlowsInOrder DEF InOrder
    <3> QED BY <2>1, <3>1, StaysAchieved DEF InOrder
  <2> QED BY <1>2, <2>2, <2>3
<1>6. ProgressTruthful' /\ FailedIsOver'
  BY <1>1, <1>3, <1>7 DEF BootInv, ProgressTruthful, FailedIsOver
<1> QED BY <1>4, <1>5, <1>6 DEF BootInv

\* A reset: the flow is gone; a power cycle forgets the rest as well.
LEMMA ResetBoot ==
    ASSUME BootInv, NEW bits \in SUBSET ResetBits, Reset(bits) PROVE BootInv'
<1>1. /\ reason' = bits /\ state' = "reset" /\ flow' = <<>> /\ tmo' = 0 /\ failed' = FALSE
      /\ code' = "none" /\ handler' = FALSE /\ resets < MaxResets /\ resets' = resets + 1
  BY DEF Reset
<1>2. InOrder(flow)' /\ FailedIsOver'
  BY <1>1 DEF InOrder, FailedIsOver
<1>3. Left(flow') /\ tmo' \in 0..OTP_TIMEOUT /\ resets' \in 0..MaxResets
  BY <1>1, LeftEnds, BootAssumption DEF BootInv, TypeOK
<1>4. CASE bits = {}
  <2>1. flowStatus' = {} /\ dev' = PowerOnDevices /\ seen' = {}
    BY <1>4 DEF Reset
  <2>2. dev' \in Devices
    BY <2>1 DEF PowerOnDevices, Devices, Codes
  <2>3. TypeOK'
    BY <1>1, <1>3, <2>1, <2>2 DEF TypeOK, Left, Codes
  <2>4. ProgressTruthful'
    BY <2>1, EmptyStatusNext DEF ProgressTruthful
  <2> QED BY <1>2, <2>3, <2>4 DEF BootInv
<1>5. CASE bits # {}
  <2>1. flowStatus' = flowStatus /\ dev' = dev /\ seen' = seen
    BY <1>5 DEF Reset
  <2>2. TypeOK'
    BY <1>1, <1>3, <2>1 DEF BootInv, TypeOK, Left, Codes
  <2>3. ProgressTruthful'
    BY <2>1, StatusKept DEF BootInv, ProgressTruthful
  <2> QED BY <1>2, <2>2, <2>3 DEF BootInv
<1> QED BY <1>4, <1>5

\* Steps that touch neither the status nor the flow.
LEMMA OtherBoot ==
    ASSUME BootInv, main \/ FlowReturns \/ DeviceStep \/ Trap PROVE BootInv'
<1>1. dev \in Devices /\ code \in Codes
  BY DEF BootInv, TypeOK
<1>2. CASE main
  BY <1>1, <1>2, QuietBoot DEF main, set_fatal_error_handler, ghosts, BootInv, TypeOK
<1>3. CASE FlowReturns
  BY <1>1, <1>3, QuietBoot DEF FlowReturns, ghosts, BootInv, TypeOK
<1>4. CASE DeviceStep
  <2>1. /\ dev' \in Devices /\ dev'.i3cEnabled = dev.i3cEnabled
        /\ dev.caliptra # "held" => dev'.caliptra # "held"
    BY <1>1, <1>4 DEF DeviceStep, Devices
  <2> QED BY <1>1, <1>4, <2>1, QuietBoot DEF DeviceStep, ghosts, BootInv, TypeOK
<1>5. CASE Trap
  <2>1. "GENERIC_EXCEPTION" \in Codes
    BY DEF Codes
  <2>2. /\ code' \in Codes /\ dev' \in Devices /\ state' = "fatal"
        /\ dev'.i3cEnabled = dev.i3cEnabled /\ dev'.caliptra = dev.caliptra
    BY <1>1, <1>5, <2>1, FatalFacts DEF Trap, exception_handler
  <2> QED BY <1>5, <2>2, QuietBoot DEF Trap, ghosts, BootInv, TypeOK
<1> QED BY <1>2, <1>3, <1>4, <1>5

----------------------------------------------------------------------------
\* BootInv is inductive.
LEMMA BootInductive == BootInv /\ [Next]_vars => BootInv'
<1> SUFFICES ASSUME BootInv, [Next]_vars PROVE BootInv'
  OBVIOUS
<1>1. CASE UNCHANGED vars
  <2>1. UNCHANGED <<reason, flowStatus, dev, state, flow, tmo, handler, code,
                    failed, seen, resets>>
    BY <1>1 DEF vars, ghosts
  <2> QED BY <2>1, QuietBoot DEF BootInv, TypeOK
<1>2. CASE WriteStatus
  BY <1>2, CheckpointBoot, MilestoneBoot DEF WriteStatus
<1>3. CASE OtpInit \/ wait_caliptra_ready
  BY <1>3, WaitMetBoot, WaitNotMetBoot DEF OtpInit, wait_caliptra_ready
<1>4. CASE Next
  BY <1>1, <1>2, <1>3, <1>4, OtherBoot, StartBoot, CallBoot, ResetBoot
     DEF Next, RomStep, Environment, Spin
<1> QED BY <1>1, <1>4

\* BootInv holds in every state.
LEMMA BootAlways == Spec => []BootInv
BY InitBoot, BootInductive, PTL DEF Spec

\* The ROM, its registers and the devices keep their types; in particular what
\* is left to do is always the end of one of the four flows.
THEOREM BootTypes == Spec => []TypeOK
<1>1. BootInv => TypeOK
  BY DEF BootInv
<1> QED BY <1>1, BootAlways, PTL

\* What FW_FLOW_STATUS says of boot go, of the MCU's registers and of the cold
\* boot has been done, whatever resets, traps and failures the boots since
\* power-on have met.
THEOREM ProgressIsTruthful == Spec => []ProgressTruthful
<1>1. BootInv => ProgressTruthful
  BY DEF BootInv
<1> QED BY <1>1, BootAlways, PTL

\* No step but a power cycle takes a milestone back: the read-modify-write of
\* either half of FW_FLOW_STATUS carries all of the milestones over.
THEOREM MilestonesAccumulate == Spec => MilestonesNeverLost
<1> DEFINE Kept == flow_milestone \subseteq flow_milestone' \/ (reason' = {} /\ resets' # resets)
<1>1. BootInv /\ [Next]_vars => [Kept]_vars
  <2> SUFFICES ASSUME BootInv, Next PROVE Kept \/ UNCHANGED vars
    OBVIOUS
  <2>1. flowStatus \subseteq Word
    BY DEF BootInv, TypeOK
  <2>2. CASE WriteStatus
    <3>1. CASE At("checkpoint") /\ set_flow_checkpoint(flow[1][2])
      <4>1. flow[1] \in Steps /\ flow[1][1] = "checkpoint"
        BY <3>1, AtStep
      <4>2. flow[1][2] \in Checkpoints
        BY <4>1, StepNames
      <4> QED BY <2>1, <3>1, <4>2, CheckpointSet
    <3>2. CASE At("milestone") /\ set_flow_milestone(flow[1][2])
      <4>1. flow[1] \in Steps /\ flow[1][1] = "milestone"
        BY <3>2, AtStep
      <4>2. flow[1][2] \in Milestones
        BY <4>1, StepNames
      <4> QED BY <2>1, <3>2, <4>2, MilestoneSet
    <3> QED BY <2>2, <3>1, <3>2 DEF WriteStatus
  <2>3. CASE rom_start
    BY <2>1, <2>3, MilestoneSet DEF rom_start, Milestones, BootMilestones
  <2>4. CASE flowStatus' = flowStatus
    BY <2>4 DEF flow_milestone
  <2>5. ASSUME NEW bits \in SUBSET ResetBits, Reset(bits) PROVE Kept
    <3>1. CASE bits = {}
      <4>1. resets \in Nat /\ reason' = {} /\ resets' = resets + 1
        BY <2>5, <3>1, BootAssumption DEF Reset, BootInv, TypeOK
      <4> QED BY <4>1
    <3>2. CASE bits # {}
      <4>1. flowStatus' = flowStatus
        BY <2>5, <3>2 DEF Reset
      <4> QED BY <4>1 DEF flow_milestone
    <3> QED BY <3>1, <3>2
  <2>6. CASE main \/ CallSucceeds \/ OtpInit \/ wait_caliptra_ready \/ FlowReturns
             \/ DeviceStep \/ Trap
    <3>1. flowStatus' = flowStatus
      BY <2>6 DEF main, CallSucceeds, OtpInit, wait_caliptra_ready, FlowReturns, DeviceStep,
                  Trap, WaitMet, WaitNotMet
    <3> QED BY <2>4, <3>1
  <2> QED BY <2>2, <2>3, <2>5, <2>6 DEF Next, RomStep, Environment, Spin
<1> QED BY <1>1, BootAlways, PTL DEF Spec, MilestonesNeverLost

\* A flow that has failed reports nothing more until the next reset.
THEOREM FailedFlowsStop == Spec => FailedFlowStops
<1>1. ASSUME BootInv, [Next]_vars PROVE [failed /\ failed' => UNCHANGED flowStatus]_vars
  <2> SUFFICES ASSUME failed, failed', Next PROVE UNCHANGED flowStatus
    BY <1>1 DEF vars
  <2>1. flow = <<>> /\ state # "reset"
    BY <1>1 DEF BootInv, FailedIsOver
  <2>2. ~WriteStatus /\ ~rom_start
    BY <2>1 DEF WriteStatus, rom_start, At
  <2>3. \A bits \in SUBSET ResetBits : ~Reset(bits)
    BY DEF Reset
  <2> QED BY <2>2, <2>3 DEF Next, RomStep, Environment, main, CallSucceeds, OtpInit,
        wait_caliptra_ready, FlowReturns, DeviceStep, Trap, WaitMet, WaitNotMet, Spin, vars
<1> QED BY <1>1, BootAlways, PTL DEF Spec, FailedFlowStops

\* The reset reason register decides: every value of it satisfies one of the
\* four predicates of Mci or is Invalid, no two at once, and rom_start runs a
\* flow exactly when it is not Invalid.
THEOREM ResetReasonDecides ==
    \A bits \in SUBSET ResetBits :
        /\ reset_reason_enum(bits) \in McuResetReason
        /\ is_cold_reset(bits) <=> FlowFor(reset_reason_enum(bits)) = ColdBoot
        /\ is_warm_reset(bits) <=> FlowFor(reset_reason_enum(bits)) = WarmBoot
        /\ is_fw_boot_update_reset(bits) <=> FlowFor(reset_reason_enum(bits)) = FwBoot
        /\ is_fw_hitless_update_reset(bits) <=>
              FlowFor(reset_reason_enum(bits)) = FwHitlessUpdate
<1>1. ColdBoot[1] = Ck("ColdBootFlowStarted")
  BY ColdBootSteps DEF ColdBootHead
<1>2. /\ ColdBoot # WarmBoot /\ ColdBoot # FwBoot /\ ColdBoot # FwHitlessUpdate
      /\ WarmBoot # FwBoot /\ WarmBoot # FwHitlessUpdate /\ FwBoot # FwHitlessUpdate
  BY <1>1 DEF WarmBoot, FwBoot, FwHitlessUpdate, Ck
<1>3. \A f \in Flows : f # <<>>
  BY FlowSteps
<1>4. \A bits \in SUBSET ResetBits : reset_reason_enum(bits) \in McuResetReason
  BY DEF reset_reason_enum, McuResetReason
<1> QED BY <1>2, <1>3, <1>4 DEF FlowFor, McuResetReason, Flows, is_cold_reset, is_warm_reset,
          is_fw_boot_update_reset, is_fw_hitless_update_reset
----------------------------------------------------------------------------
\* Why every boot ends.  A boot has a budget of ROM steps that depends on the
\* timeouts only; every step of the ROM costs some of it, the devices cannot add
\* to it, and nothing is left of it exactly when the ROM spins or has died.

\* Turns one step of a flow may take: at most one wait.
Waits   == OTP_TIMEOUT + READY_TIMEOUT
PerStep == Waits + 1

\* Turns left in the wait at hand, if one is.
Polls == IF tmo = 0 THEN Waits ELSE tmo

FlowBudget == IF flow = <<>> THEN 0 ELSE (Len(flow) - 1) * PerStep + (1 + Polls)

\* What a boot starts with: main, rom_start, the longest flow and its return.
FullBudget == Len(ColdBoot) * PerStep + 3

BootBudget ==
    CASE state = "reset"   -> IF handler THEN FullBudget - 1 ELSE FullBudget
      [] state = "running" -> FlowBudget + 1
      [] OTHER             -> 0

BootBounded ==
    /\ BootBudget \in 0..FullBudget
    /\ BootBudget = 0 <=> state \in {"spin", "fatal"}

\* A step of the ROM, of a device, a trap, or a reset that starts a new boot.
BootSpent ==
    \/ RomStep /\ BootBudget' \in 0..(BootBudget - 1)
    \/ DeviceStep /\ BootBudget' = BootBudget
    \/ Trap /\ BootBudget' = 0
    \/ resets' = resets + 1 /\ BootBudget' = FullBudget

\* Steps times turns per step.
LEMMA TurnProducts ==
    /\ Waits \in Nat /\ PerStep \in Nat /\ PerStep = Waits + 1
    /\ OTP_TIMEOUT <= Waits /\ READY_TIMEOUT <= Waits
    /\ \A k \in Nat : k * PerStep \in Nat
    /\ \A k \in Nat : (k + 1) * PerStep = k * PerStep + PerStep
    /\ \A k, m \in Nat : k <= m => k * PerStep <= m * PerStep
<1>1. /\ Waits \in Nat /\ PerStep \in Nat /\ PerStep = Waits + 1
      /\ OTP_TIMEOUT <= Waits /\ READY_TIMEOUT <= Waits
  BY BootAssumption DEF Waits, PerStep
<1>2. /\ \A k \in Nat : k * PerStep \in Nat
      /\ \A k \in Nat : (k + 1) * PerStep = k * PerStep + PerStep
      /\ \A k, m \in Nat : k <= m => k * PerStep <= m * PerStep
  BY <1>1, SMT
<1> QED BY <1>1, <1>2

\* No flow is longer than the cold boot.
LEMMA ColdBootLongest ==
    /\ Len(ColdBoot) \in Nat
    /\ \A f \in Flows : Len(f) \in Nat /\ Len(f) <= Len(ColdBoot)
<1>1. Len(ColdBoot) \in Nat /\ Len(ColdBoot) > 17
  BY ColdBootSteps
<1>2. Len(WarmBoot) = 6 /\ Len(FwBoot) = 5 /\ Len(FwHitlessUpdate) = 5
  BY DEF WarmBoot, FwBoot, FwHitlessUpdate
<1>3. ASSUME NEW f \in Flows PROVE Len(f) \in Nat /\ Len(f) <= Len(ColdBoot)
  <2>1. Len(f) = Len(ColdBoot) \/ Len(f) = 5 \/ Len(f) = 6
    BY <1>2 DEF Flows
  <2> DEFINE n == Len(f)
             c == Len(ColdBoot)
  <2>2. (n = c \/ n = 5 \/ n = 6) /\ c \in Nat /\ c > 17
    BY <1>1, <2>1
  <2> HIDE DEF n, c
  <2>3. n \in Nat /\ n <= c
    BY <2>2
  <2> QED BY <2>3 DEF n, c
<1> QED BY <1>1, <1>3

\* What is left of a flow is no longer than the cold boot either.
LEMMA LeftLength ==
    ASSUME NEW x, Left(x)
    PROVE  /\ Len(x) \in Nat /\ Len(x) <= Len(ColdBoot) /\ Len(ColdBoot) \in Nat
           /\ x # <<>> => Len(x) > 0 /\ Len(Tail(x)) = Len(x) - 1
<1>1. PICK f \in Flows : \E i \in 1..(Len(f) + 1) : x = SubSeq(f, i, Len(f))
  BY DEF Left
<1>2. PICK i \in 1..(Len(f) + 1) : x = SubSeq(f, i, Len(f))
  BY <1>1
<1>3. f \in Seq(Steps) /\ Len(f) \in Nat /\ \A k \in 1..Len(f) : f[k] \in Steps
  BY FlowSteps
<1>4. Len(x) = IF i <= Len(f) THEN Len(f) - i + 1 ELSE 0
  <2>1. i \in Int /\ Len(f) \in Int /\ \A k \in i..Len(f) : f[k] \in Steps
    BY <1>3
  <2> QED BY <1>2, <2>1, SubSeqProperties
<1>5. x \in Seq(Steps)
  BY LeftSteps
<1>6. x # <<>> => Len(x) > 0 /\ Len(Tail(x)) = Len(x) - 1
  BY <1>5, HeadTailProperties, EmptySeq
<1> QED BY <1>3, <1>4, <1>6, ColdBootLongest

\* What is left of a flow costs something if anything is left, and no more
\* than a whole flow.
LEMMA FlowBudgetBounds ==
    ASSUME BootInv
    PROVE  /\ FlowBudget \in Nat /\ FlowBudget <= Len(ColdBoot) * PerStep
           /\ Len(ColdBoot) * PerStep \in Nat
           /\ Polls \in Nat /\ Polls <= Waits
<1>1. Left(flow) /\ (tmo \in 0..OTP_TIMEOUT \/ tmo \in 0..READY_TIMEOUT)
  BY DEF BootInv, TypeOK, Left
<1>2. Polls \in Nat /\ Polls <= Waits
  BY <1>1, TurnProducts, BootAssumption DEF Polls
<1>3. Len(ColdBoot) \in Nat /\ Len(ColdBoot) * PerStep \in Nat
  BY TurnProducts, ColdBootLongest
<1>4. CASE flow = <<>>
  BY <1>2, <1>3, <1>4 DEF FlowBudget
<1>5. CASE flow # <<>>
  <2> DEFINE k == Len(flow) - 1
  <2>1. k \in Nat /\ k + 1 \in Nat /\ k + 1 <= Len(ColdBoot)
    BY <1>1, <1>5, LeftLength
  <2>2. /\ k * PerStep \in Nat
        /\ k * PerStep + PerStep <= Len(ColdBoot) * PerStep
    BY <1>3, <2>1, TurnProducts
  <2>3. FlowBudget = k * PerStep + (1 + Polls)
    BY <1>5 DEF FlowBudget
  <2> HIDE DEF k
  <2> QED BY <1>2, <1>3, <2>2, <2>3, TurnProducts
<1> QED BY <1>2, <1>3, <1>4, <1>5

\* The budget of a boot is within its bound and is spent when the boot is over.
LEMMA BootIsBounded == BootInv => BootBounded
<1> SUFFICES ASSUME BootInv PROVE BootBounded
  OBVIOUS
<1>1. FullBudget \in Nat /\ FullBudget >= FlowBudget + 3 /\ FlowBudget \in Nat
  BY FlowBudgetBounds DEF FullBudget
<1>2. state \in {"reset", "running", "spin", "fatal"}
  BY DEF BootInv, TypeOK
<1> QED BY <1>1, <1>2 DEF BootBounded, BootBudget

\* The same after a step.
FlowBudgetWithin == \E n \in Nat : FlowBudget = n /\ FullBudget >= n + 3

LEMMA NextBounds == BootInv' => FlowBudgetWithin'
<1>1. BootInv => FlowBudgetWithin
  BY FlowBudgetBounds DEF FullBudget, FlowBudgetWithin
<1> QED BY <1>1, PTL

\* A step of a flow that is done with: what is left costs less.
LEMMA TailSpends ==
    ASSUME BootInv, BootInv', state = "running", state' = "running", flow # <<>>,
           flow' = Tail(flow), tmo' \in {0, tmo}
    PROVE  BootBudget' \in 0..(BootBudget - 1)
<1> DEFINE k == Len(flow) - 1
<1>1. Left(flow) /\ Left(flow')
  BY DEF BootInv, TypeOK, Left
<1>2. k \in Nat /\ Len(flow') = k
  BY <1>1, LeftLength
<1>3. FlowBudget = k * PerStep + (1 + Polls) /\ k * PerStep \in Nat
  BY <1>2, TurnProducts DEF FlowBudget
<1>4. BootBudget = FlowBudget + 1 /\ BootBudget' = FlowBudget' + 1
  BY DEF BootBudget
<1>5. Polls \in Nat /\ Waits \in Nat /\ PerStep = Waits + 1
  BY FlowBudgetBounds, TurnProducts
<1>6. \E q \in Nat : Polls' = q /\ q <= Waits
  BY BootAssumption, TurnProducts DEF Polls, BootInv, TypeOK
<1>7. CASE flow' = <<>>
  <2>1. FlowBudget' = 0
    BY <1>7 DEF FlowBudget
  <2> HIDE DEF k
  <2> QED BY <1>3, <1>4, <1>5, <2>1
<1>8. CASE flow' # <<>>
  <2> DEFINE m == k - 1
             c == m * PerStep
             d == k * PerStep
  <2>1. m \in Nat /\ k = m + 1
    BY <1>1, <1>2, <1>8, LeftLength
  <2>2. FlowBudget' = c + (1 + Polls')
    BY <1>2, <1>8 DEF FlowBudget
  <2>3. d = c + PerStep /\ c \in Nat /\ d \in Nat /\ FlowBudget = d + (1 + Polls)
    BY <1>3, <2>1, TurnProducts
  <2>4. PICK q \in Nat : Polls' = q /\ q <= Waits
    BY <1>6
  <2> HIDE DEF c, d, k, m
  <2>5. BootBudget' = (c + (1 + q)) + 1
    BY <1>4, <2>2, <2>4, Zenon
  <2> QED BY <1>4, <1>5, <2>3, <2>4, <2>5
<1> QED BY <1>7, <1>8

\* One more turn of a wait, or the end of the flow it belongs to.
LEMMA TurnSpends ==
    ASSUME BootInv, NEW f, NEW limit \in {OTP_TIMEOUT, READY_TIMEOUT}, WaitNotMet(f, limit)
    PROVE  BootBudget' \in 0..(BootBudget - 1)
<1>1. /\ state = "running" /\ state' = "running" /\ flow # <<>>
      /\ tmo' = (IF tmo = 0 THEN limit ELSE tmo) - 1
      /\ IF tmo' = 0 THEN flow' = <<>> ELSE flow' = flow
  BY DEF WaitNotMet, AtCall, At
<1>2. BootBudget = FlowBudget + 1 /\ BootBudget' = FlowBudget' + 1
  BY <1>1 DEF BootBudget
<1> DEFINE c == (Len(flow) - 1) * PerStep
<1>3. FlowBudget = c + (1 + Polls)
  BY <1>1 DEF FlowBudget
<1>4. c \in Nat
  <2>1. Left(flow)
    BY DEF BootInv, TypeOK, Left
  <2>2. Len(flow) - 1 \in Nat
    BY <1>1, <2>1, LeftLength
  <2> QED BY <2>2, TurnProducts
<1>5. Polls \in Nat /\ (tmo' # 0 => \E q \in Nat : Polls' = q /\ q < Polls)
  <2>1. limit \in Nat \ {0} /\ limit <= Waits /\ Waits \in Nat
    BY TurnProducts, BootAssumption
  <2>2. tmo \in Nat
    BY BootAssumption DEF BootInv, TypeOK
  <2> QED BY <1>1, <2>1, <2>2 DEF Polls
<1>6. CASE tmo' = 0
  <2>1. FlowBudget' = 0
    BY <1>1, <1>6 DEF FlowBudget
  <2> HIDE DEF c
  <2> QED BY <1>2, <1>3, <1>4, <1>5, <2>1
<1>7. CASE tmo' # 0
  <2>1. FlowBudget' = c + (1 + Polls')
    BY <1>1, <1>7 DEF FlowBudget
  <2>2. PICK q \in Nat : Polls' = q /\ q < Polls
    BY <1>5, <1>7
  <2> HIDE DEF c
  <2>3. BootBudget' = (c + (1 + q)) + 1
    BY <1>2, <2>1, <2>2, Zenon
  <2> QED BY <1>2, <1>3, <1>4, <1>5, <2>2, <2>3
<1> QED BY <1>6, <1>7

\* Every step of the ROM costs something.
LEMMA RomSpends == ASSUME BootInv, RomStep PROVE BootBudget' \in 0..(BootBudget - 1)
<1>1. BootInv'
  BY BootInductive DEF Next
<1>2. FullBudget \in Nat /\ FullBudget >= FlowBudget + 3 /\ FlowBudget \in Nat
  BY FlowBudgetBounds DEF FullBudget
<1>3. CASE main
  <2>1. BootBudget = FullBudget /\ BootBudget' = FullBudget - 1
    BY <1>3 DEF main, set_fatal_error_handler, BootBudget
  <2> QED BY <1>2, <2>1
<1>4. CASE rom_start
  <2>1. BootBudget = FullBudget - 1 /\ state' \in {"running", "fatal"}
    BY <1>4 DEF rom_start, BootBudget, fatal_error_raw, RomFatalErrorHandler
  <2>2. CASE state' = "fatal"
    BY <1>2, <2>1, <2>2 DEF BootBudget
  <2>3. CASE state' = "running"
    <3>1. BootBudget' = FlowBudget' + 1
      BY <2>3 DEF BootBudget
    <3>2. PICK n \in Nat : FlowBudget' = n /\ FullBudget >= n + 3
      BY <1>1, NextBounds DEF FlowBudgetWithin
    <3>3. BootBudget' = n + 1
      BY <3>1, <3>2, Zenon
    <3> QED BY <1>2, <2>1, <3>2, <3>3
  <2> QED BY <2>1, <2>2, <2>3
<1>5. CASE WriteStatus \/ CallSucceeds
  <2>1. /\ state = "running" /\ state' = state /\ flow # <<>> /\ flow' = Tail(flow)
        /\ tmo' = tmo
    BY <1>5 DEF WriteStatus, CallSucceeds, AtCall, At
  <2> QED BY <1>1, <2>1, TailSpends
<1>6. ASSUME NEW f, NEW mark, WaitMet(f, mark) PROVE BootBudget' \in 0..(BootBudget - 1)
  <2>1. /\ state = "running" /\ state' = state /\ flow # <<>> /\ flow' = Tail(flow)
        /\ tmo' = 0
    BY <1>6 DEF WaitMet, AtCall, At
  <2> QED BY <1>1, <2>1, TailSpends
<1>7. CASE OtpInit \/ wait_caliptra_ready
  BY <1>6, <1>7, TurnSpends DEF OtpInit, wait_caliptra_ready
<1>8. CASE FlowReturns
  <2>1. BootBudget' = 0 /\ BootBudget = FlowBudget + 1
    BY <1>8 DEF FlowReturns, BootBudget
  <2> QED BY <1>2, <2>1
<1> QED BY <1>3, <1>4, <1>5, <1>7, <1>8 DEF RomStep

\* What anything else does to the budget.
LEMMA BootStepSpends == ASSUME BootInv, Next PROVE BootSpent \/ UNCHANGED vars
<1>1. CASE RomStep
  BY <1>1, RomSpends DEF BootSpent
<1>2. CASE DeviceStep
  <2>1. UNCHANGED <<state, flow, tmo, handler>>
    BY <1>2 DEF DeviceStep
  <2>2. BootBudget' = BootBudget
    BY <2>1 DEF BootBudget, FlowBudget, Polls
  <2> QED BY <1>2, <2>2 DEF BootSpent
<1>3. CASE Trap
  <2>1. BootBudget' = 0
    BY <1>3 DEF Trap, exception_handler, fatal_error_raw, RomFatalErrorHandler, BootBudget
  <2> QED BY <1>3, <2>1 DEF BootSpent
<1>4. ASSUME NEW bits \in SUBSET ResetBits, Reset(bits) PROVE BootSpent
  <2>1. state' = "reset" /\ handler' = FALSE /\ resets' = resets + 1
    BY <1>4 DEF Reset
  <2>2. BootBudget' = FullBudget
    BY <2>1 DEF BootBudget
  <2> QED BY <2>1, <2>2 DEF BootSpent
<1> QED BY <1>1, <1>2, <1>3, <1>4 DEF Next, Environment, Spin

\* Every boot ends after a number of steps of the ROM that is known at reset,
\* (OTP_TIMEOUT + READY_TIMEOUT + 1) for each step of the longest flow and 3,
\* unless a reset starts another one: no OTP controller that never becomes idle
\* and no mailbox that stays busy can draw it out.
THEOREM BootsAreBounded == Spec => []BootBounded /\ [][BootSpent]_vars
<1>1. BootInv /\ [Next]_vars => [BootSpent]_vars
  BY BootStepSpends
<1> QED BY <1>1, BootIsBounded, BootAlways, PTL DEF Spec
=============================================================================
