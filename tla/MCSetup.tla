------------------------------ MODULE MCSetup ------------------------------
(***************************************************************************)
(* Instances of CaliptraSetup and ProdDebugHash, the two things the ROM does*)
(* with the OTP on Caliptra's behalf.  They share no register, so they are  *)
(* checked one at a time: task says which of the two a behaviour is about.  *)
(***************************************************************************)
EXTENDS CaliptraSetup, ProdDebugHash, TLC

VARIABLE task

Config(users, fuse, trng) ==
    [mbox_users |-> [i \in UserSlots |-> IF i \in DOMAIN users THEN users[i] ELSE nullopt],
     fuse_user |-> fuse, trng_user |-> trng, dma_user |-> 1]

SmallConfigs   == {Config(4 :> 0, 1, 2), Config(4 :> 1, 1, 2)}
DirectRegs     == {FUSE_LOCK, TRNG_VALID, DMA_USER}
ContestedRegs  == {MBOX_VALID(4), FUSE_VALID}
SmallOtpHash   == [a \in HashAddresses |-> IF a = 124 THEN 1 ELSE 0]

SetupTypeOK == SocTypeOK /\ HashTypeOK

SetupInit == task \in {"soc", "hash"} /\ SocInit /\ HashInit

SetupNext ==
    \/ task = "soc"  /\ SocNext  /\ UNCHANGED <<task, hashVars>>
    \/ task = "hash" /\ HashNext /\ UNCHANGED <<task, socVars>>

SetupSpec ==
    /\ SetupInit /\ [][SetupNext]_<<task, socVars, hashVars>>
    /\ WF_socVars(task = "soc" /\ SocStep /\ UNCHANGED <<task, hashVars>>)
=============================================================================
