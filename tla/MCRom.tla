-------------------------------- MODULE MCRom --------------------------------
(***************************************************************************)
(* Small instances of what the ROM does: a boot (RomBoot), the mailbox users*)
(* of MCI (AxiUsers) and the two tasks of MCSetup.  They share no register  *)
(* and no boot flow calls the last three yet, so a behaviour is about one   *)
(* of them, named by task, and the others stand still: what is checked is   *)
(* each module's own specification.                                         *)
(***************************************************************************)
EXTENDS MCSetup, AxiUsers, RomBoot

romVars == <<task, socVars, hashVars, axiVars, vars>>

\* A boot that is over: what the boot is while another task is looked at.
BootOver ==
    /\ reason = {} /\ flowStatus = {} /\ dev = PowerOnDevices
    /\ state = "spin" /\ flow = <<>> /\ tmo = 0 /\ code = "none" /\ handler = FALSE
    /\ failed = FALSE /\ seen = {} /\ resets = 0

RomInit ==
    /\ \/ SetupInit /\ BootOver
       \/ task = "axi" /\ SocInit /\ HashInit /\ BootOver
       \/ task = "boot" /\ SocInit /\ HashInit /\ Init
    /\ AxiInit

RomNext ==
    \/ SetupNext /\ UNCHANGED <<axiVars, vars>>
    \/ task = "axi" /\ AxiNext /\ UNCHANGED <<task, socVars, hashVars, vars>>
    \/ task = "boot" /\ Next /\ UNCHANGED <<task, socVars, hashVars, axiVars>>

\* The fairness of SetupSpec and of the boot: the processor runs.
RomSpec ==
    /\ RomInit /\ [][RomNext]_romVars
    /\ WF_socVars(task = "soc" /\ SocStep /\ UNCHANGED <<task, hashVars, axiVars, vars>>)
    /\ WF_vars(task = "boot" /\ RomStep /\ UNCHANGED <<task, socVars, hashVars, axiVars>>)
=============================================================================
