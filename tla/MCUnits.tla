------------------------------- MODULE MCUnits -------------------------------
(***************************************************************************)
(* The units of MCPlatform and, as one more, the mailbox response object:   *)
(* parts that share no state, each behaviour about one of them.             *)
(***************************************************************************)
EXTENDS MCPlatform, MCMailboxResponse, Bitflags

unitsVars == <<platformVars, vars>>

\* The platform's units as they are while the response is looked at.
PlatformIdle ==
    /\ I3cInit /\ MciInit /\ FlashInit /\ DelayInit /\ LibcInit /\ StartInit /\ CrcInit
    /\ LcInit
    /\ Idle

UnitsInit ==
    /\ PlatformInit \/ (unit = "response" /\ PlatformIdle)
    /\ Init

\* Every response was made and destroyed: the program that used them goes on.
AllGone == made = Bases /\ (\A t \in Slots : ~Live(t)) /\ UNCHANGED vars

UnitsNext ==
    \/ PlatformNext /\ UNCHANGED vars
    \/ At("response") /\ (Next \/ AllGone) /\ Rest

\* PlatformSpec and its fairness, beside the response.
UnitsSpec ==
    /\ UnitsInit /\ [][UnitsNext]_unitsVars
    /\ SF_i3cVars(At("i3c") /\ I3cTransfer /\ Rest /\ UNCHANGED vars)
    /\ WF_i3cVars(At("i3c") /\ HandlerClears /\ Rest /\ UNCHANGED vars)
    /\ WF_i3cVars(At("i3c") /\ PeerTakes /\ Rest /\ UNCHANGED vars)
    /\ WF_i3cVars(At("i3c") /\ PeerSends /\ Rest /\ UNCHANGED vars)
    /\ WF_delayVars(At("delay") /\ DelayStep /\ Rest /\ UNCHANGED vars)

----------------------------------------------------------------------------

\* Flags of four bits.
ASSUME FlagsRight == FlagsAreSets
=============================================================================
