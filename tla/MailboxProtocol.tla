--------------------------- MODULE MailboxProtocol ---------------------------
(***************************************************************************)
(* What the Caliptra mailbox promises to the agents that share it: one     *)
(* owner at a time, a request that is loaded, submitted once and then left  *)
(* alone until Caliptra has answered it, and an owner that gives the        *)
(* mailbox back only after the answer.  The driver in romtime is shown to   *)
(* implement this protocol (CaliptraMailbox, property ImplementsProtocol)   *)
(* for as long as its client calls it in order.                            *)
(***************************************************************************)
CONSTANTS Agents,      \* who may own the mailbox
          Nobody,      \* the owner of a free mailbox
          Requests     \* what the request registers may hold

VARIABLES owner,       \* the agent holding the mailbox lock, or Nobody
          phase,       \* "free", "loading", "busy" or "answered"
          request,     \* contents of the request registers
          orderly      \* no call was made out of order so far

pvars == <<owner, phase, request, orderly>>

Phases == {"free", "loading", "busy", "answered"}

ProtocolInit ==
    /\ owner = Nobody
    /\ phase = "free"
    /\ request \in Requests
    /\ orderly = TRUE

Acquire(a) ==
    /\ phase = "free"
    /\ owner' = a
    /\ phase' = "loading"
    /\ UNCHANGED <<request, orderly>>

\* The owner writes the request registers before it submits, or once the
\* answer is there, and at no other time.
Load ==
    /\ phase \in {"loading", "answered"}
    /\ request' \in Requests
    /\ UNCHANGED <<owner, phase, orderly>>

Submit ==
    /\ phase = "loading"
    /\ phase' = "busy"
    /\ UNCHANGED <<owner, request, orderly>>

Answer ==
    /\ phase = "busy"
    /\ phase' = "answered"
    /\ UNCHANGED <<owner, request, orderly>>

\* Only an answered request is withdrawn; the registers are cleared with it.
Release ==
    /\ phase = "answered"
    /\ phase' = "free"
    /\ owner' = Nobody
    /\ request' \in Requests
    /\ UNCHANGED orderly

\* A call out of order: nothing is promised from there on.
Misuse ==
    /\ orderly' = FALSE
    /\ owner' \in Agents \cup {Nobody}
    /\ phase' \in Phases
    /\ request' \in Requests

ProtocolNext ==
    \/ \E a \in Agents : Acquire(a)
    \/ Load
    \/ Submit
    \/ Answer
    \/ Release
    \/ Misuse

ProtocolSpec == ProtocolInit /\ [][ProtocolNext]_pvars
=============================================================================
