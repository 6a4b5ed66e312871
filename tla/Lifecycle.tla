------------------------------ MODULE Lifecycle ------------------------------
(***************************************************************************)
(* Class Lifecycle: what the ROM makes of the state register of the         *)
(* lifecycle controller, and the request of a transition, which is a token  *)
(* written word by word and a command.  state() takes the low five bits of  *)
(* the register; current_state() and the predicates are functions of it,    *)
(* each with a list of states of its own.                                   *)
(***************************************************************************)
EXTENDS Integers

CONSTANTS TokenWords,     \* values of a word of the token
          TokenIndices,   \* indices callers pass to write_transition_token
          RawStates       \* values of REG_STATE

ASSUME LifecycleAssumption ==
    /\ TokenWords \subseteq Nat /\ 0 \in TokenWords
    /\ TokenIndices \subseteq Nat /\ RawStates \subseteq Nat

----------------------------------------------------------------------------
\* Decoding.

TestUnlockedStates == {"TestUnlocked0", "TestUnlocked1", "TestUnlocked2", "TestUnlocked3"}
TestLockedStates   == {"TestLocked0", "TestLocked1", "TestLocked2"}
SingleStates       == {"Raw", "Dev", "Prod", "ProdEnd", "Rma", "Scrap"}

\* LifecycleState, by encoding.
StateTable == << "Raw", "TestUnlocked0", "TestLocked0", "TestUnlocked1", "TestLocked1",
                 "TestUnlocked2", "TestLocked2", "TestUnlocked3", "Dev", "Prod",
                 "ProdEnd", "Rma", "Scrap" >>

state(raw) == IF raw % 32 <= 12 THEN StateTable[(raw % 32) + 1] ELSE "Invalid"

current_state(raw) ==
    LET st == state(raw) IN
    CASE st \in TestUnlockedStates -> "TestUnlocked"
      [] st \in TestLockedStates   -> "TestLocked"
      [] st = "Raw"                -> "RawState"
      [] st \in SingleStates \ {"Raw"} -> st
      [] OTHER                     -> "Invalid"

is_manufacturing(raw) ==
    state(raw) \in {"Raw", "TestUnlocked0", "TestUnlocked1", "TestUnlocked2", "TestUnlocked3",
                    "TestLocked0", "TestLocked1", "TestLocked2"}
is_production(raw) == state(raw) \in {"Prod", "ProdEnd"}
is_rma(raw)        == state(raw) = "Rma"
is_dev(raw)        == state(raw) = "Dev"
is_debug_locked(raw) ==
    state(raw) \in {"Prod", "ProdEnd", "TestLocked0", "TestLocked1", "TestLocked2"}

----------------------------------------------------------------------------
\* Transitions.

VARIABLES
    rawState,   \* REG_STATE
    token,      \* REG_TRANSITION_TOKEN
    command,    \* REG_TRANSITION_CMD; -1: not written since reset
    lcRet       \* result of the last call

lcVars == <<rawState, token, command, lcRet>>

TRANSITION_TOKEN_COUNT == 4
Encodings == 0..12 \cup {255}

LcTypeOK ==
    /\ rawState \in RawStates
    /\ token \in [0..(TRANSITION_TOKEN_COUNT - 1) -> TokenWords]
    /\ command \in Encodings \cup {-1}
    /\ lcRet \in {"none", "OK", "INVALID_PARAMETER"}

LcInit ==
    /\ rawState \in RawStates
    /\ token = [i \in 0..(TRANSITION_TOKEN_COUNT - 1) |-> 0]
    /\ command = -1 /\ lcRet = "none"

\* Mutant: one index too many is let through.
write_transition_token_off_by_one(index, value) ==
    /\ IF index > TRANSITION_TOKEN_COUNT
       THEN lcRet' = "INVALID_PARAMETER" /\ UNCHANGED token
       ELSE lcRet' = "OK" /\ token' = [i \in DOMAIN token \cup {index} |->
                                          IF i = index THEN value ELSE token[i]]
    /\ UNCHANGED <<rawState, command>>

write_transition_token(index, value) ==
    /\ IF index >= TRANSITION_TOKEN_COUNT
       THEN lcRet' = "INVALID_PARAMETER" /\ UNCHANGED token
       ELSE lcRet' = "OK" /\ token' = [token EXCEPT ![index] = value]
    /\ UNCHANGED <<rawState, command>>

\* The command is the encoding of the target, whatever the token.
request_transition(target) ==
    /\ command' = target /\ lcRet' = "OK"
    /\ UNCHANGED <<rawState, token>>

\* The controller moves on, by a transition or a reset (external).
LifecycleMoves(raw) ==
    /\ rawState' = raw
    /\ token' = [i \in DOMAIN token |-> 0] /\ command' = -1
    /\ UNCHANGED lcRet

LcNext ==
    \/ \E i \in TokenIndices, v \in TokenWords : write_transition_token(i, v)
    \/ \E target \in Encodings : request_transition(target)
    \/ \E raw \in RawStates : LifecycleMoves(raw)

LcSpec == LcInit /\ [][LcNext]_lcVars

----------------------------------------------------------------------------
\* Properties.

\* The lists of states in current_state and in the predicates agree for every
\* value of the register: the predicates are those of the controller state,
\* at most one of the four phases holds, and an undefined encoding is in none.
ViewsAgree(raw) ==
    LET cs == current_state(raw) IN
    /\ is_manufacturing(raw) <=> cs \in {"RawState", "TestUnlocked", "TestLocked"}
    /\ is_production(raw) <=> cs \in {"Prod", "ProdEnd"}
    /\ is_debug_locked(raw) <=> cs \in {"Prod", "ProdEnd", "TestLocked"}
    /\ is_rma(raw) <=> cs = "Rma"
    /\ is_dev(raw) <=> cs = "Dev"
    /\ cs = "Invalid" <=> raw % 32 \in 13..31
=============================================================================
