SPECIFICATION Spec
CONSTANTS
    Bases = {b1, b2}
    Vars = {v1, v2}
    Results = {r1, r2}
    Dlens <- MCDlens
    Payload <- MCPayload
    WORD_MOD = 2
SYMMETRY Symmetry
INVARIANTS
    NextReadsResponse
CHECK_DEADLOCK FALSE
