CONSTANTS
    Bos = 3
    Eos = 4
    Disambig = 5
    Oov = 6
    ArpaFiles <- MCArpaFiles
    Matched <- MCMatched
    MinTableSizes = {1, 3}
    TableRatios = {1, 2}
    MaxCalls = 4
    Inputs <- MCInputs
    Trim <- MCTrim
    MaxStates = 2
    StateLimit = 6
    NumUnits = 3
    Texts <- MCTexts
    MaxRead = 3
    MaxPath = 14

SPECIFICATION MCSpec

INVARIANT GraphsKeepTheirMeaning
INVARIANT AlignmentIsRight
