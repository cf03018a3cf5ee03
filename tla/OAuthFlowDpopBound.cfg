SPECIFICATION Spec
CONSTANTS
    None = None
    Configs <- MCConfigs
    MaxRotations = 1
    MaxMoves = 2
INVARIANT
    DpopServesAsPop
