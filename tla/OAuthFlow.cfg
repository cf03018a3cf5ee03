SPECIFICATION FairSpec
CONSTANTS
    None = None
    Configs <- MCConfigs
    MaxRotations = 1
    MaxMoves = 2
INVARIANTS
    RedeemedByItsClient
    TokenServesItsHolder
    ProofOnce
PROPERTY
    WalletCompletes
