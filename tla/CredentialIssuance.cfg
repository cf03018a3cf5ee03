SPECIFICATION FairSpec
CONSTANTS
    None = None
    Configs <- MCConfigs
    MaxPolls = 2
    MaxExpiries = 1
INVARIANTS
    CodeToListedServer
    EncryptionAgreed
    HiddenFromProxy
    KeyProvedHere
PROPERTY
    WalletServed
