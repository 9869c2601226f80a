SPECIFICATION EvidenceSpec
CONSTANTS
    s1 = s1
    s2 = s2
    Alice = Alice
    Bob = Bob
    Carol = Carol
    SessionIds = {s1, s2}
    Accounts = {Alice, Bob, Carol}
    Operator = Operator
    ZeroAddress = ZeroAddress
    NoConfig = NoConfig
    NoOffer = NoOffer
    MaxSequence = 2
    Prices = {1, 2}
    Untils = {3}
    Configs <- MCTwoConfigs
    OfferMessages <- MCTwoOffers
    AcceptMessages <- MCTwoAccepts
    CloseMessages <- MCTwoCloses
    Funding <- MCTwoFunding
    MaxBalance = 2
    MaxTime = 4
INVARIANTS
    
    AccountsAgree
    SettlementsVerified
PROPERTIES
    AtomicSwap
CHECK_DEADLOCK FALSE
