SPECIFICATION FairSpec
CONSTANTS
    s1 = s1
    s2 = s2
    Alice = Alice
    Bob = Bob
    Carol = Carol
    SessionIds = {s1}
    Accounts = {Alice, Bob, Carol}
    Operator = Operator
    ZeroAddress = ZeroAddress
    NoConfig = NoConfig
    NoOffer = NoOffer
    MaxSequence = 3
    Prices = {1, 2}
    Untils = {2, 3}
    Configs <- MCOneConfigs
    OfferMessages <- MCOneOffers
    AcceptMessages <- MCOneAccepts
    CloseMessages <- MCOneCloses
    Funding <- MCOneFunding
    MaxBalance = 2
    MaxTime = 3
INVARIANTS
    SettledAsAgreed
PROPERTIES
    ImplementsBargain
    EverySessionEnds
