SPECIFICATION Spec
CONSTANTS
    NoOffer = NoOffer
    UINT256_MAX = 8
    Guards = {"buyer", "seller"}
    CallCeiling = 2
    SpendCeiling = 8
    Requests <- MCRequests
    Bound <- MCBound
    Usages <- MCUsages
    Nothing = Nothing
    SessionId = s1
    Buyer = Buyer
    Seller = Seller
    Operator = Operator
    ZeroAddress = ZeroAddress
    NoConfig = NoConfig
    Settings <- MCSettings
    RepairAttempts = 1
    Prices = {0, 3, 7, 9}
    Malformed <- MCMalformed
    MaxTime = 3
    MaxOffers = {1, 2, 3, 4}
    Lifetimes = {1, 2}
    Reservations = {3, 4, 6}
    Floors = {0, 1}
    Policies = {"deterministic", "model", "fixture"}
    Wealth = 6
INVARIANTS
    BuiltIsConsistent
    SignedIsExecutable
    MandatesKept
    BaselinesAgree
    SpendWithinCeiling
    
    CostsCoverTheBill
CHECK_DEADLOCK FALSE
