SPECIFICATION FairSpec
CONSTANTS
    Server = {"a", "b"}
    Request <- MCRequest
    MaxInflight <- MCInflight
    MaxBlocking <- MCBlocking
    Plans <- MCPlans
    Retries = 1
CHECK_DEADLOCK FALSE
INVARIANTS
    OneWriter
    BodiesBounded
    NoSilentMiss
    SelfHeals
PROPERTIES
    ImplementsExchange
    WritesEnd
