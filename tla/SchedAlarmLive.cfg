SPECIFICATION FairSpec
CONSTANTS
    Delay = {1, 2, 3}
    INT_MAX = 5
    MaxId = 3
    Races = {"expiry", "slow", "rounding"}
INVARIANTS TypeOK NeverEarly
PROPERTIES EveryEventSettles ServiceRefined
