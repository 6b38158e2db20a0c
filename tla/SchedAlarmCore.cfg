SPECIFICATION Spec
CONSTANTS
    Delay = {1, 2, 3}
    INT_MAX = 5
    MaxId = 4
    Races = {}
INVARIANTS NearestEventArmed
PROPERTIES CancelledNeverFires
