SPECIFICATION Spec
CONSTANTS
    Proc = {p1, p2, p3}
    KillType = {"KILL_NONE", "KILL_ONLY", "KILL_AND_START"}
    NoProc = NoProc
    Mixed = Mixed
SYMMETRY Symmetry
CHECK_DEADLOCK FALSE
INVARIANTS OneInstancePerFile NoStalePidFile AlarmsEndBeforeLock
