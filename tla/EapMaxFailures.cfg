SPECIFICATION Spec
CONSTANTS
    cfg_auth_round = 2
    cfg_max_failures = 3
    cfg_restart_on_logoff = TRUE
    MaxRestarts = 4
INVARIANTS MaxFailuresHonoured
