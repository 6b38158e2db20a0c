SPECIFICATION Spec
CONSTANTS
    cfg_auth_round = 1
    cfg_max_failures = 2
    cfg_restart_on_logoff = TRUE
    MaxRestarts = 2
    dhcp_type = "DHCP_DOUBLE_AUTH"
    max_dhcp_count = 1
    Key = {"k1"}
    AlarmId = {1, 2, 3}
    MaxAlarms = 2
    MaxSucc = 2
PROPERTIES NoStaleRead
