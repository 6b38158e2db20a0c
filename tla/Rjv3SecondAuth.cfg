SPECIFICATION Spec
CONSTANTS
    dhcp_type = "DHCP_DOUBLE_AUTH"
    max_dhcp_count = 2
    Key = {"k1", "k2"}
    AlarmId = {1, 2, 3}
    MaxAlarms = 2
    MaxSucc = 3
CHECK_DEADLOCK FALSE
PROPERTIES SecondAuthCarriesLease
