SPECIFICATION FairSpec
CONSTANTS
    Eth = {1, 2}
    Bridge = 9
    None = None
    ConfigDns = ConfigDns
    RenewalTime = 1
    RebindTime = 1
    LeaseTime = 2
    MaxAttempts = 2
    BoxCapacity = 2
    Setups <- OneInterface
CHECK_DEADLOCK FALSE
PROPERTIES ReconcileKeepsUp
