CONSTANTS
    Key = {"cores", "ports", "floating_ips", "members", "gigabytes", "backups"}
    ServiceOf <- MCServiceOf
    Configured = {"cores", "ports", "floating_ips", "members", "gigabytes"}
    Floating = "floating_ips"
    Default = 1
    Refusing = {"compute"}
    MaxLevel = 2
    Unlimited = FALSE
    Faults = {"crash", "fail", "echo", "others"}
    Rule = {"out4", "out6", "in4", "in6", "web4", "web6", "ssh", "own"}
    Automatic = {"out4", "out6", "in4", "in6"}
    Egress = {"out4", "out6"}
    Baseline = {"web4", "web6", "ssh"}
    Fingerprint <- MCFingerprint
    Names = {"default", "other"}
    SGFaults = {"crash", "echo", "users"}
    MaxEvents = 2
SPECIFICATION FairSpec
INVARIANTS
    BaselineComplete
    TeamsDecide
PROPERTIES
    UsageIsRespected
    OthersKeysStay
    EventuallyAsked
    EventuallyGuarded
