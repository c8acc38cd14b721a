CONSTANTS
    Key = {"cores", "floating_ips"}
    ServiceOf <- MCServiceOf
    Configured = {"cores"}
    Floating = "floating_ips"
    Default = 1
    Refusing = {"compute"}
    MaxLevel = 2
    Unlimited = TRUE
    Faults = {}
    Rule = {"out4", "out6", "in4", "in6", "web4", "web6", "ssh", "own"}
    Automatic = {"out4", "out6", "in4", "in6"}
    Egress = {"out4", "out6"}
    Baseline = {"web4", "web6", "ssh"}
    Fingerprint <- MCFingerprint
    Names = {"default"}
    SGFaults = {}
    MaxEvents = 2
SPECIFICATION FairSpec
PROPERTIES
    EventuallyAsked
