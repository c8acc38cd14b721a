------------------------------- MODULE MCBaseline -------------------------------
(* Small instances of Baseline for TLC.  The rules of each kind that Neutron *)
(* makes share a fingerprint, and so do two of the configured ones.          *)
EXTENDS Baseline

MCServiceOf == [k \in Key |-> CASE k = "cores" -> "compute"
                                [] k = "members" -> "balancer"
                                [] k \in {"gigabytes", "backups"} -> "storage"
                                [] OTHER -> "neutron"]

MCFingerprint == [r \in Rule |-> CASE r = "out6" -> "out4"
                                   [] r = "in6" -> "in4"
                                   [] r = "web6" -> "web4"
                                   [] OTHER -> r]
=============================================================================
