CONSTANTS
    Sessions = {s1, s2}
    Names = {f, g, h}
    MaxTransfers = 2
    MaxPending = 2
    Ttl = 2
    MaxTime = 2
SYMMETRY Alike
SPECIFICATION TunnelSpec
INVARIANTS UnauditedExplained AuditedFresh
CHECK_DEADLOCK FALSE
