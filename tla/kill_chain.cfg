SPECIFICATION Spec
CONSTANTS
    i1 = i1
    i2 = i2
    b1 = b1
    b2 = b2
    Inputs <- MCInputs
    by_cluster <- MCByCluster
    c08_fid_family <- MCSplits
    exclude_sids <- MCExclude
    SaneF15 <- MCSaneF15
    SaneF1 <- MCSaneF1
    F10_BINARIES <- MCF10
    F10_C2_IPS <- MCF10C2
    F5_C2_IP = "c4"
    F11_C2_IPS <- MCF11C2
    F14_PROBES <- MCProbes
INVARIANTS FamilySums BundleClosed
CHECK_DEADLOCK FALSE
