\* Two sites, and a panel that ends once.
SPECIFICATION FairSpec
CONSTANTS
    Sites   = {s1, s2}
    MaxEnds = 1
    NoSite  = NoSite
INVARIANTS
    OutageRemembered
PROPERTIES
    OneMailPerOutage
    RecoveryAnswersOutage
    OutageAnnounced
    RecoveryAnnounced
