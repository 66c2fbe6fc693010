SPECIFICATION RSpec
CONSTANTS
    Plan <- RoutePlan
    HalfOf <- HalfByRank
    Faults = {"fail", "killedUndo"}
    Uplink = {en0, en1}
    MaxChanges = 1
INVARIANTS TypeOK EffectsOwed LatestFirst CleanMeansRestored OutsideTunnel
PROPERTY ForeignRoutesKept
SYMMETRY Uplinks
