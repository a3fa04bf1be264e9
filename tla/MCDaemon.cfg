SPECIFICATION Spec
CONSTANTS
    collector = collector
    dashboard = dashboard
    updater = updater
    Subsystem = {collector, dashboard, updater}
    Collector <- collector
    Updater <- updater
    Doomed = {dashboard}
    Newest = 3
    Gone = Gone
    Corrupt = Corrupt
    MaxFaults = 4
INVARIANTS
    TypeOK
    BinaryKept
    Verified
    WholeRelease
PROPERTIES
    OnlyUpgrades
    Converges
    Collecting
