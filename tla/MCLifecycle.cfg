\* One install and one uninstall, any of the initial clusters.
SPECIFICATION Spec
CONSTANTS
    install = install
    uninstall = uninstall
    None = None
    Installs <- MCInstalls
    Uninstalls <- MCUninstalls
    Clusters <- MCClusters
    Purges <- MCPurges
    Contested <- MCContested
INVARIANTS
    TypeOK
    RollbackHonest
    UninstallHonest
PROPERTIES
    CheckedUnderLock
\* Scripts end.
CHECK_DEADLOCK FALSE
