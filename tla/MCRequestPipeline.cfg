\* Two namespaces, every configuration of the security pipeline.
SPECIFICATION Spec
CONSTANTS
    dev = dev
    ops = ops
    Cluster = Cluster
    Global = Global
    Elsewhere = Elsewhere
    Invalid = Invalid
    None = None
    Namespaces <- MCNamespaces
INVARIANTS
    TypeOK
    GuardedReads
    TruthfulEvent
PROPERTY
    RefusalIsFinal
\* A request ends.
CHECK_DEADLOCK FALSE
