\* Two sources: any labels, any error, up to one signal over the budget.
SPECIFICATION Spec
CONSTANTS
    SourceCount = 2
    MaxSignals = 1
    Answers <- MCAnyAnswers
INVARIANTS
    TypeOK
    TruthfulSources
    OneResultEach
    NoFakeEmptySuccess
    BundlePassesSanitizer
PROPERTIES
    SettledIsFinal
    ReplyEventually
    AdaptersDrain
    ImplementsPromise
