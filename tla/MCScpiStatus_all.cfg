SPECIFICATION Spec
CONSTANTS
    Errors <- MCErrors
    EseMasks <- MCEseMasks
    SreMasks <- MCSreMasks
    QueseMasks <- MCQueseMasks
    Size = 3
INVARIANT StatusByteIsSummary
PROPERTY ImplementsErrorLog
