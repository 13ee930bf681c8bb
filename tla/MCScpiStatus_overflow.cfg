SPECIFICATION Spec
CONSTANTS
    Errors <- MCErrors
    EseMasks <- MCEseMasks
    SreMasks <- MCSreMasks
    QueseMasks <- MCQueseMasks
    Size = 2
PROPERTY NewestErrorHasItsClass
