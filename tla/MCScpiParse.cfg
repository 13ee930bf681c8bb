SPECIFICATION ParseSpec
CONSTANTS
    Requests <- Proper
    Followers <- Probes
    DacFound = TRUE
    SensorFound = FALSE
    Patient = TRUE
INVARIANTS
    RunsWhatTheMessageSays AnswersTheRequest FailuresAreReported
