CONSTANTS
    TransportOutcomes <- MCTransportOutcomes
    Aborters = {ab1, ab2}
SPECIFICATION Spec
INVARIANT
    DoneAtMostOnce
    AbortLeavesNothingRunning
    ReportedRequestCompleted
PROPERTY
    DoneEventually
    SessionSpec
