CONSTANTS
    TransportOutcomes <- MCTransportOutcomes
    Aborters = {ab1, ab2}
SPECIFICATION Spec
PROPERTY
    NoSuccessAfterAbort
