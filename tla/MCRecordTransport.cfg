CONSTANTS
    Records <- SomeRecords
    Foreign <- SomeForeign
    Outputs <- SomeOutputs
    Preloaded <- SomePreloaded
    ServerNow = 1
    StaleSeconds = 1
SPECIFICATION Spec
INVARIANTS ReadersSeeWhatWasWritten ClaimCarriesTheRequest NoHandlerPanics
