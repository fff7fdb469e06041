SPECIFICATION PoolSpec
CONSTANTS
  Jobs <- MCJobs
  Raisings <- MCRaisings
  MaxWorkers = 3
INVARIANTS PoolTypeOK OneWorkerPerJob
PROPERTIES ImplementsSerial Ends
