SPECIFICATION HandlersSpec
CONSTANTS
  r1 = r1
  r2 = r2
  w1 = w1
  w2 = w2
  Requests = {r1, r2}
  Workers = {w1, w2}
  LogBuffer = 1
  BatchSize = 2
  BeaconBuffer = 1
  NoEntry = NoEntry
  WithBeacon = TRUE
  ServerOf <- MCServerOf
  MaxFaults = 2
INVARIANTS
  NothingMislaid
  ShutdownAnswers
  BeaconAtMostOnce
PROPERTIES
  ImplementsRequestLog
  RequestsAnswered
  EntriesAreWritten
  BeaconsAreSent
