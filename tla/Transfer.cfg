CONSTANTS
  Max = 7
  Delays <- MCDelays
  Debug = FALSE
  Timeout = 3
  Retries = {0, 1}
SPECIFICATION TSpec
INVARIANTS TInv OwnCompletion
PROPERTIES InTime Returns NotMissed TransferEnds
