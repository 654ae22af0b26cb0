SPECIFICATION BoardSpec
CONSTANTS
  ConnectTimeout = 1
  RetryCount = 1
  DirectConnect = FALSE
  AppMode = {"IDLE", "CONFIG", "STA"}
  RandLeft = {60}
  RandRight = {100}
  Moves = {1}
  Drift = 2
INVARIANTS ConfigurationSafe
PROPERTIES OutcomeAsTold ConfigurationGoesOn RulesKept GamesStartAndEnd
