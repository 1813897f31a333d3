CONSTANTS
  User = {creator, operator}
  Creator = creator
  EUR = EUR
  Currency = {EUR}
  Sources <- MCSources
  Mappings <- MCMappings
  MaxRuns = 2
  None = None
SPECIFICATION MigrationSpec
CHECK_DEADLOCK FALSE
INVARIANTS RunsBalance SwitchRestsOnReadyRun
