SPECIFICATION Spec
CONSTANTS
  Processes <- MCProcesses
  Fleets <- MCFleets
  Databases0 <- MCDatabases0
  Upgrades <- MCUpgrades
  Features = {"postgres", "lancedb"}
  MaxFaults = 1
  MaxRedeploys = 1
CHECK_DEADLOCK FALSE
INVARIANTS
  SchemaSound
  ReadyMeansMigrated
  WiringSound
PROPERTIES
  ProcessesSettle
