SPECIFICATION MigrationSpec
CONSTANTS
  Nobody = Nobody
  Processes = {p1, p2}
  Ledgers <- RecordedAtGuard
  Canonical <- Keys
  MaxCrashes = 1
INVARIANTS
  PopulatedLedgersUpgrade
