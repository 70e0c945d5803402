\* Two files, two runs, one manual backup, one change of settings or files,
\* and one listing of the staging directory meanwhile.
SPECIFICATION SSpec
CONSTANTS
  Exporter = {"grafana", "signalkDatabase"}
  Section = {"grafana.db", "dashboards", "signalkDatabase"}
  File = {f1, f2}
  Backup = {b1}
  MaxRuns = 2
  MaxChanges = 1
  MaxWalks = 1
  None = None
\* Runs, changes, backups and listings are bounded, so a behaviour may end.
CHECK_DEADLOCK FALSE
INVARIANTS SnapshotConsistent ListingComplete
PROPERTIES BackupSeesRun BackupForwarded
