\* Two requests on two paths.  Everything may fail except the operations
\* whose failure defeats the stash (probe, stat, stash).
CONSTANTS
  r1 = r1
  r2 = r2
  t1 = t1
  t2 = t2
  None = None
  Request = {r1, r2}
  Target = {t1, t2}
  Faults = {"fetch", "write", "scrub", "rollback", "cleanup"}
SPECIFICATION FairSpec
INVARIANTS SingleFlight ContentRecoverable
PROPERTIES OverwriteNeedsConsent ImplementsAtomicRestore SlotFreed
