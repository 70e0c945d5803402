\* The rename that stashes the existing target may fail too.
CONSTANTS
  r1 = r1
  t1 = t1
  None = None
  Request = {r1}
  Target = {t1}
  Faults = {"stash"}
SPECIFICATION Spec
INVARIANT ContentRecoverable
