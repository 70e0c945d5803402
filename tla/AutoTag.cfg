\* Eighteen versions, and a tag that is none.
SPECIFICATION Spec
CONSTANTS
  Version <- MCVersion
  Name = {latest}
  None = None
INVARIANT SemverOrder
PROPERTY VersionMovesUp
