SPECIFICATION Spec
CONSTANTS
  A = A
  Global = Global
  N = N
  None = None
  Wide = Wide
  Host = Host
  Dangling = Dangling
  MaxItems = 2
  Counts <- MCCounts
  Descriptors <- MCDescriptors
  Settings <- MCSettings
  Targets <- MCTargets
  Texts <- MCTexts
INVARIANT TargetsMatch
