SPECIFICATION Spec
CONSTANTS
  Signatures <- MCSignatures
  CustomSizes <- MCCustomSizes
  MaxArgs = 2
INVARIANT EveryReturnArrives
