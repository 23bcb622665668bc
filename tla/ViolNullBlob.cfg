SPECIFICATION Spec
CONSTANTS
  Signatures <- MCSignatures
  CustomSizes <- MCCustomSizes
  MaxArgs = 1
INVARIANT NullBlobIsSent
