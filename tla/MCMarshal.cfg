SPECIFICATION Spec
CONSTANTS
  Signatures <- MCSignatures
  CustomSizes <- MCCustomSizes
  MaxArgs = 3
INVARIANTS MarshalInv ArgumentsArrive ResultsArrive CopiesFit NothingLeftOver
