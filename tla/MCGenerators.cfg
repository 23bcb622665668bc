SPECIFICATION Spec
CONSTANTS
  draw = draw
  read = read
  buffer = buffer
  NoName = NoName
  Names <- MCNames
  Args <- MCArgs
  Declarations <- MCDeclarations
  MaxHeader = 2
  MaxMeta = 3
  MaxEdits = 1
INVARIANTS HashFindsFunction KindsAgree ResultsAwaited BuiltAsDescribed
CHECK_DEADLOCK FALSE
