CONSTANTS
  MaxLength = 3
  MaxArgs = 2

SPECIFICATION Spec

INVARIANT ArgumentsArrive
