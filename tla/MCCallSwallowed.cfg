CONSTANTS
  Prose = {"x", "{", "}", "quote", "backslash"}
  MaxProse = 4
SPECIFICATION Spec
INVARIANT CallExtracted
