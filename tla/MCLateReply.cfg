CONSTANTS
  MaxLag = 2
  Kinds = {"modbus"}

SPECIFICATION Spec

INVARIANT
  ReturnsItsRegister
