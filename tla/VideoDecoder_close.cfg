SPECIFICATION Spec
CONSTANTS
  Nals = {n1}
PROPERTY CloseReturns
