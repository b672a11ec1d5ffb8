SPECIFICATION Spec
CONSTANTS
  Loggers = {gui, io, rt}
  MaxEntries = 2
INVARIANTS
  TypeOK
  NoLostRefresh
PROPERTY Refreshed
