SPECIFICATION TableSpec
CONSTANTS
  c1 = c1
  c2 = c2
  Callers = {c1, c2}
  BindArgs <- Args
  MaxSockets = 3
PROPERTY SettledClient
