CONSTANTS
  i1 = i1  i2 = i2  o1 = o1
  r1 = r1  r2 = r2
  Incoming = {i1, i2}  Anonymous = {i2}  Outgoing = {o1}
  Requests = {r1, r2}
  MaxFaults = 1  MaxManual = 1
SPECIFICATION Spec
SYMMETRY Symmetry
INVARIANTS OneRowPerEvent AckedIsStored ContactBehindMessage
PROPERTIES ReadIsFinal
