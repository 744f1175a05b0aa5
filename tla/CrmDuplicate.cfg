CONSTANTS
  o1 = o1
  r1 = r1  r2 = r2
  Incoming = {}  Anonymous = {}  Outgoing = {o1}
  Requests = {r1, r2}
  MaxFaults = 0  MaxManual = 1
SPECIFICATION Spec
SYMMETRY Symmetry
INVARIANTS NoDuplicateRow
