CONSTANTS
  Sessions = {own, alice, bob}
  CurrentSession = own
  Logons = {l1, l2, l3}
  LogonObjects = {o1}
  SidObjects = {x1}
  MaxSids = 2
  MaxSlack = 1
  None = None

SPECIFICATION Spec

SYMMETRY Symmetry

INVARIANTS
  TypeOK
  LogonObjectsTell
  PolicyIsCurrent
  NameIsWholeOrEmpty
