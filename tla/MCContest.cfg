SPECIFICATION Spec
CONSTANTS
  Conns = {c1, c2, c3}
  Nicks = {a, b}
  None = None
  Challenge = FALSE
  HistoryCap = 2
  MaxHeld = 2
SYMMETRY Symmetry
CONSTRAINT Contest
INVARIANTS TypeOK NickTable NoOrphanRecord MarkPinged
PROPERTY OwnershipSpec
