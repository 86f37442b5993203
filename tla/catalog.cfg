CONSTANTS
  Names = {d1, d2}
  Defaults = {d1, d2}
  Nodes = {n1}
  Editors = {e1, e2}
  MaxCalls = 3
SPECIFICATION Spec
SYMMETRY Symmetry
INVARIANTS SecretIsTyped CatalogIsComplete
PROPERTIES QuietSaveKeepsRow
CHECK_DEADLOCK FALSE
