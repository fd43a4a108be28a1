SPECIFICATION Spec
CONSTANTS
  Windows = {w1, w2}
  Paths = {doc, copy}
  Drafts = {draft}
  EditLimit = 2
  Budgets <- Instances
SYMMETRY Symmetry
INVARIANTS TypeOK NoEditLost OneEditor
PROPERTY NoBlindSave
