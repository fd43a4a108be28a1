SPECIFICATION Spec
CONSTANTS
  Windows = {w1}
  Paths = {doc}
  Drafts = {}
  EditLimit = 2
  Budgets <- JustEnds
INVARIANTS DraftsAreOffered
