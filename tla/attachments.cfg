CONSTANTS
  Stems = {"a", "sub", "attachment", "..", "thumbnails", "none"}
  Exts = {"pdf", "none"}
  Kinds <- OddAndColliding
  MaxParts = 4
  MaxCopies = 2
SPECIFICATION FairSpec
INVARIANTS TypeOK NamesDistinct PartsAreFound StorableIsNotRefused
PROPERTIES StorableIsStored
CHECK_DEADLOCK FALSE
