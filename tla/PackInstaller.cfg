SPECIFICATION Spec
CONSTANTS
  changed = changed
  removed = removed
  added = added
  Paths = {changed, removed, added}
  Contents = {"one", "two", "mine"}
  Versions = {"one", "two"}
  Absent = Absent
  NoPack = NoPack
  Release <- Pack
  AtFirst <- Unowned
  MaxInstalls = 2
  MaxEdits = 2
  MaxTroubles = 3
INVARIANTS TypeOK Recoverable PackAsReleased
PROPERTIES NothingLost NothingUnseen Implements
CHECK_DEADLOCK FALSE
