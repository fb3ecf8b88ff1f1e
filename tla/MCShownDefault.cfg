SPECIFICATION Spec
CONSTANTS
  None = None
  Out <- MCOut
  Hosts = {"h"}
  Slaves = {1, 2}
  Bauds = {2400}
  Names = {"", "Home", "home"}
  EnteredPrefixes = {""}
  Slug <- MCSlug
  Rates = {30}
  Adapters = {"usr_w610", "serial_other"}
  OldEntries <- MCOldEntries
  MaxInverters = 2
  MaxChanges = 2
INVARIANT PollsAtShownDefault
CHECK_DEADLOCK FALSE
