CONSTANTS
  t1 = t1
  t2 = t2
  Tuners = {t1, t2}
  Engines = {e1}
  Channels <- MCChannels
  Carries <- MCCarries
  Unstable = {t2}
  Changing <- MCChanging
  Timed <- MCTimed
  Protected <- MCProtected
  Video <- MCVideo
  Files <- MCRanges
  Flags = {"+"}
  Chosen = {"logos", "radio"}
  MaxEdits = 2
  MaxLost = 1
SPECIFICATION Spec
INVARIANTS MappedAsListed
CHECK_DEADLOCK FALSE
