CONSTANTS
  t1 = t1
  t2 = t2
  Tuners = {t1, t2}
  Engines = {e1}
  Channels <- MCChannels
  Carries <- MCCarries
  Unstable = {t2}
  Changing <- MCChanging
  Timed <- MCTimed
  Protected <- MCProtected
  Video <- MCVideo
  Files <- MCFiles
  Flags = {"+"}
  Chosen = {"logos", "radio", "times"}
  MaxEdits = 2
  MaxLost = 0
SPECIFICATION Spec
INVARIANTS TimersFollowLineups
CHECK_DEADLOCK FALSE
