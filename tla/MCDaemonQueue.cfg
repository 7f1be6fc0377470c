\* One hook and two messages, against every failure of the link, the daemon and the
\* destination; no health URL.
SPECIFICATION Spec
CONSTANTS
  None = None
  Command = Command
  Hooks = {h1}
  Messages = {m1, m2}
  Tokens = {t1}
  Restorers = {r1}
  Probed = {}
  Disturbances = {"drop", "crash", "lost", "refuse", "timeout", "age", "mute", "halfday"}
  MaxDisturbed = 3
  MaxFrames = 3
SYMMETRY Symmetry
INVARIANTS TypeOK ReadWasAnswered QueuedIsHeld
PROPERTIES AnsweredIsReported PostedIsEligible DeliversAsPromised
\* Once the disturbances are used up and all is read, nothing is left to do.
CHECK_DEADLOCK FALSE
