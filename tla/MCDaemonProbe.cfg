\* A failing hook with a health URL, and a mute.
SPECIFICATION Spec
CONSTANTS
  None = None
  Command = Command
  Hooks = {h1}
  Messages = {m1}
  Tokens = {t1}
  Restorers = {r1}
  Probed = {h1}
  Disturbances = {"refuse", "mute"}
  MaxDisturbed = 2
  MaxFrames = 1
SYMMETRY Symmetry
PROPERTIES PostedIsEligible
\* Once the disturbances are used up and all is read, nothing is left to do.
CHECK_DEADLOCK FALSE
