\* A hook past its twelve hours, and its user.
SPECIFICATION Spec
CONSTANTS
  None = None
  Command = Command
  Hooks = {h1}
  Messages = {m1}
  Tokens = {t1}
  Restorers = {r1}
  Probed = {}
  Disturbances = {"refuse", "halfday", "reconnect"}
  MaxDisturbed = 3
  MaxFrames = 1
SYMMETRY Symmetry
PROPERTIES ReconnectHolds
\* Once the disturbances are used up and all is read, nothing is left to do.
CHECK_DEADLOCK FALSE
