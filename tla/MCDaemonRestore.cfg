\* Two hooks, one of which another device detaches.
SPECIFICATION FairSpec
CONSTANTS
  None = None
  Command = Command
  Hooks = {h1, h2}
  Messages = {m1}
  Tokens = {t1}
  Restorers = {r1}
  Probed = {}
  Disturbances = {"detach"}
  MaxDisturbed = 1
  MaxFrames = 1
PROPERTIES AttachedIsRestored
\* Once the disturbances are used up and all is read, nothing is left to do.
CHECK_DEADLOCK FALSE
