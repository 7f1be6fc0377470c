\* Every command of the user beside every failure, a health URL, with fairness.
SPECIFICATION FairSpec
CONSTANTS
  None = None
  Command = Command
  Hooks = {h1}
  Messages = {m1}
  Tokens = {t1, t2}
  Restorers = {r1}
  Probed = {h1}
  Disturbances = {"logout", "login", "reconnect", "attach", "unhook", "expire", "steal", "detach", "drop", "crash", "lost", "refuse", "timeout", "outage"}
  MaxDisturbed = 2
  MaxFrames = 1
INVARIANTS BlockedIsSilent AuthorizedIsBound
PROPERTIES OwedIsRead
\* Once the disturbances are used up and all is read, nothing is left to do.
CHECK_DEADLOCK FALSE
