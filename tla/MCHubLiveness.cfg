\* One connection, all disturbances, with fairness.
SPECIFICATION FairSpec
CONSTANTS
  r1 = r1
  r2 = r2
  c1 = c1
  c2 = c2
  s1 = s1
  s2 = s2
  h1 = h1
  h2 = h2
  alice = alice
  None = None
  Receivers = {r1}
  Callers = {c1}
  Sessions = {s1}
  Hooks = {h1}
  Owner <- OneOwner
  Capacity = 1
  Disturbances = {"subscribe", "watch", "unsubscribe", "pause", "ack", "attach", "takeover", "create", "detach", "invalidate", "hint", "logout", "outage", "drop", "crash", "end", "expire", "cancel"}
  MaxDisturbed = 4
PROPERTIES RevokedIsWithdrawn WatchEnds SignsOutAtAccounts
\* Once the disturbances are used up and nothing is bound, nothing is left to do.
CHECK_DEADLOCK FALSE
