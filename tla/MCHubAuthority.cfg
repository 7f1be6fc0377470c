\* Two sessions of one account on one connection.
SPECIFICATION FairSpec
CONSTANTS
  r1 = r1
  r2 = r2
  c1 = c1
  c2 = c2
  s1 = s1
  s2 = s2
  h1 = h1
  h2 = h2
  alice = alice
  None = None
  Receivers = {r1}
  Callers = {c1}
  Sessions = {s1, s2}
  Hooks = {h1}
  Owner <- OneOwner
  Capacity = 1
  Disturbances = {"subscribe", "end"}
  MaxDisturbed = 3
PROPERTIES EndedIsWithdrawn
\* Once the disturbances are used up and nothing is bound, nothing is left to do.
CHECK_DEADLOCK FALSE
