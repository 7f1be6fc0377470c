\* A handler is dropped between its change and the pause that announces it.
SPECIFICATION Spec
CONSTANTS
  r1 = r1
  r2 = r2
  c1 = c1
  c2 = c2
  s1 = s1
  s2 = s2
  h1 = h1
  h2 = h2
  alice = alice
  None = None
  Receivers = {r1}
  Callers = {c1, c2}
  Sessions = {s1}
  Hooks = {h1}
  Owner <- OneOwner
  Capacity = 1
  Disturbances = {"subscribe", "invalidate", "cancel"}
  MaxDisturbed = 3
SYMMETRY Symmetry
INVARIANTS PauseIsNeverMissed
\* Once the disturbances are used up and nothing is bound, nothing is left to do.
CHECK_DEADLOCK FALSE
