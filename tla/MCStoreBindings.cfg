\* One message, one hook and two receivers, over consent, preferences and retries.
SPECIFICATION Spec
CONSTANTS
  app = app
  alice = alice
  appScope = appScope
  k1 = k1
  k2 = k2
  m1 = m1
  m2 = m2
  None = None
  Apps = {app}
  Recipients = {alice}
  Scopes = {appScope}
  Requests <- TwoModes
  Messages = {m1}
  Hooks = {h1}
  Receivers = {r1, r2}
  SendKeys = {k1, k2}
  ReadKeys = {k1}
  HookKeys = {k1}
  BatchLimit = 1
  KeyWindow = 1
  Month = 1
  Quarter = 2
  MaxTime = 1
SYMMETRY Symmetry
INVARIANTS TypeOK BindingCoherent OffersFollowTheBinding WindowIsPermitted OptInNeedsGrant
PROPERTIES RepeatedReadAckIsInert LiveKeysAreFinal
