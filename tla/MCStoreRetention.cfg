\* Two messages of a hook over all periods of retention, with fairness.
SPECIFICATION FairSpec
CONSTANTS
  app = app
  alice = alice
  appScope = appScope
  k1 = k1
  k2 = k2
  m1 = m1
  m2 = m2
  None = None
  Apps = {app}
  Recipients = {alice}
  Scopes = {}
  Requests <- OneMode
  Messages = {m1, m2}
  Hooks = {h1}
  Receivers = {r1}
  SendKeys = {k1}
  ReadKeys = {}
  HookKeys = {k1}
  BatchLimit = 1
  KeyWindow = 1
  Month = 1
  Quarter = 2
  MaxTime = 3
INVARIANTS SendOnce RetryFindsMessage CopiesAreOwed
PROPERTIES RetentionIsKept OnlyTimeBlocks CopiesAreDurable WaitingEnds
