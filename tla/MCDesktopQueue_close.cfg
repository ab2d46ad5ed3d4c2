CONSTANTS
  a = a
  b = b
  k = k
  l = l
  t = t
  u = u
  h1 = h1
  h2 = h2
  None = None
  Sources = {a, b}
  Saved = {k, l}
  Sessions = {t}
  Handles = {h1, h2}
  QueueLimit = 2
  PendingLimit = 2
  MaxClicks = 4

SPECIFICATION FairSpec
PROPERTY ClosesIdle
