CONSTANTS
  a = a
  c1 = c1
  c2 = c2
  c3 = c3
  d1 = d1
  d2 = d2
  k = k
  w = w
  s1 = s1
  s2 = s2
  None = None
  Console = Console
  Names = {a}
  Sessions = {s1, s2}
  SessionOf <- MCSessionOf
  Creators = {c1, c2, c3}
  Deleters = {d1, d2}
  Cascades = {}
  Reapers = {w}
  Faults = {"evict", "reject"}
  Exclusive = TRUE
SPECIFICATION Spec
CHECK_DEADLOCK FALSE
INVARIANTS SandboxUsable
PROPERTIES NoForeignKill NamesKept
