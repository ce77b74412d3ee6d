SPECIFICATION Spec
CONSTANTS
  Address = {a1, a2, a3}
  Pointers = {p1, p2, p3}
  Patterns = {h1, h2}
  CacheLimit = 2
  None = None
SYMMETRY Symmetries
INVARIANTS TypeOK WindowsBacked CacheFresh CacheBounded
PROPERTIES NothingForgotten
