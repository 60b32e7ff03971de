\* As many requests on different deals as connections.
SPECIFICATION Spec
CONSTANTS
  Requests = {r1, r2, r3, r4}
  Deals = {d1, d2, d3, d4}
  NoDeal = NoDeal
  MaxConns = 4
  Statements = 1
SYMMETRY RequestSymmetry
INVARIANT DifferentDealsDoNotBlock
