\* Fewer requests in flight than connections.
SPECIFICATION FairSpec
CONSTANTS
  Requests = {r1, r2, r3}
  Deals = {d1, d2}
  NoDeal = NoDeal
  MaxConns = 4
  Statements = 1
INVARIANT QueuesHoldWaiters
INVARIANT ConnsMatchSteps
INVARIANT DealLockExclusive
INVARIANT NotWedged
PROPERTY Answered
