\* Requests on two deals at once: chown, approvals, withdrawals, deadlines, wishes deleted.
SPECIFICATION Spec
CONSTANTS
  ann = ann  bob = bob  cat = cat
  bike = bike  lamp = lamp  sofa = sofa  book = book
  Users = {ann, bob, cat}
  Items = {bike, lamp, sofa}
  Deals = {d1, d2}
  Requests = {r1, r2}
  NoUser = NoUser  NoItem = NoItem  NoDeal = NoDeal  NoRequest = NoRequest
  BareLock = BareLock
  InitHolder <- RingHolder
  InitLock   <- RingLock
  InitWishes <- RingWishes
  Calls = {"deal", "approve", "withdraw", "time", "chown", "unwish"}
  RootItems = {bike, lamp}
  MaxFaults = 0
  LatePatch = FALSE
SYMMETRY DealSymmetry
CHECK_DEADLOCK FALSE
INVARIANT TypeOK
INVARIANT ExclusiveClaim
INVARIANT AcceptedIsLocked
INVARIANT OffererHolds
INVARIANT FinishedHoldsNothing
PROPERTY TransferOnlyAgreed
PROPERTY StatusLifecycle
